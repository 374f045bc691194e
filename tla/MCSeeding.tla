----------------------------- MODULE MCSeeding -----------------------------
EXTENDS Seeding

MCSeeders == {"a", "b", "c"}

\* A chain listed backwards, a seeder with two dependencies, none, a cycle.
Graphs == {
  [a |-> <<"b">>, b |-> <<"c">>, c |-> <<>>],
  [a |-> <<"b", "c">>, b |-> <<>>, c |-> <<>>],
  [a |-> <<>>, b |-> <<>>, c |-> <<>>],
  [a |-> <<"b">>, b |-> <<"a">>, c |-> <<>>] }

Options ==
  [env : {"", "production"}, groups : {{}}, classes : {{}}, skip : {{}},
   txMode : {"global", "per-seeder"}, dryRun : BOOLEAN, fresh : BOOLEAN,
   force : BOOLEAN]
  \cup
  [env : {"staging"}, groups : {{}, {"core"}}, classes : {{}, {"b", "c"}},
   skip : {{}, {"b"}}, txMode : {"global", "per-seeder"}, dryRun : {FALSE},
   fresh : {FALSE}, force : {FALSE}]

MCConfigs ==
  {[manifest |-> <<"a", "b", "c">>, dependsOn |-> g, appEnv |-> "production",
    environments |-> [a |-> {}, b |-> {"staging", "production"}, c |-> {"staging", "production"}],
    groups |-> [a |-> {"core"}, b |-> {"core", "demo"}, c |-> {}],
    truncating |-> t, badTable |-> {"c"}, conditional |-> cd, opts |-> o]
     : g \in Graphs, o \in Options, t \in {{"b"}, {"a", "c"}}, cd \in {{}, {"b"}}}
  \cup
  {[manifest |-> <<"a", "a">>, dependsOn |-> [a |-> <<>>, b |-> <<>>, c |-> <<>>],
    appEnv |-> "", environments |-> [a |-> {}, b |-> {}, c |-> {}],
    groups |-> [a |-> {}, b |-> {}, c |-> {}], truncating |-> {}, badTable |-> {},
    conditional |-> {}, opts |-> o] : o \in Options}
=============================================================================
