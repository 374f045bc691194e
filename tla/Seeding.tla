------------------------------ MODULE Seeding ------------------------------
(***************************************************************************)
(* seed.Registry and seed.Runner: seeders are registered, filtered, sorted *)
(* by the same algorithm as modules, and executed in one transaction or in *)
(* one each.  A seeder writes a row to its own table through sc.DBTX(),    *)
(* needs the reference of everything it depends on and leaves its own.     *)
(*                                                                         *)
(* ModuleOrder's variables are the runner's list of seeders (registered)   *)
(* and the state of kahnSort.                                              *)
(***************************************************************************)
EXTENDS ModuleOrder

CONSTANTS
  Configs,    \* seeders, and the options of the command line
  MaxFaults   \* bound: calls that fail in one behaviour

VARIABLES
  conf,     \* the seeders and RunOptions, which never change
  pc,       \* where Run is
  done,     \* seeders registered, or executed, so far
  present,  \* seeders whose row is in the database
  base,     \* history: present when the first transaction began
  pending,  \* rows written in the open transaction
  refs,     \* ReferenceStore: the seeders whose reference is set
  status,   \* SeederResult.Status of the results so far
  lost,     \* history: seeders whose Commit returned an error
  faults    \* calls that may still fail

seedVars == <<conf, pc, done, present, base, pending, refs, status, lost, faults>>
vars     == <<orderVars, seedVars>>

opts  == conf.opts
Fault == faults > 0 /\ faults' = faults - 1

Init ==
  /\ OrderInit
  /\ conf \in Configs
  /\ dependsOn = conf.dependsOn
  /\ pc = "register"
  /\ done = 0
  /\ present \in {{}, Modules}
  /\ base = present
  /\ pending = {} /\ refs = {} /\ lost = {}
  /\ status = [s \in Modules |-> "none"]
  /\ faults = MaxFaults

resolveEnv == IF opts.env # "" THEN opts.env ELSE conf.appEnv

filterByEnv(s)    == \/ resolveEnv = "" \/ conf.environments[s] = {}
                     \/ resolveEnv \in conf.environments[s]
filterByGroups(s) == opts.groups = {} \/ conf.groups[s] \cap opts.groups # {}
filterByClass(s)  == opts.classes = {} \/ s \in opts.classes
filterBySkip(s)   == s \notin opts.skip

filterSeeders(seeders) ==
  SelectSeq(seeders, LAMBDA s : /\ filterByEnv(s) /\ filterByGroups(s)
                                /\ filterByClass(s) /\ filterBySkip(s))

RegisterSeeder ==
  /\ pc = "register"
  /\ done < Len(conf.manifest)
  /\ Register(conf.manifest[done + 1])
  /\ done' = done + 1
  /\ UNCHANGED <<conf, pc, present, base, pending, refs, status, lost, faults>>

\* Run, up to the filters.  A registration that failed ends the program.
Run ==
  /\ pc = "register" /\ outcome = "none"
  /\ done = Len(conf.manifest)
  /\ IF resolveEnv = "production" /\ ~opts.force
     THEN pc' = "failed" /\ UNCHANGED registered
     ELSE pc' = "fresh" /\ registered' = filterSeeders(registered)
  /\ UNCHANGED <<dependsOn, inDegree, queue, sorted, outcome, conf, done,
                 present, base, pending, refs, status, lost, faults>>

\* TRUNCATE ... CASCADE empties the tables that refer to an emptied one.
Cascade(tables) ==
  {t \in Modules : \A S \in SUBSET Modules :
     (/\ tables \subseteq S
      /\ \A s \in Modules : Elements(dependsOn[s]) \cap S # {} => s \in S) => t \in S}

\* The tables of the TruncatingSeeders among the seeders that matched.
freshTables == conf.truncating \cap Elements(registered)

\* handleFresh: it runs on the pool, outside every transaction, and does
\* not look at DryRun.
handleFresh ==
  /\ pc = "fresh"
  /\ \/ /\ ~opts.fresh \/ freshTables = {}
        /\ pc' = "sort" /\ UNCHANGED <<present, faults>>
     \/ /\ opts.fresh /\ freshTables # {}
        /\ \/ freshTables \cap conf.badTable # {} /\ pc' = "failed"
                /\ UNCHANGED <<present, faults>>
           \/ Fault /\ pc' = "failed" /\ UNCHANGED present
           \/ /\ freshTables \cap conf.badTable = {}
              /\ present' = present \ Cascade(freshTables)
              /\ pc' = "sort" /\ UNCHANGED faults
  /\ base' = present'
  /\ UNCHANGED <<orderVars, conf, done, pending, refs, status, lost>>

\* topologicalSort, up to the loop of kahnSort.
topologicalSort ==
  /\ pc = "sort" /\ outcome = "none"
  /\ \/ /\ registered = <<>>
        /\ pc' = "done"
        /\ UNCHANGED <<inDegree, queue, outcome>>
     \/ /\ registered # <<>> /\ Unregistered
        /\ pc' = "failed" /\ outcome' = "error"
        /\ UNCHANGED <<inDegree, queue>>
     \/ /\ registered # <<>> /\ ~Unregistered
        /\ inDegree' = [s \in Modules |-> IF s \in Elements(registered)
                                          THEN Len(dependsOn[s]) ELSE 0]
        /\ queue' = SelectSeq(registered, LAMBDA s : dependsOn[s] = <<>>)
        /\ outcome' = "sorting"
        /\ UNCHANGED pc
  /\ UNCHANGED <<dependsOn, registered, sorted, conf, done, present, base,
                 pending, refs, status, lost, faults>>

\* The loop of kahnSort, which is the loop of Registry.topologicalSort.
kahnSort == (SortNext \/ EndSort) /\ UNCHANGED seedVars

\* The order is known, or there is none.
Sorted ==
  /\ pc = "sort" /\ outcome \in {"ok", "error"}
  /\ pc' = IF outcome = "ok" THEN "begin" ELSE "failed"
  /\ done' = 0
  /\ UNCHANGED <<orderVars, conf, present, base, pending, refs, status, lost, faults>>

\* BeginTx, once or for every seeder.
BeginTx ==
  /\ pc = "begin"
  /\ \/ pc' = "execute" /\ UNCHANGED faults
     \/ Fault /\ pc' = "failed"
  /\ UNCHANGED <<orderVars, conf, done, present, base, pending, refs, status, lost>>

current == sorted[done + 1]

GetRefs(s) == Elements(dependsOn[s]) \subseteq refs
SetRef(s)  == refs' = refs \cup {s}

\* Seed itself: it asks GetRef for what it depends on, writes, and sets its
\* reference.  An error may come before or after either write.
Seed(s) ==
  \/ /\ GetRefs(s)
     /\ status' = [status EXCEPT ![s] = "ok"]
     /\ pending' = pending \cup {s} /\ SetRef(s)
     /\ UNCHANGED faults
  \/ /\ GetRefs(s)
     /\ Fault
     /\ status' = [status EXCEPT ![s] = "error"]
     /\ pending' \in {pending, pending \cup {s}}
     /\ SetRef(s) \/ UNCHANGED refs
  \/ /\ ~GetRefs(s)
     /\ status' = [status EXCEPT ![s] = "error"]
     /\ UNCHANGED <<pending, refs, faults>>

\* executeSingle.
executeSingle ==
  /\ pc = "execute"
  /\ \/ /\ current \in conf.conditional   \* ShouldRun returned false
        /\ status' = [status EXCEPT ![current] = "conditional-skip"]
        /\ UNCHANGED <<pending, refs, faults>>
     \/ /\ opts.dryRun
        /\ status' = [status EXCEPT ![current] = "dry-run"]
        /\ UNCHANGED <<pending, refs, faults>>
     \/ ~opts.dryRun /\ Seed(current)
  /\ done' = done + 1
  /\ pc' = "settle"
  /\ UNCHANGED <<orderVars, conf, present, base, lost>>

last     == sorted[done]
finished == done = Len(sorted)

Rollback == pending' = {} /\ UNCHANGED <<present, lost>>

\* A Commit that reports an error may have reached the database or not.
Commit(written) ==
  \/ /\ present' = present \cup pending /\ pending' = {}
     /\ UNCHANGED <<lost, faults>>
  \/ /\ Fault
     /\ present' \in {present, present \cup pending} /\ pending' = {}
     /\ lost' = lost \cup written

\* Mutant of runGlobal: what was written before the error is committed.
runGlobal_KeepsGoing ==
  /\ pc = "settle" /\ opts.txMode # "per-seeder"
  /\ \/ /\ ~finished
        /\ pc' = "execute"
        /\ UNCHANGED <<present, pending, lost, faults>>
     \/ /\ finished /\ opts.dryRun
        /\ Rollback
        /\ pc' = "done" /\ UNCHANGED faults
     \/ /\ finished /\ ~opts.dryRun
        /\ Commit(pending)
        /\ pc' = IF lost' # lost THEN "failed" ELSE "done"
  /\ UNCHANGED <<orderVars, conf, done, base, refs, status>>

\* runGlobal after a result: the first error rolls everything back and is
\* returned; after the last seeder comes the commit.
runGlobal ==
  /\ pc = "settle" /\ opts.txMode # "per-seeder"
  /\ \/ /\ status[last] = "error"
        /\ Rollback
        /\ pc' = "failed" /\ UNCHANGED faults
     \/ /\ status[last] # "error" /\ ~finished
        /\ pc' = "execute"
        /\ UNCHANGED <<present, pending, lost, faults>>
     \/ /\ status[last] # "error" /\ finished /\ opts.dryRun
        /\ Rollback
        /\ \/ pc' = "done" /\ UNCHANGED faults
           \/ pc' = "failed" /\ Fault
     \/ /\ status[last] # "error" /\ finished /\ ~opts.dryRun
        /\ Commit(pending)
        /\ pc' = IF lost' # lost THEN "failed" ELSE "done"
  /\ UNCHANGED <<orderVars, conf, done, base, refs, status>>

\* Mutant of runPerSeeder: the rows of a failed seeder are committed.
runPerSeeder_Commits ==
  /\ pc = "settle" /\ opts.txMode = "per-seeder"
  /\ \/ /\ status[last] = "error"
        /\ pc' = "begin"
        /\ present' = present \cup pending /\ pending' = {}
        /\ UNCHANGED <<lost, faults>>
     \/ /\ status[last] # "error" /\ ~opts.dryRun
        /\ Commit({last})
        /\ pc' = IF finished THEN "done" ELSE "begin"
  /\ UNCHANGED <<orderVars, conf, done, base, refs, status>>

\* runPerSeeder after a result: an error or a dry run rolls this seeder
\* back, and the next one follows whatever happened.  A failed commit is
\* recorded in a variable that is not the one in the results (lost).
runPerSeeder ==
  /\ pc = "settle" /\ opts.txMode = "per-seeder"
  /\ \/ /\ status[last] = "error"
        /\ Rollback
        /\ pc' = (IF finished THEN "done" ELSE "begin") /\ UNCHANGED faults
     \/ /\ status[last] # "error" /\ opts.dryRun
        /\ Rollback
        /\ \/ pc' = (IF finished THEN "done" ELSE "begin") /\ UNCHANGED faults
           \/ pc' = "failed" /\ Fault
     \/ /\ status[last] # "error" /\ ~opts.dryRun
        /\ Commit({last})
        /\ pc' = IF finished THEN "done" ELSE "begin"
  /\ UNCHANGED <<orderVars, conf, done, base, refs, status>>

\* The process dies; the database rolls the open transaction back.
Crash ==
  /\ pc \in {"begin", "execute", "settle"}
  /\ Fault
  /\ pc' = "crashed"
  /\ pending' = {}
  /\ UNCHANGED <<orderVars, conf, done, present, base, refs, status, lost>>

Next ==
  \/ RegisterSeeder \/ Run \/ handleFresh
  \/ topologicalSort \/ kahnSort \/ Sorted
  \/ BeginTx \/ executeSingle \/ runGlobal \/ runPerSeeder
  \/ Crash

Spec == Init /\ [][Next]_vars

-----------------------------------------------------------------------------

over     == pc \in {"done", "failed", "crashed"}
inserted == present \ base

\* Global mode is all or nothing, whichever seeder, commit or process
\* failed: nothing is added to the database, or every seeder's row is, each
\* with the rows it refers to.
GlobalIsAllOrNothing ==
  opts.txMode # "per-seeder" =>
    /\ present # base => over
    /\ present \in {base, base \cup {s \in Modules : status[s] = "ok"}}
    /\ inserted # {} => \A i \in DOMAIN sorted : status[sorted[i]] # "error"
    /\ \A s \in inserted : Elements(dependsOn[s]) \subseteq present

\* Per-seeder failures are isolated: once the next seeder has begun, a
\* seeder is in the database if its result is ok (and its commit did not
\* fail), and adds nothing otherwise, whatever happened to the others.
PerSeederIsIsolated ==
  opts.txMode = "per-seeder" /\ pc \in {"begin", "done"} =>
    \A s \in Modules :
      /\ status[s] = "ok" /\ s \notin lost => s \in present
      /\ status[s] \in {"error", "conditional-skip", "dry-run"} => s \notin inserted

\* DryRun: "true if the runner is in preview mode".  A preview leaves the
\* database as it was, empty or full.
DryRunLeavesAlone == opts.dryRun => present \in {{}, Modules}

\* SeederResult says what became of the seeder: ok means its row is there.
OkIsCommitted ==
  pc = "done" => \A s \in Modules : status[s] = "ok" => s \in present
=============================================================================
