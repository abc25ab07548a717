----------------------------- MODULE NbScenario -----------------------------
(***************************************************************************)
(* The iterations of a task, each running a scenario: a sequence of the    *)
(* methods of NbMethods on its own client, against the one northbound      *)
(* database.  Rally runs them one after the other or in parallel; here     *)
(* they interleave at every step.  An exception ends the iteration: no     *)
(* scenario catches one, and the iteration's client goes with it.          *)
(*                                                                         *)
(* A few operators named after a mistake (LastFlushForgotten, ...) stand   *)
(* before the one they could replace; they are used by no definition.      *)
(***************************************************************************)
EXTENDS NbctlClient, NbMethods

CONSTANT Program    \* Program[it] : the methods the scenario calls, in order

ASSUME ProgramAssumption ==
    /\ Program \in [Iterations -> Seq(Methods)]
    /\ \A it \in Iterations : \A m \in DOMAIN Program[it] :
           \A k \in DOMAIN Program[it][m].items : Program[it][m].items[k] # <<>>

VARIABLES
    at,          \* where in the method the iteration is
    method,      \* the method it runs or is about to call
    item,        \* the loop variable of the method
    pos,         \* the command of the item run() is called with next
    flushCount,  \* flush_count
    handles      \* the objects whose handles the methods returned

loopVars == <<method, item, pos, flushCount, handles>>
vars == <<clientVars, at, loopVars>>

Places == {"call", "run", "itemEnd", "sync", "syncRun", "finish", "done"}

M(it) == Program[it][method[it]]
CommandAt(it) == M(it).items[item[it]][pos[it]]

Init ==
    /\ ClientInit
    /\ at = [it \in Iterations |-> "call"]
    /\ method = [it \in Iterations |-> 1]
    /\ item = [it \in Iterations |-> 1]
    /\ pos = [it \in Iterations |-> 1]
    /\ flushCount = [it \in Iterations |-> 0]
    /\ handles = [it \in Iterations |-> {}]

Go(it, place) == at' = [at EXCEPT ![it] = place]

AfterItems(it) == IF M(it).sync THEN "sync" ELSE "finish"

\* A method starts: enable_batch_mode() and flush_count = batch.  A method
\* that deletes objects ends the use the scenario has for their handles.
Call(it) ==
    /\ at[it] = "call" /\ method[it] <= Len(Program[it])
    /\ CASE M(it).mode = "on" -> EnableBatchMode(it, TRUE)
         [] M(it).mode = "off" -> EnableBatchMode(it, FALSE)
         [] M(it).mode = "asis" -> UNCHANGED batchMode
    /\ flushCount' = [flushCount EXCEPT ![it] = M(it).batch]
    /\ item' = [item EXCEPT ![it] = 1]
    /\ pos' = [pos EXCEPT ![it] = 1]
    /\ handles' = [handles EXCEPT ![it] = @ \ M(it).drops]
    /\ Go(it, IF M(it).items = <<>> THEN AfterItems(it) ELSE "run")
    /\ UNCHANGED <<cmds, raised, nb, issued, committed, lost, method>>

\* The loop body: run() with the next command of the item.
RunCommand(it) ==
    /\ at[it] = "run" /\ ~raised[it]
    /\ Run(it, CommandAt(it))
    /\ IF pos[it] < Len(M(it).items[item[it]])
       THEN pos' = [pos EXCEPT ![it] = @ + 1] /\ UNCHANGED at
       ELSE pos' = [pos EXCEPT ![it] = 1] /\ Go(it, "itemEnd")
    /\ UNCHANGED <<batchMode, method, item, flushCount, handles>>

\* flush_count after the decrement; index % batch in _wait_up_port_lsp.
FlushDue(it) ==
    CASE M(it).rule = "count" -> flushCount[it] - 1 < 1
      [] M(it).rule = "modulo" -> (item[it] - 1) % M(it).batch = 0
      [] M(it).rule = "never" -> FALSE

\* flush_count after the end of the loop body.
FlushCountNotReset(it) == flushCount[it] - 1

FlushCountNext(it) == IF FlushDue(it) THEN M(it).batch ELSE flushCount[it] - 1

\* The end of the loop body: flush() when it is due, and the next item.
EndItem(it) ==
    /\ at[it] = "itemEnd" /\ ~raised[it]
    /\ IF FlushDue(it)
       THEN Flush(it)
       ELSE UNCHANGED <<cmds, raised, nb, issued, committed, lost>>
    /\ IF M(it).rule = "count"
       THEN flushCount' = [flushCount EXCEPT ![it] = FlushCountNext(it)]
       ELSE UNCHANGED flushCount
    /\ IF item[it] < Len(M(it).items)
       THEN item' = [item EXCEPT ![it] = @ + 1] /\ Go(it, "run")
       ELSE Go(it, AfterItems(it)) /\ UNCHANGED item
    /\ UNCHANGED <<batchMode, method, pos, handles>>

\* enable_batch_mode(False) after a flush(), which may have raised.
ModeForgotten(it) == UNCHANGED batchMode

LeaveBatchMode(it) == EnableBatchMode(it, batchMode[it] /\ raised'[it])

\* sync(): flush(), then the sync command in direct mode, then the mode the
\* client had before, which is the one the method asked for.
SyncFlushForgotten(it) ==
    /\ at[it] = "sync" /\ ~raised[it]
    /\ EnableBatchMode(it, FALSE)
    /\ Go(it, "syncRun")
    /\ UNCHANGED <<cmds, raised, nb, issued, committed, lost, loopVars>>

SyncFlush(it) ==
    /\ at[it] = "sync" /\ ~raised[it]
    /\ Flush(it)
    /\ LeaveBatchMode(it)
    /\ Go(it, "syncRun")
    /\ UNCHANGED loopVars

SyncRun(it) ==
    /\ at[it] = "syncRun" /\ ~raised[it]
    /\ RunDirect(it, Sync)
    /\ EnableBatchMode(it, M(it).mode = "on" /\ ~raised'[it])
    /\ Go(it, "finish")
    /\ UNCHANGED loopVars

\* "ensure all commands be run": the last flush(), then direct mode again.
\* Methods that do not touch the mode do not flush either.
LastFlushForgotten(it) == UNCHANGED <<cmds, raised, nb, issued, committed, lost>>

LastFlush(it) == Flush(it)

Finish(it) ==
    /\ at[it] = "finish" /\ ~raised[it]
    /\ IF M(it).mode = "asis"
       THEN UNCHANGED clientVars
       ELSE LastFlush(it) /\ LeaveBatchMode(it)
    /\ IF raised'[it]
       THEN UNCHANGED <<at, handles, method>>
       ELSE /\ handles' = [handles EXCEPT ![it] = @ \cup M(it).gives]
            /\ method' = [method EXCEPT ![it] = @ + 1]
            /\ Go(it, "call")
    /\ UNCHANGED <<item, pos, flushCount>>

Return(it) ==
    /\ at[it] = "call" /\ method[it] > Len(Program[it])
    /\ Go(it, "done")
    /\ UNCHANGED <<clientVars, loopVars>>

Step(it) ==
    \/ Call(it) \/ RunCommand(it) \/ EndItem(it) \/ SyncFlush(it)
    \/ SyncRun(it) \/ Finish(it) \/ Return(it)

Next == \E it \in Iterations : Step(it)

Spec == Init /\ [][Next]_vars

-----------------------------------------------------------------------------
(* Properties *)

\* Every variable has its type.
TypeOK ==
    /\ ClientTypeOK
    /\ at \in [Iterations -> Places]
    /\ method \in [Iterations -> Nat]
    /\ item \in [Iterations -> Nat]
    /\ pos \in [Iterations -> Nat]
    /\ flushCount \in [Iterations -> Nat]
    /\ handles \in [Iterations -> SUBSET Objs]

\* A method finds the client in direct mode with nothing waiting, and leaves
\* it so: the next method may read an answer (get, list) from run().
CleanBetweenMethods ==
    \A it \in Iterations :
        at[it] \in {"call", "done"} => ~batchMode[it] /\ cmds[it] = <<>>

\* No fragment of a batch ever reaches the shell as a line of its own, where
\* it would be dropped without an error.
NothingLost == \A it \in Iterations : lost[it] = <<>>

\* As long as no call raised, every command run() was called with has been
\* executed once and in that order, or still waits for flush(), in that
\* order.  After an exception the executed ones are still a prefix.
ExecutedOrWaiting ==
    \A it \in Iterations :
        \/ ~raised[it] /\ issued[it] = committed[it] \o cmds[it]
        \/ raised[it] /\ \E k \in 0..Len(issued[it]) :
                            committed[it] = SubSeq(issued[it], 1, k)

\* The handle of an object stands for an object that is in the database, with
\* every column the scenario has written to it but those that still wait for
\* flush(): create methods return handles of what run() was called with, before
\* anything is known of the answers.
HandlesComplete ==
    \A it \in Iterations : \A o \in handles[it] :
        /\ nb[o] # {}
        /\ \A k \in 1..(Len(issued[it]) - Len(cmds[it])) :
              LET c == issued[it][k]
              IN  c.obj = o /\ c.op \in {"add", "set"} => c.n \in nb[o]

\* Scenarios that name their switches after the same start_cidr ask for the
\* same names; no two iterations ever believe they own one object.
OneOwner ==
    \A i, j \in Iterations : i # j => handles[i] \cap handles[j] = {}

\* An iteration that returned leaves, of the objects its methods created,
\* exactly those whose handles it kept: a scenario that deletes what it
\* created leaves nothing behind.
ReturnedIterationLeavesItsHandles ==
    \A it \in Iterations : at[it] = "done" =>
        \A o \in UNION {Program[it][m].gives : m \in DOMAIN Program[it]} :
            nb[o] # {} <=> o \in handles[it]

\* A command that is answered at once (a query, sync) is answered on top of
\* everything the iteration had asked for before.
AnswersCoverAllIssued ==
    [][\A it \in Iterations :
          issued'[it] # issued[it] /\ ~batchMode[it] /\ ~raised'[it]
              => committed'[it] = issued'[it]]_vars
=============================================================================
