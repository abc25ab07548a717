------------------------- MODULE NbScenario_proofs -------------------------
(***************************************************************************)
(* Proofs about NbScenario and NbRefinement, for any set of iterations,    *)
(* any scenarios made of methods and any batch sizes; what objects become  *)
(* of and who holds their handles, for the scenarios of NbOwnership.       *)
(***************************************************************************)
EXTENDS NbOwnership, SequenceLemmas

\* The loop variables point into the method while it runs.
LoopInv ==
    \A it \in Iterations :
        /\ method[it] >= 1
        /\ at[it] \notin {"call", "done"} => method[it] \in DOMAIN Program[it]
        /\ at[it] \in {"run", "itemEnd"} => item[it] \in DOMAIN M(it).items
        /\ at[it] = "run" => pos[it] \in DOMAIN M(it).items[item[it]]
        /\ at[it] = "itemEnd" => pos[it] = 1

\* Batch mode is on only inside a method that asked for it, and outside it
\* nothing waits for flush(), unless an exception ended the iteration.
ModeInv ==
    \A it \in Iterations :
        /\ at[it] \in {"call", "done"} => ~raised[it] /\ ~batchMode[it]
        /\ ~raised[it] /\ at[it] \notin {"call", "done"} /\ batchMode[it] => M(it).mode = "on"
        /\ ~raised[it] /\ ~batchMode[it] => cmds[it] = <<>>

IInv == TypeOK /\ LoopInv /\ ModeInv

-----------------------------------------------------------------------------
(* What the client's operations do to its variables *)

\* Executing a transaction leaves a database.
LEMMA EffectTyped ==
    ASSUME NEW db \in Contents, NEW tx \in Seq(Commands)
    PROVE  TxEffect(db, tx) \in Contents
<1>1. \A j \in 1..Len(tx) : tx[j].n \in Nat
  <2>1. \A j \in 1..Len(tx) : tx[j] \in Commands
    OBVIOUS
  <2> QED
    BY <2>1 DEF Commands
<1>2. SUFFICES ASSUME NEW o \in Objs
               PROVE  TxEffect(db, tx)[o] \subseteq Nat
  BY DEF TxEffect, Contents
<1>3. db[o] \subseteq Nat
  BY DEF Contents
<1> QED
  BY <1>1, <1>3 DEF TxEffect

\* ssh.run() touches only the caller's client, empties cmds and adds the
\* transaction to what was executed unless it raises; when it raises, either
\* nothing was executed or all of it.
LEMMA SshRunEffect ==
    ASSUME TypeOK, NEW it \in Iterations, NEW tx \in Seq(Commands),
           NEW lines \in Seq(Commands), SshRun(it, tx, lines)
    PROVE  /\ cmds' \in [Iterations -> Seq(Commands)]
           /\ raised' \in [Iterations -> BOOLEAN]
           /\ nb' \in Contents
           /\ committed' \in [Iterations -> Seq(Commands)]
           /\ \A j \in Iterations \ {it} : /\ cmds'[j] = cmds[j]
                                          /\ raised'[j] = raised[j]
                                          /\ committed'[j] = committed[j]
           /\ \/ /\ raised'[it] = raised[it]
                 /\ cmds'[it] = <<>>
                 /\ committed'[it] = committed[it] \o tx
              \/ /\ raised'[it]
                 /\ committed'[it] \in {committed[it], committed[it] \o tx}
<1> USE DEF TypeOK, ClientTypeOK
<1>0. committed[it] \o tx \in Seq(Commands) /\ <<>> \in Seq(Commands)
  OBVIOUS
<1>1. TxEffect(nb, tx) \in Contents
  BY EffectTyped
<1>2. CASE Answered(it, tx) /\ cmds' = [cmds EXCEPT ![it] = <<>>]
  BY <1>0, <1>1, <1>2 DEF Answered
<1>3. CASE Refused(it, tx) /\ cmds' = [cmds EXCEPT ![it] = lines]
  BY <1>3 DEF Refused
<1>4. CASE LinkDown(it) /\ cmds' = [cmds EXCEPT ![it] = lines]
  BY <1>4 DEF LinkDown
<1>5. CASE AnswerLost(it, tx) /\ cmds' = [cmds EXCEPT ![it] = lines]
  BY <1>0, <1>1, <1>5 DEF AnswerLost
<1> QED
  BY <1>2, <1>3, <1>4, <1>5 DEF SshRun

\* The commands a method asks for are commands.
LEMMA MethodTyped ==
    ASSUME NEW it \in Iterations, method[it] \in DOMAIN Program[it]
    PROVE  /\ M(it) \in Methods
           /\ \A k \in DOMAIN M(it).items : M(it).items[k] \in Seq(Commands) \ {<<>>}
<1>1. M(it) \in Methods
  BY ProgramAssumption DEF M
<1>2. M(it).items \in Seq(Seq(Commands))
  BY <1>1 DEF Methods
<1> QED
  BY <1>1, <1>2, ProgramAssumption DEF M

LEMMA SyncTyped == Sync \in Commands
BY DEF Sync, Commands, Ops

\* run() and flush() keep the client's variables typed, change no other
\* client's, and leave nothing waiting in direct mode.
LEMMA RunEffect ==
    ASSUME TypeOK, NEW it \in Iterations, NEW c \in Commands, Run(it, c)
    PROVE  /\ cmds' \in [Iterations -> Seq(Commands)]
           /\ raised' \in [Iterations -> BOOLEAN]
           /\ nb' \in Contents
           /\ issued' \in [Iterations -> Seq(Commands)]
           /\ committed' \in [Iterations -> Seq(Commands)]
           /\ lost' \in [Iterations -> Seq(Commands)]
           /\ \A j \in Iterations \ {it} : /\ cmds'[j] = cmds[j]
                                          /\ raised'[j] = raised[j]
           /\ ~batchMode[it] /\ ~raised'[it] => cmds'[it] = <<>>
<1> USE DEF TypeOK, ClientTypeOK
<1>0. /\ Append(issued[it], c) \in Seq(Commands)
      /\ Append(cmds[it], c) \in Seq(Commands)
      /\ lost[it] \o cmds[it] \in Seq(Commands)
      /\ <<c>> \in Seq(Commands)
  OBVIOUS
<1>1. CASE RunBatched(it, c)
  BY <1>0, <1>1 DEF RunBatched
<1>2. CASE RunDirect(it, c)
  <2>1. SshRun(it, <<c>>, Append(cmds[it], c))
    BY <1>2 DEF RunDirect
  <2>2. /\ issued' \in [Iterations -> Seq(Commands)]
        /\ lost' \in [Iterations -> Seq(Commands)]
    BY <1>0, <1>2 DEF RunDirect
  <2> QED
    BY <1>0, <2>1, <2>2, SshRunEffect
<1> QED
  BY <1>1, <1>2 DEF Run

LEMMA FlushEffect ==
    ASSUME TypeOK, NEW it \in Iterations, Flush(it)
    PROVE  /\ cmds' \in [Iterations -> Seq(Commands)]
           /\ raised' \in [Iterations -> BOOLEAN]
           /\ nb' \in Contents
           /\ issued' = issued /\ lost' = lost
           /\ committed' \in [Iterations -> Seq(Commands)]
           /\ \A j \in Iterations \ {it} : /\ cmds'[j] = cmds[j]
                                          /\ raised'[j] = raised[j]
                                          /\ committed'[j] = committed[j]
           /\ ~raised'[it] => cmds'[it] = <<>> /\ ~raised[it]
<1> USE DEF TypeOK, ClientTypeOK
<1>1. CASE cmds[it] = <<>>
  BY <1>1 DEF Flush
<1>2. CASE cmds[it] # <<>>
  <2>1. SshRun(it, cmds[it], cmds[it]) /\ UNCHANGED <<issued, lost>>
    BY <1>2 DEF Flush
  <2>2. cmds[it] \in Seq(Commands)
    OBVIOUS
  <2> QED
    BY <2>1, <2>2, SshRunEffect
<1> QED
  BY <1>1, <1>2

-----------------------------------------------------------------------------
(* The inductive invariant *)

LEMMA InitIInv == Init => IInv
<1> SUFFICES ASSUME Init PROVE IInv
  OBVIOUS
<1> USE DEF Init, ClientInit
<1>1. TypeOK
  BY DEF TypeOK, ClientTypeOK, Places, EmptyDb, Contents
<1>2. LoopInv
  BY DEF LoopInv
<1>3. ModeInv
  BY DEF ModeInv
<1> QED
  BY <1>1, <1>2, <1>3 DEF IInv

LEMMA CallIInv ==
    ASSUME IInv, NEW it \in Iterations, Call(it)
    PROVE  IInv'
<1> USE DEF IInv
<1>1. method[it] \in DOMAIN Program[it]
  <2>1. /\ method[it] \in Nat /\ method[it] >= 1 /\ method[it] <= Len(Program[it])
        /\ Program[it] \in Seq(Methods)
    BY ProgramAssumption DEF Call, TypeOK, LoopInv
  <2> QED
    BY <2>1
<1>2. /\ M(it) \in Methods
      /\ \A k \in DOMAIN M(it).items : M(it).items[k] \in Seq(Commands) \ {<<>>}
  BY <1>1, MethodTyped
<1>3. M(it).mode \in Modes /\ M(it).batch \in Nat /\ M(it).items \in Seq(Seq(Commands))
  BY <1>2 DEF Methods
<1>4. batchMode' = [batchMode EXCEPT ![it] = M(it).mode = "on"]
  <2>1. CASE M(it).mode = "on"
    BY <2>1 DEF Call, EnableBatchMode
  <2>2. CASE M(it).mode = "off"
    BY <2>2 DEF Call, EnableBatchMode
  <2>3. CASE M(it).mode = "asis"
    <3>1. batchMode' = batchMode /\ ~batchMode[it]
      BY <2>3 DEF Call, ModeInv
    <3> QED
      BY <2>3, <3>1 DEF TypeOK, ClientTypeOK
  <2> QED
    BY <1>3, <2>1, <2>2, <2>3 DEF Modes
<1>5. at' = [at EXCEPT ![it] = IF M(it).items = <<>> THEN AfterItems(it) ELSE "run"]
  BY DEF Call, Go
<1>6. AfterItems(it) \in {"sync", "finish"}
  BY DEF AfterItems
<1>7. TypeOK'
  BY <1>3, <1>4, <1>5, <1>6 DEF Call, TypeOK, ClientTypeOK, Places
<1>8. \A j \in Iterations : M(j)' = M(j)
  BY DEF Call, M
<1>9. LoopInv'
  BY <1>1, <1>2, <1>3, <1>5, <1>6, <1>8 DEF Call, LoopInv, TypeOK
<1>10. ModeInv'
  BY <1>4, <1>5, <1>6, <1>8 DEF Call, ModeInv, TypeOK, ClientTypeOK
<1> QED
  BY <1>7, <1>9, <1>10

LEMMA RunCommandIInv ==
    ASSUME IInv, NEW it \in Iterations, RunCommand(it)
    PROVE  IInv'
<1> USE DEF IInv
<1>1. /\ method[it] \in DOMAIN Program[it]
      /\ item[it] \in DOMAIN M(it).items
      /\ pos[it] \in DOMAIN M(it).items[item[it]]
  BY DEF RunCommand, LoopInv
<1>2. M(it).items[item[it]] \in Seq(Commands)
  BY <1>1, MethodTyped
<1>3. CommandAt(it) \in Commands
  BY <1>1, <1>2 DEF CommandAt
<1>4. Run(it, CommandAt(it))
  BY DEF RunCommand
<1>5. /\ cmds' \in [Iterations -> Seq(Commands)]
      /\ raised' \in [Iterations -> BOOLEAN]
      /\ nb' \in Contents
      /\ issued' \in [Iterations -> Seq(Commands)]
      /\ committed' \in [Iterations -> Seq(Commands)]
      /\ lost' \in [Iterations -> Seq(Commands)]
      /\ \A j \in Iterations \ {it} : cmds'[j] = cmds[j] /\ raised'[j] = raised[j]
      /\ ~batchMode[it] /\ ~raised'[it] => cmds'[it] = <<>>
  BY <1>3, <1>4, RunEffect
<1>6. /\ pos' \in [Iterations -> Nat]
      /\ \/ at' = at /\ pos' = [pos EXCEPT ![it] = @ + 1]
            /\ pos[it] < Len(M(it).items[item[it]])
         \/ at' = [at EXCEPT ![it] = "itemEnd"] /\ pos' = [pos EXCEPT ![it] = 1]
  <2>1. CASE pos[it] < Len(M(it).items[item[it]])
    <3>1. at' = at /\ pos' = [pos EXCEPT ![it] = @ + 1]
      BY <2>1 DEF RunCommand
    <3>2. pos \in [Iterations -> Nat]
      BY DEF TypeOK
    <3> QED
      BY <2>1, <3>1, <3>2
  <2>2. CASE ~(pos[it] < Len(M(it).items[item[it]]))
    <3>1. at' = [at EXCEPT ![it] = "itemEnd"] /\ pos' = [pos EXCEPT ![it] = 1]
      BY <2>2 DEF RunCommand, Go
    <3>2. pos \in [Iterations -> Nat]
      BY DEF TypeOK
    <3> QED
      BY <3>1, <3>2
  <2> QED
    BY <2>1, <2>2
<1>7. TypeOK'
  BY <1>5, <1>6 DEF RunCommand, TypeOK, ClientTypeOK, Places
<1>8. \A j \in Iterations : M(j)' = M(j)
  BY DEF RunCommand, M
<1>9. LoopInv'
  <2>1. at[it] = "run" /\ item' = item /\ method' = method
    BY DEF RunCommand
  <2>2. DOMAIN M(it).items[item[it]] = 1..Len(M(it).items[item[it]])
    BY <1>2
  <2>3. \/ at'[it] = "run" /\ pos'[it] \in DOMAIN M(it).items[item[it]]
        \/ at'[it] = "itemEnd" /\ pos'[it] = 1
    BY <1>1, <1>6, <2>1, <2>2 DEF TypeOK
  <2>4. at'[it] \in {"run", "itemEnd"}
    BY <1>6, <2>1 DEF TypeOK
  <2>5. \A j \in Iterations \ {it} : at'[j] = at[j] /\ pos'[j] = pos[j]
    BY <1>6 DEF TypeOK
  <2>6. ASSUME NEW j \in Iterations
        PROVE  /\ method'[j] >= 1
               /\ at'[j] \notin {"call", "done"} => method'[j] \in DOMAIN Program[j]
               /\ at'[j] \in {"run", "itemEnd"} => item'[j] \in DOMAIN M(j).items
               /\ at'[j] = "run" => pos'[j] \in DOMAIN M(j).items[item[j]]
               /\ at'[j] = "itemEnd" => pos'[j] = 1
    BY <1>1, <2>1, <2>3, <2>4, <2>5 DEF LoopInv
  <2> QED
    BY <1>8, <2>1, <2>6 DEF LoopInv
<1>10. ModeInv'
  BY <1>5, <1>6, <1>8 DEF RunCommand, ModeInv, TypeOK, ClientTypeOK
<1> QED
  BY <1>7, <1>9, <1>10

LEMMA EndItemIInv ==
    ASSUME IInv, NEW it \in Iterations, EndItem(it)
    PROVE  IInv'
<1> USE DEF IInv
<1>1. /\ at[it] = "itemEnd" /\ ~raised[it]
      /\ method[it] \in DOMAIN Program[it]
      /\ item[it] \in DOMAIN M(it).items
  BY DEF EndItem, LoopInv
<1>2. /\ M(it) \in Methods
      /\ \A k \in DOMAIN M(it).items : M(it).items[k] \in Seq(Commands) \ {<<>>}
  BY <1>1, MethodTyped
<1>3. M(it).batch \in Nat /\ M(it).items \in Seq(Seq(Commands))
  BY <1>2 DEF Methods
<1>4. /\ cmds' \in [Iterations -> Seq(Commands)]
      /\ raised' \in [Iterations -> BOOLEAN]
      /\ nb' \in Contents
      /\ issued' = issued /\ lost' = lost
      /\ committed' \in [Iterations -> Seq(Commands)]
      /\ \A j \in Iterations \ {it} : cmds'[j] = cmds[j] /\ raised'[j] = raised[j]
      /\ ~raised'[it] => cmds'[it] = <<>> \/ cmds'[it] = cmds[it]
  <2>1. CASE FlushDue(it)
    BY <2>1, FlushEffect DEF EndItem
  <2>2. CASE ~FlushDue(it)
    BY <2>2 DEF EndItem, TypeOK, ClientTypeOK
  <2> QED
    BY <2>1, <2>2
<1>5. flushCount' \in [Iterations -> Nat]
  <2>1. flushCount \in [Iterations -> Nat]
    BY DEF TypeOK
  <2>2. CASE M(it).rule = "count" /\ FlushDue(it)
    BY <1>3, <2>1, <2>2 DEF EndItem, FlushCountNext
  <2>3. CASE M(it).rule = "count" /\ ~FlushDue(it)
    <3>1. flushCount' = [flushCount EXCEPT ![it] = flushCount[it] - 1]
      BY <2>3 DEF EndItem, FlushCountNext
    <3>2. ~(flushCount[it] - 1 < 1)
      BY <2>3 DEF FlushDue
    <3> QED
      BY <2>1, <3>1, <3>2
  <2>4. CASE M(it).rule # "count"
    BY <2>1, <2>4 DEF EndItem
  <2> QED
    BY <2>2, <2>3, <2>4
<1>6. AfterItems(it) \in {"sync", "finish"}
  BY DEF AfterItems
<1>7. \/ /\ item' = [item EXCEPT ![it] = item[it] + 1]
         /\ item[it] < Len(M(it).items)
         /\ at' = [at EXCEPT ![it] = "run"]
      \/ /\ item' = item
         /\ at' = [at EXCEPT ![it] = AfterItems(it)]
  BY DEF EndItem, Go
<1>8. /\ batchMode' = batchMode /\ method' = method /\ pos' = pos
      /\ handles' = handles
  BY DEF EndItem
<1>9. TypeOK'
  <2>1. item \in [Iterations -> Nat] /\ at \in [Iterations -> Places]
    BY DEF TypeOK
  <2>2. item' \in [Iterations -> Nat]
    BY <1>7, <2>1
  <2>3. at' \in [Iterations -> Places]
    BY <1>6, <1>7, <2>1 DEF Places
  <2> QED
    BY <1>4, <1>5, <1>8, <2>2, <2>3 DEF TypeOK, ClientTypeOK
<1>10. \A j \in Iterations : M(j)' = M(j)
  BY <1>8 DEF M
<1>11. ModeInv'
  BY <1>1, <1>4, <1>6, <1>7, <1>8, <1>10 DEF ModeInv, TypeOK, ClientTypeOK
<1>12. LoopInv'
  <2>1. at'[it] = "run" => item'[it] \in DOMAIN M(it).items
    BY <1>1, <1>3, <1>6, <1>7 DEF TypeOK
  <2>2. at'[it] \in {"run", "sync", "finish"}
    BY <1>6, <1>7 DEF TypeOK
  <2>3. at'[it] = "run" => pos[it] \in DOMAIN M(it).items[item'[it]]
    <3>1. pos[it] = 1
      BY <1>1 DEF LoopInv
    <3>2. ASSUME at'[it] = "run"
          PROVE  M(it).items[item'[it]] \in Seq(Commands) \ {<<>>}
      BY <1>2, <2>1, <3>2
    <3> QED
      BY <3>1, <3>2
  <2> QED
    BY <1>1, <1>7, <1>8, <1>10, <2>1, <2>2, <2>3 DEF LoopInv, TypeOK
<1> QED
  BY <1>9, <1>11, <1>12

LEMMA SyncFlushIInv ==
    ASSUME IInv, NEW it \in Iterations, SyncFlush(it)
    PROVE  IInv'
<1> USE DEF IInv
<1>1. /\ cmds' \in [Iterations -> Seq(Commands)]
      /\ raised' \in [Iterations -> BOOLEAN]
      /\ nb' \in Contents
      /\ issued' = issued /\ lost' = lost
      /\ committed' \in [Iterations -> Seq(Commands)]
      /\ \A j \in Iterations \ {it} : cmds'[j] = cmds[j] /\ raised'[j] = raised[j]
      /\ ~raised'[it] => cmds'[it] = <<>>
  BY FlushEffect DEF SyncFlush
<1>2. /\ at[it] = "sync" /\ ~raised[it]
      /\ batchMode' = [batchMode EXCEPT ![it] = batchMode[it] /\ raised'[it]]
      /\ at' = [at EXCEPT ![it] = "syncRun"]
      /\ UNCHANGED loopVars
  BY DEF SyncFlush, LeaveBatchMode, EnableBatchMode, Go
<1>3. TypeOK'
  BY <1>1, <1>2 DEF TypeOK, ClientTypeOK, Places, loopVars
<1>4. \A j \in Iterations : M(j)' = M(j)
  BY <1>2 DEF M, loopVars
<1>5. LoopInv'
  BY <1>2, <1>4 DEF LoopInv, TypeOK, loopVars
<1>6. ModeInv'
  BY <1>1, <1>2, <1>4 DEF ModeInv, TypeOK, ClientTypeOK
<1> QED
  BY <1>3, <1>5, <1>6

LEMMA SyncRunIInv ==
    ASSUME IInv, NEW it \in Iterations, SyncRun(it)
    PROVE  IInv'
<1> USE DEF IInv
<1>1. at[it] = "syncRun" /\ ~raised[it] /\ RunDirect(it, Sync)
  BY DEF SyncRun
<1>2. Run(it, Sync) /\ ~batchMode[it]
  BY <1>1 DEF Run, RunDirect
<1>3. /\ cmds' \in [Iterations -> Seq(Commands)]
      /\ raised' \in [Iterations -> BOOLEAN]
      /\ nb' \in Contents
      /\ issued' \in [Iterations -> Seq(Commands)]
      /\ committed' \in [Iterations -> Seq(Commands)]
      /\ lost' \in [Iterations -> Seq(Commands)]
      /\ \A j \in Iterations \ {it} : cmds'[j] = cmds[j] /\ raised'[j] = raised[j]
      /\ ~raised'[it] => cmds'[it] = <<>>
  BY <1>2, SyncTyped, RunEffect
<1>4. /\ batchMode' = [batchMode EXCEPT ![it] = M(it).mode = "on" /\ ~raised'[it]]
      /\ at' = [at EXCEPT ![it] = "finish"]
      /\ UNCHANGED loopVars
  BY DEF SyncRun, EnableBatchMode, Go
<1>5. TypeOK'
  BY <1>3, <1>4 DEF TypeOK, ClientTypeOK, Places, loopVars
<1>6. \A j \in Iterations : M(j)' = M(j)
  BY <1>4 DEF M, loopVars
<1>7. LoopInv'
  BY <1>1, <1>4, <1>6 DEF LoopInv, TypeOK, loopVars
<1>8. ModeInv'
  BY <1>1, <1>3, <1>4, <1>6 DEF ModeInv, TypeOK, ClientTypeOK
<1> QED
  BY <1>5, <1>7, <1>8

LEMMA FinishIInv ==
    ASSUME IInv, NEW it \in Iterations, Finish(it)
    PROVE  IInv'
<1> USE DEF IInv
<1>1. at[it] = "finish" /\ ~raised[it] /\ method[it] \in DOMAIN Program[it]
  BY DEF Finish, LoopInv
<1>2. M(it) \in Methods
  BY <1>1, MethodTyped
<1>3. M(it).gives \subseteq Objs
  BY <1>2 DEF Methods
<1>4. /\ cmds' \in [Iterations -> Seq(Commands)]
      /\ raised' \in [Iterations -> BOOLEAN]
      /\ nb' \in Contents
      /\ issued' = issued /\ lost' = lost
      /\ committed' \in [Iterations -> Seq(Commands)]
      /\ \A j \in Iterations \ {it} : cmds'[j] = cmds[j] /\ raised'[j] = raised[j]
      /\ ~raised'[it] => cmds'[it] = <<>>
      /\ batchMode' \in [Iterations -> BOOLEAN]
      /\ \A j \in Iterations \ {it} : batchMode'[j] = batchMode[j]
      /\ batchMode'[it] => batchMode[it] /\ raised'[it]
  <2>1. CASE M(it).mode = "asis"
    <3>1. UNCHANGED clientVars
      BY <2>1 DEF Finish
    <3>2. ~batchMode[it]
      BY <1>1, <2>1 DEF ModeInv
    <3> QED
      BY <1>1, <3>1, <3>2 DEF clientVars, ModeInv, TypeOK, ClientTypeOK
  <2>2. CASE M(it).mode # "asis"
    <3>1. Flush(it) /\ batchMode' = [batchMode EXCEPT ![it] = batchMode[it] /\ raised'[it]]
      BY <2>2 DEF Finish, LastFlush, LeaveBatchMode, EnableBatchMode
    <3> QED
      BY <3>1, FlushEffect DEF TypeOK, ClientTypeOK
  <2> QED
    BY <2>1, <2>2
<1>5. /\ item' = item /\ pos' = pos /\ flushCount' = flushCount
      /\ \/ raised'[it] /\ at' = at /\ handles' = handles /\ method' = method
         \/ /\ ~raised'[it]
            /\ handles' = [handles EXCEPT ![it] = handles[it] \cup M(it).gives]
            /\ method' = [method EXCEPT ![it] = method[it] + 1]
            /\ at' = [at EXCEPT ![it] = "call"]
  BY DEF Finish, Go
<1>6. TypeOK'
  <2>1. /\ handles \in [Iterations -> SUBSET Objs] /\ method \in [Iterations -> Nat]
        /\ at \in [Iterations -> Places] /\ "call" \in Places
    BY DEF TypeOK, Places
  <2>2. handles' \in [Iterations -> SUBSET Objs]
    BY <1>3, <1>5, <2>1
  <2>3. method' \in [Iterations -> Nat]
    BY <1>5, <2>1
  <2>4. at' \in [Iterations -> Places]
    BY <1>5, <2>1
  <2> QED
    BY <1>4, <1>5, <2>2, <2>3, <2>4 DEF TypeOK, ClientTypeOK
<1>7. \A j \in Iterations \ {it} : M(j)' = M(j) /\ at'[j] = at[j] /\ method'[j] = method[j]
  BY <1>5 DEF M, TypeOK
<1>8. \/ M(it)' = M(it) /\ raised'[it] /\ at'[it] = "finish" /\ method'[it] = method[it]
      \/ ~raised'[it] /\ at'[it] = "call" /\ method'[it] = method[it] + 1
  BY <1>1, <1>5 DEF M, TypeOK
<1>9. LoopInv'
  BY <1>1, <1>5, <1>7, <1>8 DEF LoopInv, TypeOK
<1>10. ModeInv'
  BY <1>1, <1>4, <1>7, <1>8 DEF ModeInv, TypeOK, ClientTypeOK
<1> QED
  BY <1>6, <1>9, <1>10

LEMMA ReturnIInv ==
    ASSUME IInv, NEW it \in Iterations, Return(it)
    PROVE  IInv'
<1> USE DEF IInv
<1>1. /\ at[it] = "call" /\ at' = [at EXCEPT ![it] = "done"]
      /\ UNCHANGED <<clientVars, loopVars>>
  BY DEF Return, Go
<1>2. TypeOK'
  BY <1>1 DEF TypeOK, ClientTypeOK, Places, clientVars, loopVars
<1>3. LoopInv'
  BY <1>1 DEF LoopInv, M, TypeOK, loopVars
<1>4. ModeInv'
  BY <1>1 DEF ModeInv, M, TypeOK, clientVars, loopVars
<1> QED
  BY <1>2, <1>3, <1>4

LEMMA StepIInv == IInv /\ [Next]_vars => IInv'
<1> SUFFICES ASSUME IInv, [Next]_vars PROVE IInv'
  OBVIOUS
<1>1. ASSUME NEW it \in Iterations, Step(it) PROVE IInv'
  BY <1>1, CallIInv, RunCommandIInv, EndItemIInv, SyncFlushIInv, SyncRunIInv,
     FinishIInv, ReturnIInv DEF Step
<1>2. CASE UNCHANGED vars
  BY <1>2 DEF IInv, TypeOK, ClientTypeOK, LoopInv, ModeInv, M, vars, clientVars, loopVars
<1> QED
  BY <1>1, <1>2 DEF Next

THEOREM Invariance == Spec => []IInv
BY InitIInv, StepIInv, PTL DEF Spec

\* Every variable of the scenarios and their clients keeps its type: in
\* particular the loops never index a method past its commands.
THEOREM TypeCorrect == Spec => []TypeOK
<1>1. IInv => TypeOK
  BY DEF IInv
<1> QED
  BY <1>1, Invariance, PTL

\* Between two methods the client is in direct mode and nothing waits in it,
\* whatever the methods, the sizes of their batches and the failures.
THEOREM CleanBetween == Spec => []CleanBetweenMethods
<1>1. IInv => CleanBetweenMethods
  BY DEF IInv, ModeInv, CleanBetweenMethods
<1> QED
  BY <1>1, Invariance, PTL

-----------------------------------------------------------------------------
(* Nothing is lost, and what was executed is a prefix of what was asked for *)

LEMMA ConcatPrefix ==
    ASSUME NEW S, NEW s \in Seq(S), NEW t \in Seq(S)
    PROVE  \E k \in 0..Len(s \o t) : s = SubSeq(s \o t, 1, k)
<1>1. Len(s) \in 0..Len(s \o t)
  OBVIOUS
<1>2. s = SubSeq(s \o t, 1, Len(s))
  OBVIOUS
<1> QED
  BY <1>1, <1>2

\* One iteration's part of ExecutedOrWaiting.
Waiting(it) == ~raised[it] /\ issued[it] = committed[it] \o cmds[it]
Cut(it) == raised[it] /\ \E k \in 0..Len(issued[it]) :
                            committed[it] = SubSeq(issued[it], 1, k)

LEMMA FlushLedger ==
    ASSUME TypeOK, NEW it \in Iterations, Flush(it), Waiting(it)
    PROVE  Waiting(it)' \/ Cut(it)'
<1>1. /\ cmds[it] \in Seq(Commands) /\ committed[it] \in Seq(Commands)
      /\ issued' = issued
  BY DEF TypeOK, ClientTypeOK, Flush
<1>2. CASE cmds[it] = <<>>
  BY <1>2 DEF Flush, Waiting
<1>3. CASE cmds[it] # <<>>
  <2>1. \/ /\ raised'[it] = raised[it]
           /\ cmds'[it] = <<>>
           /\ committed'[it] = committed[it] \o cmds[it]
        \/ /\ raised'[it]
           /\ committed'[it] \in {committed[it], committed[it] \o cmds[it]}
    BY <1>1, <1>3, SshRunEffect DEF Flush
  <2>2. CASE raised'[it]
    <3>1. committed[it] \o cmds[it] = issued[it]
      BY DEF Waiting
    <3>2. \E k \in 0..Len(issued[it]) : committed[it] = SubSeq(issued[it], 1, k)
      <4>1. \E k \in 0..Len(committed[it] \o cmds[it]) :
               committed[it] = SubSeq(committed[it] \o cmds[it], 1, k)
        BY <1>1, ConcatPrefix
      <4> QED
        BY <3>1, <4>1
    <3>3. \E k \in 0..Len(issued[it]) : issued[it] = SubSeq(issued[it], 1, k)
      <4>1. issued[it] \in Seq(Commands)
        BY DEF TypeOK, ClientTypeOK
      <4>2. issued[it] = SubSeq(issued[it], 1, Len(issued[it])) /\ Len(issued[it]) \in Nat
        BY <4>1
      <4> QED
        BY <4>2
    <3> QED
      BY <1>1, <2>1, <2>2, <3>1, <3>2, <3>3 DEF Cut, Waiting
  <2>3. CASE ~raised'[it]
    <3>1. (committed[it] \o cmds[it]) \o <<>> = committed[it] \o cmds[it]
      BY <1>1
    <3> QED
      BY <1>1, <2>1, <2>3, <3>1 DEF Waiting
  <2> QED
    BY <2>2, <2>3
<1> QED
  BY <1>2, <1>3

LEMMA RunLedger ==
    ASSUME TypeOK, NEW it \in Iterations, NEW c \in Commands, Run(it, c),
           Waiting(it), ~batchMode[it] => cmds[it] = <<>>
    PROVE  Waiting(it)' \/ Cut(it)'
<1>1. /\ cmds[it] \in Seq(Commands) /\ committed[it] \in Seq(Commands)
      /\ issued[it] \in Seq(Commands)
      /\ issued[it] = committed[it] \o cmds[it] /\ ~raised[it]
  BY DEF TypeOK, ClientTypeOK, Waiting
<1>2. CASE RunBatched(it, c)
  <2>1. /\ cmds'[it] = Append(cmds[it], c) /\ issued'[it] = Append(issued[it], c)
        /\ raised' = raised /\ committed' = committed
    BY <1>2 DEF RunBatched, TypeOK, ClientTypeOK
  <2>2. Append(committed[it] \o cmds[it], c) = committed[it] \o Append(cmds[it], c)
    <3> DEFINE u == committed[it]
               v == cmds[it]
    <3>1. u \in Seq(Commands) /\ v \in Seq(Commands)
      BY <1>1
    <3> HIDE DEF u, v
    <3>2. Append(u \o v, c) = u \o Append(v, c)
      BY <3>1, AppendInner
    <3> QED
      BY <3>2 DEF u, v
  <2>3. issued'[it] = committed'[it] \o cmds'[it]
    BY <1>1, <2>1, <2>2
  <2> QED
    BY <1>1, <2>1, <2>3 DEF Waiting
<1>3. CASE RunDirect(it, c)
  <2>1. cmds[it] = <<>> /\ issued'[it] = Append(issued[it], c)
    BY <1>3 DEF RunDirect, TypeOK, ClientTypeOK
  <2>2. issued[it] = committed[it]
    BY <1>1, <2>1
  <2>3. <<c>> \in Seq(Commands) /\ Append(cmds[it], c) \in Seq(Commands)
    BY <1>1
  <2>4. \/ /\ raised'[it] = raised[it]
           /\ cmds'[it] = <<>>
           /\ committed'[it] = committed[it] \o <<c>>
        \/ /\ raised'[it]
           /\ committed'[it] \in {committed[it], committed[it] \o <<c>>}
    BY <1>3, <2>3, SshRunEffect DEF RunDirect
  <2>5. committed[it] \o <<c>> = issued'[it]
    BY <1>1, <2>1, <2>2
  <2>6. CASE raised'[it]
    <3>1. \E k \in 0..Len(issued'[it]) : committed[it] = SubSeq(issued'[it], 1, k)
      BY <1>1, <2>3, <2>5, ConcatPrefix
    <3>2. \E k \in 0..Len(issued'[it]) : issued'[it] = SubSeq(issued'[it], 1, k)
      <4>1. issued'[it] \in Seq(Commands)
        <5>1. Append(issued[it], c) \in Seq(Commands)
          BY <1>1
        <5> QED
          BY <2>1, <5>1
      <4>2. issued'[it] = SubSeq(issued'[it], 1, Len(issued'[it])) /\ Len(issued'[it]) \in Nat
        BY <4>1
      <4> QED
        BY <4>2
    <3> QED
      BY <2>4, <2>5, <2>6, <3>1, <3>2 DEF Cut
  <2>7. CASE ~raised'[it]
    <3>1. (committed[it] \o <<c>>) \o <<>> = committed[it] \o <<c>>
      BY <1>1, <2>3
    <3> QED
      BY <2>4, <2>5, <2>7, <3>1 DEF Waiting
  <2> QED
    BY <2>6, <2>7
<1> QED
  BY <1>2, <1>3 DEF Run

\* The other iterations' clients are as they were.
LEMMA OthersLedger ==
    ASSUME NEW it \in Iterations, NEW j \in Iterations,
           raised'[j] = raised[j], issued'[j] = issued[j],
           committed'[j] = committed[j], cmds'[j] = cmds[j],
           Waiting(j) \/ Cut(j)
    PROVE  Waiting(j)' \/ Cut(j)'
BY DEF Waiting, Cut

LEMMA StepLedger ==
    ASSUME IInv, NEW it \in Iterations, Step(it), NothingLost, ExecutedOrWaiting
    PROVE  NothingLost' /\ ExecutedOrWaiting'
<1> USE DEF IInv
<1>1. \A j \in Iterations : Waiting(j) \/ Cut(j)
  BY DEF ExecutedOrWaiting, Waiting, Cut
<1>2. SUFFICES NothingLost' /\ \A j \in Iterations : Waiting(j)' \/ Cut(j)'
  BY DEF ExecutedOrWaiting, Waiting, Cut
<1>3. CASE Call(it) \/ Return(it)
  <2>1. UNCHANGED <<cmds, raised, issued, committed, lost>>
    BY <1>3 DEF Call, Return, clientVars
  <2> QED
    BY <1>1, <2>1, OthersLedger DEF NothingLost
<1>4. ASSUME ~raised[it], Flush(it)
      PROVE  NothingLost' /\ \A j \in Iterations : Waiting(j)' \/ Cut(j)'
  <2>1. Waiting(it)' \/ Cut(it)'
    BY <1>1, <1>4, FlushLedger DEF Cut
  <2>2. issued' = issued /\ lost' = lost
    BY <1>4 DEF Flush
  <2>3. \A j \in Iterations \ {it} : /\ cmds'[j] = cmds[j] /\ raised'[j] = raised[j]
                                    /\ committed'[j] = committed[j]
    BY <1>4, FlushEffect
  <2> QED
    BY <1>1, <2>1, <2>2, <2>3, OthersLedger DEF NothingLost
<1>5. ASSUME ~raised[it], NEW c \in Commands, Run(it, c)
      PROVE  NothingLost' /\ \A j \in Iterations : Waiting(j)' \/ Cut(j)'
  <2>1. ~batchMode[it] => cmds[it] = <<>>
    BY <1>5 DEF ModeInv
  <2>2. Waiting(it)' \/ Cut(it)'
    BY <1>1, <1>5, <2>1, RunLedger DEF Cut
  <2>3. NothingLost'
    <3>1. CASE RunBatched(it, c)
      BY <3>1 DEF RunBatched, NothingLost
    <3>2. CASE RunDirect(it, c)
      <4>1. lost' = [lost EXCEPT ![it] = lost[it] \o cmds[it]]
        BY <3>2 DEF RunDirect
      <4>2. lost[it] \o cmds[it] = <<>>
        BY <2>1, <3>2 DEF NothingLost, RunDirect
      <4> QED
        BY <4>1, <4>2 DEF NothingLost, TypeOK, ClientTypeOK
    <3> QED
      BY <1>5, <3>1, <3>2 DEF Run
  <2>4. \A j \in Iterations \ {it} : /\ cmds'[j] = cmds[j] /\ raised'[j] = raised[j]
                                    /\ committed'[j] = committed[j]
                                    /\ issued'[j] = issued[j]
    <3>1. CASE RunBatched(it, c)
      BY <3>1 DEF RunBatched, TypeOK, ClientTypeOK
    <3>2. CASE RunDirect(it, c)
      <4>1. /\ SshRun(it, <<c>>, Append(cmds[it], c))
            /\ issued' = [issued EXCEPT ![it] = Append(issued[it], c)]
        BY <3>2 DEF RunDirect
      <4>2. <<c>> \in Seq(Commands) /\ Append(cmds[it], c) \in Seq(Commands)
        BY <1>5 DEF TypeOK, ClientTypeOK
      <4> QED
        BY <4>1, <4>2, SshRunEffect DEF TypeOK, ClientTypeOK
    <3> QED
      BY <1>5, <3>1, <3>2 DEF Run
  <2> QED
    BY <1>1, <2>2, <2>3, <2>4, OthersLedger
<1>6. CASE RunCommand(it)
  <2>1. /\ method[it] \in DOMAIN Program[it]
        /\ item[it] \in DOMAIN M(it).items
        /\ pos[it] \in DOMAIN M(it).items[item[it]]
    BY <1>6 DEF RunCommand, LoopInv
  <2>2. M(it).items[item[it]] \in Seq(Commands)
    BY <2>1, MethodTyped
  <2>3. CommandAt(it) \in Commands
    BY <2>1, <2>2 DEF CommandAt
  <2> QED
    BY <1>5, <1>6, <2>3 DEF RunCommand
<1>7. CASE EndItem(it)
  <2>1. CASE FlushDue(it)
    BY <1>4, <1>7, <2>1 DEF EndItem
  <2>2. CASE ~FlushDue(it)
    <3>1. UNCHANGED <<cmds, raised, issued, committed, lost>>
      BY <1>7, <2>2 DEF EndItem
    <3> QED
      BY <1>1, <3>1, OthersLedger DEF NothingLost
  <2> QED
    BY <2>1, <2>2
<1>8. CASE SyncFlush(it)
  BY <1>4, <1>8 DEF SyncFlush
<1>9. CASE SyncRun(it)
  BY <1>5, <1>9, SyncTyped DEF SyncRun, Run
<1>10. CASE Finish(it)
  <2>1. CASE M(it).mode = "asis"
    <3>1. UNCHANGED <<cmds, raised, issued, committed, lost>>
      BY <1>10, <2>1 DEF Finish, clientVars
    <3> QED
      BY <1>1, <3>1, OthersLedger DEF NothingLost
  <2>2. CASE M(it).mode # "asis"
    BY <1>4, <1>10, <2>2 DEF Finish, LastFlush
  <2> QED
    BY <2>1, <2>2
<1> QED
  BY <1>3, <1>6, <1>7, <1>8, <1>9, <1>10 DEF Step

LEMMA LedgerInvariance == Spec => [](NothingLost /\ ExecutedOrWaiting)
<1>1. Init => NothingLost /\ ExecutedOrWaiting
  <2> SUFFICES ASSUME Init PROVE NothingLost /\ ExecutedOrWaiting
    OBVIOUS
  <2>1. NothingLost
    BY DEF Init, ClientInit, NothingLost
  <2>2. \A it \in Iterations : Waiting(it)
    BY DEF Init, ClientInit, Waiting
  <2> QED
    BY <2>1, <2>2 DEF ExecutedOrWaiting, Waiting
<1>2. IInv /\ NothingLost /\ ExecutedOrWaiting /\ [Next]_vars
        => (NothingLost /\ ExecutedOrWaiting)'
  <2> SUFFICES ASSUME IInv, NothingLost, ExecutedOrWaiting, [Next]_vars
               PROVE  (NothingLost /\ ExecutedOrWaiting)'
    OBVIOUS
  <2>1. CASE Next
    BY <2>1, StepLedger DEF Next
  <2>2. CASE UNCHANGED vars
    BY <2>2 DEF NothingLost, ExecutedOrWaiting, vars, clientVars
  <2> QED
    BY <2>1, <2>2
<1> QED
  BY <1>1, <1>2, Invariance, PTL DEF Spec

\* No command the client was given is dropped by the shell as a line that is
\* no invocation: direct mode is entered only with nothing waiting.
THEOREM Lossless == Spec => []NothingLost
BY LedgerInvariance, PTL

\* Every command is executed at most once, in the order it was asked for; it
\* waits, was executed, or is behind the point where an exception cut the
\* iteration off.
THEOREM ExecutedInOrder == Spec => []ExecutedOrWaiting
BY LedgerInvariance, PTL

-----------------------------------------------------------------------------
(* Answers *)

\* The loop finds a command where it looks for one.
LEMMA CommandTyped ==
    ASSUME IInv, NEW it \in Iterations, RunCommand(it)
    PROVE  CommandAt(it) \in Commands
<1>1. /\ method[it] \in DOMAIN Program[it]
      /\ item[it] \in DOMAIN M(it).items
      /\ pos[it] \in DOMAIN M(it).items[item[it]]
  BY DEF RunCommand, LoopInv, IInv
<1>2. M(it).items[item[it]] \in Seq(Commands)
  BY <1>1, MethodTyped
<1> QED
  BY <1>1, <1>2 DEF CommandAt

\* A step of an iteration is a step of no other one.
LEMMA StepOthers ==
    ASSUME TypeOK, IInv, NEW it \in Iterations, Step(it), NEW j \in Iterations, j # it
    PROVE  /\ at'[j] = at[j] /\ method'[j] = method[j] /\ item'[j] = item[j]
           /\ pos'[j] = pos[j] /\ batchMode'[j] = batchMode[j] /\ cmds'[j] = cmds[j]
           /\ raised'[j] = raised[j] /\ issued'[j] = issued[j]
           /\ committed'[j] = committed[j]
<1> USE DEF TypeOK, ClientTypeOK
<1>1. ASSUME Flush(it)
      PROVE  /\ cmds'[j] = cmds[j] /\ raised'[j] = raised[j]
             /\ issued'[j] = issued[j] /\ committed'[j] = committed[j]
  BY <1>1, FlushEffect
<1>2. ASSUME NEW c \in Commands, Run(it, c)
      PROVE  /\ cmds'[j] = cmds[j] /\ raised'[j] = raised[j]
             /\ issued'[j] = issued[j] /\ committed'[j] = committed[j]
  <2>1. CASE RunBatched(it, c)
    BY <2>1 DEF RunBatched
  <2>2. CASE RunDirect(it, c)
    <3>1. /\ SshRun(it, <<c>>, Append(cmds[it], c))
          /\ issued' = [issued EXCEPT ![it] = Append(issued[it], c)]
      BY <2>2 DEF RunDirect
    <3>2. <<c>> \in Seq(Commands) /\ Append(cmds[it], c) \in Seq(Commands)
      OBVIOUS
    <3> QED
      BY <3>1, <3>2, SshRunEffect
  <2> QED
    BY <1>2, <2>1, <2>2 DEF Run
<1>3. CASE Call(it)
  <2>1. batchMode'[j] = batchMode[j]
    <3>1. M(it).mode \in Modes
      <4>1. method[it] \in DOMAIN Program[it]
        <5>1. /\ method[it] \in Nat /\ method[it] >= 1
              /\ method[it] <= Len(Program[it])
          BY <1>3 DEF Call, IInv, LoopInv
        <5>2. Program[it] \in Seq(Methods)
          BY ProgramAssumption
        <5> QED
          BY <5>1, <5>2
      <4> QED
        BY <4>1, MethodTyped DEF Methods
    <3>2. \/ \E v \in BOOLEAN : batchMode' = [batchMode EXCEPT ![it] = v]
          \/ batchMode' = batchMode
      BY <1>3, <3>1 DEF Call, EnableBatchMode, Modes
    <3> QED
      BY <3>2
  <2> QED
    BY <1>3, <2>1 DEF Call, Go
<1>4. CASE RunCommand(it)
  <2>1. CommandAt(it) \in Commands
    BY <1>4, CommandTyped
  <2>2. /\ cmds'[j] = cmds[j] /\ raised'[j] = raised[j]
        /\ issued'[j] = issued[j] /\ committed'[j] = committed[j]
    BY <1>2, <1>4, <2>1 DEF RunCommand
  <2> QED
    BY <1>4, <2>2 DEF RunCommand, Go
<1>5. CASE EndItem(it)
  <2>1. /\ cmds'[j] = cmds[j] /\ raised'[j] = raised[j]
        /\ issued'[j] = issued[j] /\ committed'[j] = committed[j]
    BY <1>1, <1>5 DEF EndItem
  <2> QED
    BY <1>5, <2>1 DEF EndItem, Go
<1>6. CASE SyncFlush(it)
  BY <1>1, <1>6 DEF SyncFlush, Go, LeaveBatchMode, EnableBatchMode, loopVars
<1>7. CASE SyncRun(it)
  <2>1. /\ cmds'[j] = cmds[j] /\ raised'[j] = raised[j]
        /\ issued'[j] = issued[j] /\ committed'[j] = committed[j]
    BY <1>2, <1>7, SyncTyped DEF SyncRun, Run
  <2> QED
    BY <1>7, <2>1 DEF SyncRun, Go, EnableBatchMode, loopVars
<1>8. CASE Finish(it)
  <2>1. /\ cmds'[j] = cmds[j] /\ raised'[j] = raised[j]
        /\ issued'[j] = issued[j] /\ committed'[j] = committed[j]
        /\ batchMode'[j] = batchMode[j]
    BY <1>1, <1>8 DEF Finish, LastFlush, LeaveBatchMode, EnableBatchMode, clientVars
  <2> QED
    BY <1>8, <2>1 DEF Finish, Go
<1>9. CASE Return(it)
  BY <1>9 DEF Return, Go, clientVars, loopVars
<1> QED
  BY <1>3, <1>4, <1>5, <1>6, <1>7, <1>8, <1>9 DEF Step

\* run() in direct mode, when it does not raise, has sent everything.
LEMMA DirectLeavesNothing ==
    ASSUME TypeOK, NEW it \in Iterations, Step(it), IInv,
           issued'[it] # issued[it], ~batchMode[it], ~raised'[it]
    PROVE  cmds'[it] = <<>>
<1>1. ASSUME NEW c \in Commands, Run(it, c)
      PROVE  cmds'[it] = <<>>
  BY <1>1, RunEffect
<1>2. CASE RunCommand(it)
  BY <1>1, <1>2, CommandTyped DEF RunCommand
<1>3. CASE SyncRun(it)
  BY <1>1, <1>3, SyncTyped DEF SyncRun, Run
<1>4. CASE Call(it) \/ EndItem(it) \/ SyncFlush(it) \/ Finish(it) \/ Return(it)
  BY <1>4 DEF Call, EndItem, SyncFlush, Finish, Return, Flush, LastFlush, clientVars
<1> QED
  BY <1>2, <1>3, <1>4 DEF Step

\* A command that is answered at once is answered on top of everything the
\* iteration asked for before: a get or a sync never overtakes what waits in
\* cmds (_OvnNbctl.run, sync).
THEOREM AnswersCover == Spec => AnswersCoverAllIssued
<1> DEFINE Covered == \A it \in Iterations :
              issued'[it] # issued[it] /\ ~batchMode[it] /\ ~raised'[it]
                  => committed'[it] = issued'[it]
<1>1. IInv /\ ExecutedOrWaiting' /\ TypeOK' /\ [Next]_vars => [Covered]_vars
  <2> SUFFICES ASSUME IInv, ExecutedOrWaiting', TypeOK', Next, NEW it \in Iterations,
                      issued'[it] # issued[it], ~batchMode[it], ~raised'[it]
               PROVE  committed'[it] = issued'[it]
    OBVIOUS
  <2>1. PICK j \in Iterations : Step(j)
    BY DEF Next
  <2>2. j = it
    BY <2>1, StepOthers DEF IInv
  <2>3. cmds'[it] = <<>>
    BY <2>1, <2>2, DirectLeavesNothing DEF IInv
  <2>4. issued'[it] = committed'[it] \o cmds'[it]
    BY DEF ExecutedOrWaiting
  <2>5. committed'[it] \in Seq(Commands)
    BY DEF TypeOK, ClientTypeOK
  <2> QED
    BY <2>3, <2>4, <2>5
<1>2. IInv => TypeOK
  BY DEF IInv
<1> QED
  BY <1>1, <1>2, Invariance, LedgerInvariance, PTL DEF Spec, AnswersCoverAllIssued

-----------------------------------------------------------------------------
(* NbScenario implements NbLedger *)

\* The commands of a method: those of its items come first.
LEMMA MethodCommandsTyped ==
    ASSUME NEW m \in Methods
    PROVE  /\ m.items \in Seq(Seq(Commands))
           /\ FlattenSeq(m.items) \in Seq(Commands)
           /\ MethodCommands(m) \in Seq(Commands)
           /\ IsPrefix(FlattenSeq(m.items), MethodCommands(m))
           /\ m.sync => MethodCommands(m) = Append(FlattenSeq(m.items), Sync)
           /\ ~m.sync => MethodCommands(m) = FlattenSeq(m.items)
<1>1. m.items \in Seq(Seq(Commands)) /\ m.sync \in BOOLEAN
  BY DEF Methods
<1>2. PICK f \in Seq(Commands) : f = FlattenSeq(m.items)
  BY <1>1, FlattenTyped
<1>3. <<Sync>> \in Seq(Commands) /\ <<>> \in Seq(Commands)
  BY SyncTyped
<1>4. CASE m.sync
  <2>1. MethodCommands(m) = f \o <<Sync>>
    BY <1>2, <1>4 DEF MethodCommands
  <2>2. f \o <<Sync>> \in Seq(Commands) /\ f \o <<Sync>> = Append(f, Sync)
    BY <1>3, SyncTyped
  <2>3. IsPrefix(f, f \o <<Sync>>)
    BY <1>3, PrefixOfConcat
  <2> QED
    BY <1>1, <1>2, <1>4, <2>1, <2>2, <2>3
<1>5. CASE ~m.sync
  <2>1. MethodCommands(m) = f \o <<>>
    BY <1>2, <1>5 DEF MethodCommands
  <2>2. f \o <<>> = f
    OBVIOUS
  <2>3. IsPrefix(f, f)
    BY DEF IsPrefix
  <2> QED
    BY <1>1, <1>2, <1>5, <2>1, <2>2, <2>3
<1> QED
  BY <1>4, <1>5

\* The commands before a method begin those of the scenario, and its own
\* follow them.
LEMMA BeforeMethod ==
    ASSUME NEW it \in Iterations, NEW n \in 1..(Len(Program[it]) + 1)
    PROVE  /\ Before(it, n) \in Seq(Commands)
           /\ AskedOf[it] \in Seq(Commands)
           /\ IsPrefix(Before(it, n), AskedOf[it])
           /\ n <= Len(Program[it]) =>
                 Before(it, n + 1) = Before(it, n) \o MethodCommands(Program[it][n])
<1>1. Program[it] \in Seq(Methods) /\ Len(Program[it]) \in Nat
  BY ProgramAssumption
<1>2. PICK all : all = [m \in 1..Len(Program[it]) |-> MethodCommands(Program[it][m])]
  OBVIOUS
<1>3. \A m \in 1..Len(Program[it]) : MethodCommands(Program[it][m]) \in Seq(Commands)
  <2> SUFFICES ASSUME NEW m \in 1..Len(Program[it])
               PROVE  MethodCommands(Program[it][m]) \in Seq(Commands)
    OBVIOUS
  <2>1. Program[it][m] \in Methods
    BY <1>1
  <2> QED
    BY <2>1, MethodCommandsTyped
<1>4. all \in Seq(Seq(Commands)) /\ Len(all) = Len(Program[it])
  BY <1>1, <1>2, <1>3
<1>5. \A k \in 1..(Len(Program[it]) + 1) : Before(it, k) = FlattenSeq(SubSeq(all, 1, k - 1))
  <2> SUFFICES ASSUME NEW k \in 1..(Len(Program[it]) + 1)
               PROVE  Before(it, k) = FlattenSeq(SubSeq(all, 1, k - 1))
    OBVIOUS
  <2>1. k - 1 \in 0..Len(all) /\ Len(all) \in Nat
    BY <1>1, <1>4
  <2>2. SubSeq(all, 1, k - 1) = [m \in 1..(k - 1) |-> all[m]]
    BY <1>4, <2>1
  <2>3. [m \in 1..(k - 1) |-> all[m]]
          = [m \in 1..(k - 1) |-> MethodCommands(Program[it][m])]
    BY <1>1, <1>2, <2>1
  <2> QED
    BY <2>2, <2>3 DEF Before
<1>6. n - 1 \in 0..Len(all) /\ (n + 1) - 1 = n
  BY <1>1, <1>4
<1>7. AskedOf[it] = FlattenSeq(all)
  <2>1. Len(Program[it]) + 1 \in 1..(Len(Program[it]) + 1)
    BY <1>1
  <2>2. SubSeq(all, 1, (Len(Program[it]) + 1) - 1) = all
    BY <1>1, <1>4
  <2> QED
    BY <1>5, <2>1, <2>2 DEF AskedOf
<1>8. Before(it, n) \in Seq(Commands) /\ IsPrefix(Before(it, n), AskedOf[it])
  BY <1>4, <1>5, <1>6, <1>7, FlattenPrefix
<1>9. AskedOf[it] \in Seq(Commands)
  BY <1>4, <1>7, FlattenTyped
<1>10. ASSUME n <= Len(Program[it])
       PROVE  Before(it, n + 1) = Before(it, n) \o MethodCommands(Program[it][n])
  <2>1. n \in 1..Len(all) /\ n + 1 \in 1..(Len(Program[it]) + 1)
    BY <1>1, <1>4, <1>10
  <2>2. FlattenSeq(SubSeq(all, 1, n)) = FlattenSeq(SubSeq(all, 1, n - 1)) \o all[n]
    BY <1>4, <2>1, FlattenStep
  <2>3. all[n] = MethodCommands(Program[it][n])
    BY <1>2, <1>10
  <2> QED
    BY <1>5, <1>6, <2>1, <2>2, <2>3
<1> QED
  BY <1>8, <1>9, <1>10

\* Where a transaction of the current method may end.
LEMMA StopInMethod ==
    ASSUME NEW it \in Iterations, method[it] \in DOMAIN Program[it],
           NEW k \in MethodStops(M(it))
    PROVE  Len(Before(it, method[it])) + k \in StopsOf[it]
<1> DEFINE At(m) == {Len(Before(it, m)) + j : j \in MethodStops(Program[it][m])}
<1>1. Len(Before(it, method[it])) + k \in At(method[it])
  BY DEF M
<1>2. StopsOf[it] = UNION {At(m) : m \in DOMAIN Program[it]}
  BY DEF StopsOf
<1> HIDE DEF At
<1> QED
  BY <1>1, <1>2

\* The commands of the first k items of a method begin its commands.
LEMMA ItemsOfMethod ==
    ASSUME NEW m \in Methods, NEW k \in 0..Len(m.items)
    PROVE  /\ FlattenSeq(SubSeq(m.items, 1, k)) \in Seq(Commands)
           /\ IsPrefix(FlattenSeq(SubSeq(m.items, 1, k)), MethodCommands(m))
           /\ k # 0 => FlattenSeq(SubSeq(m.items, 1, k))
                         = FlattenSeq(SubSeq(m.items, 1, k - 1)) \o m.items[k]
           /\ k = 0 => FlattenSeq(SubSeq(m.items, 1, k)) = <<>>
           /\ k = Len(m.items) => FlattenSeq(SubSeq(m.items, 1, k)) = FlattenSeq(m.items)
<1>1. PICK its \in Seq(Seq(Commands)) : its = m.items
  BY DEF Methods
<1>2. k \in 0..Len(its) /\ Len(its) \in Nat
  BY <1>1
<1>3. /\ FlattenSeq(SubSeq(its, 1, k)) \in Seq(Commands)
      /\ IsPrefix(FlattenSeq(SubSeq(its, 1, k)), FlattenSeq(its))
  BY <1>2, FlattenPrefix
<1>4. IsPrefix(FlattenSeq(SubSeq(its, 1, k)), MethodCommands(m))
  <2>1. /\ FlattenSeq(its) \in Seq(Commands) /\ MethodCommands(m) \in Seq(Commands)
        /\ IsPrefix(FlattenSeq(its), MethodCommands(m))
    BY <1>1, MethodCommandsTyped
  <2> QED
    BY <1>3, <2>1, PrefixTransitive
<1>5. ASSUME k # 0
      PROVE  FlattenSeq(SubSeq(its, 1, k)) = FlattenSeq(SubSeq(its, 1, k - 1)) \o its[k]
  <2>1. k \in 1..Len(its)
    BY <1>2, <1>5
  <2> QED
    BY <2>1, FlattenStep
<1>6. ASSUME k = 0 PROVE FlattenSeq(SubSeq(its, 1, k)) = <<>>
  <2>1. SubSeq(its, 1, 0) = <<>>
    OBVIOUS
  <2> QED
    BY <1>6, <2>1, FlattenEmpty
<1>7. SubSeq(its, 1, Len(its)) = its
  OBVIOUS
<1> QED
  BY <1>1, <1>3, <1>4, <1>5, <1>6, <1>7

\* What the current method has asked for, and with the methods before it
\* what the iteration has: run() is called with the commands of the scenario,
\* in order, and with nothing else.
ItemsUpTo(it, k) == FlattenSeq(SubSeq(M(it).items, 1, k))

AskedInMethod(it) ==
    CASE at[it] = "run" -> ItemsUpTo(it, item[it] - 1)
                           \o SubSeq(M(it).items[item[it]], 1, pos[it] - 1)
      [] at[it] = "itemEnd" -> ItemsUpTo(it, item[it])
      [] at[it] \in {"sync", "syncRun"} -> ItemsUpTo(it, Len(M(it).items))
      [] at[it] = "finish" -> MethodCommands(M(it))
      [] OTHER -> <<>>

CursorOf(it) ==
    /\ method[it] <= Len(Program[it]) + 1
    /\ at[it] = "done" => method[it] = Len(Program[it]) + 1
    /\ at[it] \in {"sync", "syncRun"} => M(it).sync
    /\ ~raised[it] =>
          /\ issued[it] = Before(it, method[it]) \o AskedInMethod(it)
          /\ at[it] \in {"run", "itemEnd", "sync"} /\ M(it).mode = "on" => batchMode[it]
          /\ at[it] = "syncRun" => ~batchMode[it]
          /\ at[it] = "sync" /\ M(it).items = <<>> => cmds[it] = <<>>

Cursor == \A it \in Iterations : CursorOf(it)

LEMMA CallCursor ==
    ASSUME IInv, NEW it \in Iterations, CursorOf(it), Call(it)
    PROVE  CursorOf(it)'
<1> USE DEF IInv
<1>1. method[it] \in DOMAIN Program[it] /\ Program[it] \in Seq(Methods)
  <2>1. /\ method[it] \in Nat /\ method[it] >= 1 /\ method[it] <= Len(Program[it])
        /\ Program[it] \in Seq(Methods)
    BY ProgramAssumption DEF Call, TypeOK, LoopInv
  <2> QED
    BY <2>1
<1>2. M(it) \in Methods /\ M(it).items \in Seq(Seq(Commands)) /\ M(it).mode \in Modes
  BY <1>1, MethodTyped DEF Methods
<1>3. /\ at[it] = "call" /\ ~raised[it] /\ cmds[it] = <<>> /\ ~batchMode[it]
      /\ issued[it] = Before(it, method[it]) \o <<>>
  BY DEF Call, ModeInv, CursorOf, AskedInMethod
<1>4. /\ UNCHANGED <<cmds, raised, issued, method>>
      /\ item'[it] = 1 /\ pos'[it] = 1
      /\ at'[it] = IF M(it).items = <<>> THEN AfterItems(it) ELSE "run"
  BY DEF Call, Go, TypeOK
<1>5. M(it).mode = "on" => batchMode'[it]
  BY DEF Call, EnableBatchMode, TypeOK, ClientTypeOK
<1>6. M(it)' = M(it)
  BY <1>4 DEF M
<1>7. AfterItems(it) = IF M(it).sync THEN "sync" ELSE "finish"
  BY DEF AfterItems
<1>8. AskedInMethod(it)' = <<>>
  <2>1. ItemsUpTo(it, 0) = <<>>
    <3>1. 0 \in 0..Len(M(it).items)
      BY <1>2
    <3> QED
      BY <1>2, <3>1, ItemsOfMethod DEF ItemsUpTo
  <2>2. CASE M(it).items # <<>>
    <3>1. at'[it] = "run" /\ item'[it] - 1 = 0 /\ pos'[it] - 1 = 0
      BY <1>4, <2>2
    <3>2. SubSeq(M(it).items[1], 1, 0) = <<>> /\ <<>> \o <<>> = <<>>
      BY <1>2, <2>2
    <3> QED
      BY <1>4, <1>6, <2>1, <3>1, <3>2 DEF AskedInMethod, ItemsUpTo
  <2>3. CASE M(it).items = <<>> /\ M(it).sync
    <3>1. at'[it] = "sync" /\ Len(M(it).items) = 0
      BY <1>4, <1>7, <2>3
    <3> QED
      BY <1>6, <2>1, <3>1 DEF AskedInMethod, ItemsUpTo
  <2>4. CASE M(it).items = <<>> /\ ~M(it).sync
    <3>1. at'[it] = "finish" /\ FlattenSeq(M(it).items) = <<>>
      BY <1>4, <1>7, <2>4, FlattenEmpty
    <3>2. MethodCommands(M(it)) = <<>>
      BY <1>2, <2>4, <3>1, MethodCommandsTyped
    <3> QED
      BY <1>6, <3>1, <3>2 DEF AskedInMethod
  <2> QED
    BY <2>2, <2>3, <2>4
<1>9. /\ at'[it] \in {"run", "sync", "finish"}
      /\ at'[it] = "sync" => M(it).sync
  BY <1>4, <1>7
<1>10. issued'[it] = Before(it, method'[it]) \o AskedInMethod(it)'
  BY <1>3, <1>4, <1>8
<1>11. method'[it] <= Len(Program[it]) + 1
  BY <1>4 DEF CursorOf
<1> QED
  BY <1>3, <1>4, <1>5, <1>6, <1>9, <1>10, <1>11 DEF CursorOf

LEMMA RunCommandCursor ==
    ASSUME IInv, NEW it \in Iterations, CursorOf(it), RunCommand(it)
    PROVE  /\ CursorOf(it)'
           /\ issued'[it] = Before(it, method[it]) \o
                               (ItemsUpTo(it, item[it] - 1)
                                  \o SubSeq(M(it).items[item[it]], 1, pos[it]))
<1> USE DEF IInv
<1>1. /\ method[it] \in DOMAIN Program[it]
      /\ item[it] \in DOMAIN M(it).items
      /\ pos[it] \in DOMAIN M(it).items[item[it]]
  BY DEF RunCommand, LoopInv
<1>2. M(it) \in Methods /\ M(it).items \in Seq(Seq(Commands))
  BY <1>1, MethodTyped DEF Methods
<1>3. PICK n \in 1..Len(M(it).items) : n = item[it]
  BY <1>1, <1>2
<1>4. PICK s \in Seq(Commands) : s = M(it).items[n]
  BY <1>2
<1>5. PICK p \in 1..Len(s) : p = pos[it]
  BY <1>1, <1>3, <1>4
<1>6. PICK u \in Seq(Commands) : u = ItemsUpTo(it, n - 1)
  <2>1. n - 1 \in 0..Len(M(it).items)
    BY <1>2
  <2> QED
    BY <1>2, <2>1, ItemsOfMethod DEF ItemsUpTo
<1>7. PICK b \in Seq(Commands) : b = Before(it, method[it])
  <2>1. method[it] \in 1..(Len(Program[it]) + 1)
    BY <1>1, ProgramAssumption
  <2> QED
    BY <2>1, BeforeMethod
<1>8. issued[it] = b \o (u \o SubSeq(s, 1, p - 1)) /\ at[it] = "run" /\ ~raised[it]
  BY <1>3, <1>4, <1>5, <1>6, <1>7 DEF RunCommand, CursorOf, AskedInMethod
<1>9. /\ issued'[it] = Append(issued[it], s[p])
      /\ UNCHANGED <<batchMode, method, item>>
  <2>1. CommandAt(it) = s[p]
    BY <1>3, <1>4, <1>5 DEF CommandAt
  <2>2. issued' = [issued EXCEPT ![it] = Append(issued[it], s[p])]
    BY <2>1 DEF RunCommand, Run, RunBatched, RunDirect
  <2>3. issued \in [Iterations -> Seq(Commands)]
    BY DEF TypeOK, ClientTypeOK
  <2> QED
    BY <2>2, <2>3 DEF RunCommand
<1>10. issued'[it] = b \o (u \o SubSeq(s, 1, p))
  <2>1. PICK t \in Seq(Commands) : t = SubSeq(s, 1, p - 1)
    BY SubSeqGrows
  <2>2. PICK c \in Commands : c = s[p]
    BY SubSeqGrows
  <2>3. SubSeq(s, 1, p) = Append(t, c)
    BY <2>1, <2>2, SubSeqGrows
  <2>4. Append(b \o (u \o t), c) = b \o (u \o Append(t, c))
    <3>1. Append(Cat(b, Cat(u, t)), c) = Cat(b, Cat(u, Append(t, c)))
      BY AppendToThird
    <3> QED
      BY <3>1 DEF Cat
  <2> QED
    BY <1>8, <1>9, <2>1, <2>2, <2>3, <2>4
<1>11. M(it)' = M(it)
  BY <1>9 DEF M
<1>12. /\ at'[it] \in {"run", "itemEnd"}
       /\ AskedInMethod(it)' = u \o SubSeq(s, 1, p)
  <2>1. CASE p < Len(s)
    <3>1. at'[it] = "run" /\ pos'[it] = p + 1
      BY <1>3, <1>4, <1>5, <1>8, <2>1 DEF RunCommand, TypeOK
    <3>2. pos'[it] - 1 = p
      BY <3>1
    <3> QED
      BY <1>3, <1>4, <1>6, <1>9, <1>11, <3>1, <3>2 DEF AskedInMethod, ItemsUpTo
  <2>2. CASE ~(p < Len(s))
    <3>1. at'[it] = "itemEnd"
      BY <1>3, <1>4, <1>5, <2>2 DEF RunCommand, TypeOK, Go
    <3>2. SubSeq(s, 1, p) = s
      BY <2>2
    <3>3. ItemsUpTo(it, n) = u \o s
      <4>1. n \in 0..Len(M(it).items) /\ n # 0
        OBVIOUS
      <4> QED
        BY <1>2, <1>4, <1>6, <4>1, ItemsOfMethod DEF ItemsUpTo
    <3> QED
      BY <1>3, <1>9, <1>11, <3>1, <3>2, <3>3 DEF AskedInMethod, ItemsUpTo
  <2> QED
    BY <2>1, <2>2
<1>13. issued'[it] = Before(it, method'[it]) \o AskedInMethod(it)'
  BY <1>7, <1>9, <1>10, <1>12
<1>14. M(it).mode = "on" => batchMode'[it]
  BY <1>8, <1>9 DEF CursorOf
<1>15. method'[it] <= Len(Program[it]) + 1
  BY <1>9 DEF CursorOf
<1>16. issued'[it] = Before(it, method[it]) \o
          (ItemsUpTo(it, item[it] - 1) \o SubSeq(M(it).items[item[it]], 1, pos[it]))
  BY <1>3, <1>4, <1>5, <1>6, <1>7, <1>10
<1> QED
  BY <1>16, <1>11, <1>12, <1>13, <1>14, <1>15 DEF CursorOf

LEMMA EndItemCursor ==
    ASSUME IInv, NEW it \in Iterations, CursorOf(it), EndItem(it)
    PROVE  CursorOf(it)'
<1> USE DEF IInv
<1>1. /\ at[it] = "itemEnd" /\ ~raised[it]
      /\ method[it] \in DOMAIN Program[it]
      /\ item[it] \in DOMAIN M(it).items
  BY DEF EndItem, LoopInv
<1>2. M(it) \in Methods /\ M(it).items \in Seq(Seq(Commands)) /\ M(it).sync \in BOOLEAN
  BY <1>1, MethodTyped DEF Methods
<1>3. PICK n \in 1..Len(M(it).items) : n = item[it]
  BY <1>1, <1>2
<1>4. PICK u \in Seq(Commands) : u = ItemsUpTo(it, n)
  <2>1. n \in 0..Len(M(it).items)
    OBVIOUS
  <2> QED
    BY <1>2, <2>1, ItemsOfMethod DEF ItemsUpTo
<1>5. issued[it] = Before(it, method[it]) \o u
  BY <1>1, <1>3, <1>4 DEF CursorOf, AskedInMethod
<1>6. UNCHANGED <<batchMode, method, pos, issued>> /\ pos[it] = 1
  BY <1>1 DEF EndItem, Flush, LoopInv
<1>7. M(it)' = M(it)
  BY <1>6 DEF M
<1>8. /\ at'[it] \in {"run", "sync", "finish"}
      /\ at'[it] = "sync" => M(it).sync /\ M(it).items # <<>>
      /\ AskedInMethod(it)' = u
  <2>1. CASE n < Len(M(it).items)
    <3>1. at'[it] = "run" /\ item'[it] = n + 1
      BY <1>3, <2>1 DEF EndItem, Go, TypeOK
    <3>2. item'[it] - 1 = n /\ pos'[it] - 1 = 0
      BY <1>6, <3>1
    <3>3. M(it).items[n + 1] \in Seq(Commands)
      BY <1>2, <2>1
    <3>4. SubSeq(M(it).items[n + 1], 1, 0) = <<>>
      BY <3>3
    <3>5. u \o <<>> = u
      OBVIOUS
    <3> QED
      BY <1>4, <1>7, <3>1, <3>2, <3>4, <3>5 DEF AskedInMethod, ItemsUpTo
  <2>2. CASE ~(n < Len(M(it).items))
    <3>1. at'[it] = IF M(it).sync THEN "sync" ELSE "finish"
      BY <1>3, <2>2 DEF EndItem, Go, AfterItems, TypeOK
    <3>2. n = Len(M(it).items) /\ M(it).items # <<>>
      BY <1>2, <2>2
    <3>3. u = ItemsUpTo(it, Len(M(it).items))
      BY <1>4, <3>2
    <3>4. CASE M(it).sync
      BY <1>7, <3>1, <3>2, <3>3, <3>4 DEF AskedInMethod, ItemsUpTo
    <3>5. CASE ~M(it).sync
      <4>1. u = FlattenSeq(M(it).items)
        <5>1. n \in 0..Len(M(it).items)
          OBVIOUS
        <5> QED
          BY <1>2, <1>4, <3>2, <5>1, ItemsOfMethod DEF ItemsUpTo
      <4>2. MethodCommands(M(it)) = u
        BY <1>2, <3>5, <4>1, MethodCommandsTyped
      <4> QED
        BY <1>7, <3>1, <3>5, <4>2 DEF AskedInMethod
    <3> QED
      BY <3>4, <3>5
  <2> QED
    BY <2>1, <2>2
<1>9. issued'[it] = Before(it, method'[it]) \o AskedInMethod(it)'
  BY <1>5, <1>6, <1>8
<1>10. M(it).mode = "on" => batchMode'[it]
  BY <1>1, <1>6 DEF CursorOf
<1>11. method'[it] <= Len(Program[it]) + 1
  BY <1>6 DEF CursorOf
<1> QED
  BY <1>7, <1>8, <1>9, <1>10, <1>11 DEF CursorOf

LEMMA SyncFlushCursor ==
    ASSUME IInv, NEW it \in Iterations, CursorOf(it), SyncFlush(it)
    PROVE  CursorOf(it)'
<1> USE DEF IInv
<1>1. at[it] = "sync" /\ ~raised[it]
  BY DEF SyncFlush
<1>2. UNCHANGED <<method, item, pos, issued>>
  BY DEF SyncFlush, Flush, loopVars
<1>3. at'[it] = "syncRun" /\ (~raised'[it] => ~batchMode'[it])
  BY DEF SyncFlush, Go, LeaveBatchMode, EnableBatchMode, TypeOK, ClientTypeOK
<1>4. M(it)' = M(it)
  BY <1>2 DEF M
<1>5. AskedInMethod(it)' = AskedInMethod(it)
  BY <1>1, <1>3, <1>4 DEF AskedInMethod, ItemsUpTo
<1> QED
  BY <1>1, <1>2, <1>3, <1>4, <1>5 DEF CursorOf

LEMMA SyncRunCursor ==
    ASSUME IInv, NEW it \in Iterations, CursorOf(it), SyncRun(it)
    PROVE  /\ CursorOf(it)'
           /\ issued'[it] = Before(it, method[it]) \o MethodCommands(M(it))
<1> USE DEF IInv
<1>1. /\ at[it] = "syncRun" /\ ~raised[it] /\ M(it).sync
      /\ method[it] \in DOMAIN Program[it]
  BY DEF SyncRun, CursorOf, LoopInv
<1>2. M(it) \in Methods /\ M(it).items \in Seq(Seq(Commands))
  BY <1>1, MethodTyped DEF Methods
<1>3. /\ UNCHANGED <<method, item, pos>> /\ at'[it] = "finish"
      /\ issued'[it] = Append(issued[it], Sync)
  BY DEF SyncRun, RunDirect, loopVars, Go, TypeOK, ClientTypeOK
<1>4. M(it)' = M(it)
  BY <1>3 DEF M
<1>5. PICK u \in Seq(Commands) : u = ItemsUpTo(it, Len(M(it).items))
                                 /\ MethodCommands(M(it)) = Append(u, Sync)
  <2>1. Len(M(it).items) \in 0..Len(M(it).items)
    BY <1>2
  <2>2. /\ ItemsUpTo(it, Len(M(it).items)) \in Seq(Commands)
        /\ ItemsUpTo(it, Len(M(it).items)) = FlattenSeq(M(it).items)
    BY <1>2, <2>1, ItemsOfMethod DEF ItemsUpTo
  <2>3. MethodCommands(M(it)) = Append(FlattenSeq(M(it).items), Sync)
    BY <1>1, <1>2, MethodCommandsTyped
  <2> QED
    BY <2>2, <2>3
<1>6. PICK b \in Seq(Commands) : b = Before(it, method[it])
  <2>1. method[it] \in 1..(Len(Program[it]) + 1)
    BY <1>1, ProgramAssumption
  <2> QED
    BY <2>1, BeforeMethod
<1>7. issued[it] = b \o u
  BY <1>1, <1>5, <1>6 DEF CursorOf, AskedInMethod
<1>8. Append(b \o u, Sync) = b \o Append(u, Sync)
  <2>1. PICK c \in Commands : c = Sync
    BY SyncTyped
  <2>2. Append(b \o u, c) = b \o Append(u, c)
    OBVIOUS
  <2> QED
    BY <2>1, <2>2
<1>9. issued'[it] = Before(it, method'[it]) \o AskedInMethod(it)'
  BY <1>3, <1>4, <1>5, <1>6, <1>7, <1>8 DEF AskedInMethod
<1> QED
  BY <1>3, <1>4, <1>5, <1>6, <1>7, <1>8, <1>9 DEF CursorOf

LEMMA FinishCursor ==
    ASSUME IInv, NEW it \in Iterations, CursorOf(it), Finish(it)
    PROVE  CursorOf(it)'
<1> USE DEF IInv
<1>1. at[it] = "finish" /\ ~raised[it] /\ method[it] \in DOMAIN Program[it]
  BY DEF Finish, LoopInv
<1>2. issued' = issued /\ item' = item /\ pos' = pos
  BY DEF Finish, LastFlush, Flush, clientVars
<1>3. CASE raised'[it]
  <2>1. at' = at /\ method' = method
    BY <1>3 DEF Finish
  <2> QED
    BY <1>1, <1>3, <2>1 DEF CursorOf
<1>4. CASE ~raised'[it]
  <2>1. at'[it] = "call" /\ method'[it] = method[it] + 1
    BY <1>4 DEF Finish, Go, TypeOK
  <2>2. /\ Program[it] \in Seq(Methods) /\ method[it] \in 1..(Len(Program[it]) + 1)
        /\ method[it] <= Len(Program[it])
    BY <1>1, ProgramAssumption
  <2>3. issued[it] = Before(it, method[it]) \o MethodCommands(M(it))
    BY <1>1 DEF CursorOf, AskedInMethod
  <2>4. Before(it, method[it] + 1) = Before(it, method[it]) \o MethodCommands(M(it))
    BY <2>2, BeforeMethod DEF M
  <2>5. Before(it, method[it] + 1) \in Seq(Commands)
    <3>1. method[it] + 1 \in 1..(Len(Program[it]) + 1)
      BY <2>2
    <3> QED
      BY <3>1, BeforeMethod
  <2>6. Before(it, method[it] + 1) \o <<>> = Before(it, method[it] + 1)
    BY <2>5
  <2>7. issued'[it] = Before(it, method'[it]) \o AskedInMethod(it)'
    BY <1>2, <2>1, <2>3, <2>4, <2>6 DEF AskedInMethod
  <2>8. method'[it] <= Len(Program[it]) + 1
    BY <2>1, <2>2
  <2> QED
    BY <2>1, <2>7, <2>8 DEF CursorOf
<1> QED
  BY <1>3, <1>4

LEMMA ReturnCursor ==
    ASSUME IInv, NEW it \in Iterations, CursorOf(it), Return(it)
    PROVE  CursorOf(it)'
<1>1. /\ at[it] = "call" /\ at'[it] = "done"
      /\ UNCHANGED <<method, item, pos, issued, raised>>
  BY DEF Return, Go, clientVars, loopVars, IInv, TypeOK
<1>2. AskedInMethod(it)' = AskedInMethod(it)
  BY <1>1 DEF AskedInMethod
<1>3. method[it] = Len(Program[it]) + 1
  <2>1. /\ method[it] \in Nat /\ method[it] > Len(Program[it])
        /\ method[it] <= Len(Program[it]) + 1 /\ Len(Program[it]) \in Nat
    BY ProgramAssumption DEF Return, CursorOf, IInv, TypeOK
  <2> QED
    BY <2>1
<1> QED
  BY <1>1, <1>2, <1>3 DEF CursorOf

LEMMA StepCursor ==
    ASSUME IInv, NEW it \in Iterations, Step(it), Cursor
    PROVE  Cursor'
<1>1. CursorOf(it)'
  BY CallCursor, RunCommandCursor, EndItemCursor, SyncFlushCursor, SyncRunCursor,
     FinishCursor, ReturnCursor DEF Step, Cursor
<1>2. ASSUME NEW j \in Iterations, j # it
      PROVE  CursorOf(j)'
  <2>1. /\ at'[j] = at[j] /\ method'[j] = method[j] /\ item'[j] = item[j]
        /\ pos'[j] = pos[j] /\ batchMode'[j] = batchMode[j] /\ cmds'[j] = cmds[j]
        /\ raised'[j] = raised[j] /\ issued'[j] = issued[j]
    BY <1>2, StepOthers DEF IInv
  <2>2. M(j)' = M(j)
    BY <2>1 DEF M
  <2>3. AskedInMethod(j)' = AskedInMethod(j)
    BY <2>1, <2>2 DEF AskedInMethod, ItemsUpTo
  <2>4. CursorOf(j)
    BY DEF Cursor
  <2> QED
    BY <2>1, <2>2, <2>3, <2>4 DEF CursorOf
<1> QED
  BY <1>1, <1>2 DEF Cursor

LEMMA CursorInvariance == Spec => []Cursor
<1>1. Init => Cursor
  <2> SUFFICES ASSUME Init, NEW it \in Iterations PROVE CursorOf(it)
    BY DEF Cursor
  <2>1. Program[it] \in Seq(Methods) /\ Len(Program[it]) \in Nat
    BY ProgramAssumption
  <2>2. method[it] = 1 /\ at[it] = "call" /\ issued[it] = <<>>
    BY DEF Init, ClientInit
  <2>3. Before(it, 1) = <<>>
    BY FlattenEmpty DEF Before
  <2>4. <<>> \o <<>> = <<>>
    OBVIOUS
  <2>5. issued[it] = Before(it, method[it]) \o AskedInMethod(it)
    BY <2>2, <2>3, <2>4 DEF AskedInMethod
  <2>6. 1 <= Len(Program[it]) + 1
    BY <2>1
  <2> QED
    BY <2>2, <2>5, <2>6 DEF CursorOf
<1>2. IInv /\ Cursor /\ [Next]_vars => Cursor'
  <2>1. IInv /\ Cursor /\ Next => Cursor'
    BY StepCursor DEF Next
  <2>2. Cursor /\ UNCHANGED vars => Cursor'
    <3> SUFFICES ASSUME Cursor, UNCHANGED vars, NEW it \in Iterations PROVE CursorOf(it)'
      BY DEF Cursor
    <3>1. UNCHANGED <<at, method, item, pos, batchMode, cmds, raised, issued>>
      BY DEF vars, clientVars, loopVars
    <3>2. CursorOf(it)
      BY DEF Cursor
    <3>3. M(it)' = M(it)
      BY <3>1 DEF M
    <3>4. AskedInMethod(it)' = AskedInMethod(it)
      BY <3>1, <3>3 DEF AskedInMethod, ItemsUpTo
    <3> QED
      BY <3>1, <3>2, <3>3, <3>4 DEF CursorOf
  <2> QED
    BY <2>1, <2>2
<1> QED
  BY <1>1, <1>2, Invariance, PTL DEF Spec

\* A prefix of a method that may end a transaction is one of the scenario.
LEMMA PlaceOfStop ==
    ASSUME NEW it \in Iterations, method[it] \in DOMAIN Program[it],
           NEW u \in Seq(Commands), IsPrefix(u, MethodCommands(M(it))),
           Len(u) \in MethodStops(M(it)), NEW w, w = Before(it, method[it]) \o u
    PROVE  /\ w \in Seq(Commands) /\ Len(w) \in StopsOf[it]
           /\ AskedOf[it] \in Seq(Commands) /\ IsPrefix(w, AskedOf[it])
<1>1. /\ Program[it] \in Seq(Methods) /\ method[it] \in 1..(Len(Program[it]) + 1)
      /\ method[it] <= Len(Program[it]) /\ method[it] + 1 \in 1..(Len(Program[it]) + 1)
  BY ProgramAssumption
<1>2. PICK b \in Seq(Commands) : b = Before(it, method[it])
  BY <1>1, BeforeMethod
<1>3. PICK all \in Seq(Commands) : all = MethodCommands(M(it))
  <2>1. M(it) \in Methods
    BY MethodTyped
  <2> QED
    BY <2>1, MethodCommandsTyped
<1>4. /\ b \o all = Before(it, method[it] + 1) /\ b \o all \in Seq(Commands)
      /\ IsPrefix(b \o all, AskedOf[it]) /\ AskedOf[it] \in Seq(Commands)
  <2>1. Before(it, method[it] + 1) = Before(it, method[it]) \o MethodCommands(M(it))
    BY <1>1, BeforeMethod DEF M
  <2>2. /\ Before(it, method[it] + 1) \in Seq(Commands) /\ AskedOf[it] \in Seq(Commands)
        /\ IsPrefix(Before(it, method[it] + 1), AskedOf[it])
    BY <1>1, BeforeMethod
  <2> QED
    BY <1>2, <1>3, <2>1, <2>2
<1>5. w = b \o u /\ w \in Seq(Commands) /\ Len(w) = Len(b) + Len(u)
  BY <1>2
<1>6. IsPrefix(w, b \o all)
  <2>1. IsPrefix(u, all)
    BY <1>3
  <2>2. IsPrefix(b \o u, b \o all)
    BY <2>1, PrefixAfter
  <2> QED
    BY <1>5, <2>2
<1>7. IsPrefix(w, AskedOf[it])
  BY <1>4, <1>5, <1>6, PrefixTransitive
<1>8. Len(w) \in StopsOf[it]
  BY <1>2, <1>5, StopInMethod
<1> QED
  BY <1>4, <1>5, <1>7, <1>8

\* A step that executes nothing and ends nothing is no step of the ledger.
LEMMA Quiet ==
    ASSUME IInv, NEW it \in Iterations, Step(it), committed' = committed,
           raised'[it] = raised[it], at[it] # "done", at'[it] # "done"
    PROVE  UNCHANGED Ledger!vars
<1>1. \A j \in Iterations \ {it} : at'[j] = at[j] /\ raised'[j] = raised[j]
  BY StepOthers DEF IInv
<1>2. ResultOf' = ResultOf
  BY <1>1 DEF ResultOf
<1> QED
  BY <1>2 DEF Ledger!vars

\* A transaction that takes the iteration from what was executed to a stop is
\* executed as a whole or not at all; the iteration goes on or raises.
LEMMA Executes ==
    ASSUME IInv, NEW it \in Iterations, Step(it),
           NEW tx \in Seq(Commands), NEW lines, SshRun(it, tx, lines), tx # <<>>,
           ~raised[it], at[it] # "done", at'[it] # "done",
           NEW w \in Seq(Commands), w = committed[it] \o tx, Len(w) \in StopsOf[it],
           AskedOf[it] \in Seq(Commands), IsPrefix(w, AskedOf[it])
    PROVE  Ledger!Next
<1>1. ASSUME NEW r, r = (IF raised'[it] THEN "raised" ELSE "running")
      PROVE  ResultOf' = [ResultOf EXCEPT ![it] = r]
  <2>1. \A j \in Iterations \ {it} : at'[j] = at[j] /\ raised'[j] = raised[j]
    BY StepOthers DEF IInv
  <2>2. ResultOf'[it] = r
    BY <1>1 DEF ResultOf
  <2>3. \A j \in Iterations \ {it} : ResultOf'[j] = ResultOf[j]
    BY <2>1 DEF ResultOf
  <2>4. \A j \in Iterations : ResultOf'[j] = [ResultOf EXCEPT ![it] = r][j]
    BY <2>2, <2>3 DEF ResultOf
  <2>5. /\ ResultOf' = [j \in Iterations |-> ResultOf'[j]]
        /\ [ResultOf EXCEPT ![it] = r] = [j \in Iterations |-> [ResultOf EXCEPT ![it] = r][j]]
    BY DEF ResultOf
  <2> QED
    BY <2>4, <2>5
<1>2. ResultOf[it] = "running" /\ raised \in [Iterations -> BOOLEAN]
  BY DEF ResultOf, IInv, TypeOK, ClientTypeOK
<1>3. CASE committed' = committed /\ raised'[it]
  <2>1. Ledger!Raise(it)
    BY <1>1, <1>2, <1>3 DEF Ledger!Raise
  <2> QED
    BY <2>1 DEF Ledger!Next
<1>4. CASE committed' = [committed EXCEPT ![it] = committed[it] \o tx]
  <2>1. w = SubSeq(AskedOf[it], 1, Len(w))
    BY PrefixTyped
  <2>2. Len(committed[it]) < Len(w)
    BY DEF IInv, TypeOK, ClientTypeOK
  <2>3. committed' = [committed EXCEPT ![it] = SubSeq(AskedOf[it], 1, Len(w))]
    BY <1>4, <2>1
  <2>4. \E r \in {"running", "raised"} : ResultOf' = [ResultOf EXCEPT ![it] = r]
    BY <1>1
  <2>5. Ledger!Execute(it)
    BY <1>2, <2>2, <2>3, <2>4 DEF Ledger!Execute
  <2> QED
    BY <2>5 DEF Ledger!Next
<1> QED
  BY <1>2, <1>3, <1>4 DEF SshRun, Answered, Refused, LinkDown, AnswerLost

\* A flush at a place where a transaction may end.
LEMMA FlushRefines ==
    ASSUME IInv, ExecutedOrWaiting, NEW it \in Iterations, Step(it), Flush(it),
           ~raised[it], at[it] # "done", at'[it] # "done",
           method[it] \in DOMAIN Program[it],
           NEW u \in Seq(Commands), IsPrefix(u, MethodCommands(M(it))),
           issued[it] = Before(it, method[it]) \o u,
           cmds[it] # <<>> => Len(u) \in MethodStops(M(it))
    PROVE  [Ledger!Next]_(Ledger!vars)
<1>1. CASE cmds[it] = <<>>
  BY <1>1, Quiet DEF Flush
<1>2. CASE cmds[it] # <<>>
  <2>1. SshRun(it, cmds[it], cmds[it]) /\ cmds[it] \in Seq(Commands)
    BY <1>2 DEF Flush, IInv, TypeOK, ClientTypeOK
  <2>2. PICK w \in Seq(Commands) : w = issued[it]
    BY DEF IInv, TypeOK, ClientTypeOK
  <2>3. w = committed[it] \o cmds[it]
    BY <2>2 DEF ExecutedOrWaiting
  <2>4. /\ Len(w) \in StopsOf[it] /\ AskedOf[it] \in Seq(Commands)
        /\ IsPrefix(w, AskedOf[it])
    BY <1>2, <2>2, PlaceOfStop
  <2> QED
    BY <1>2, <2>1, <2>3, <2>4, Executes
<1> QED
  BY <1>1, <1>2

\* A command in direct mode, when every command may end a transaction.
LEMMA DirectRefines ==
    ASSUME IInv, ExecutedOrWaiting, NEW it \in Iterations, Step(it),
           NEW c \in Commands, RunDirect(it, c),
           ~raised[it], at[it] # "done", at'[it] # "done",
           method[it] \in DOMAIN Program[it],
           NEW u \in Seq(Commands), IsPrefix(u, MethodCommands(M(it))),
           issued'[it] = Before(it, method[it]) \o u, Len(u) \in MethodStops(M(it))
    PROVE  Ledger!Next
<1>1. /\ SshRun(it, <<c>>, Append(cmds[it], c)) /\ issued'[it] = Append(issued[it], c)
      /\ <<c>> \in Seq(Commands) /\ <<c>> # <<>>
  BY DEF RunDirect, IInv, TypeOK, ClientTypeOK
<1>2. PICK v \in Seq(Commands) : v = committed[it]
  BY DEF IInv, TypeOK, ClientTypeOK
<1>3. cmds[it] = <<>> /\ issued[it] = v
  <2>1. cmds[it] = <<>> /\ issued[it] = v \o cmds[it]
    BY <1>2 DEF ExecutedOrWaiting, IInv, ModeInv, RunDirect
  <2> QED
    BY <2>1
<1>4. PICK w \in Seq(Commands) : w = Append(v, c)
  BY AppendOne
<1>5. w = committed[it] \o <<c>>
  <2>1. Append(v, c) = v \o <<c>>
    BY AppendIsConcat
  <2> QED
    BY <1>2, <1>4, <2>1
<1>6. /\ Len(w) \in StopsOf[it] /\ AskedOf[it] \in Seq(Commands)
      /\ IsPrefix(w, AskedOf[it])
  <2>1. w = Before(it, method[it]) \o u
    BY <1>1, <1>3, <1>4
  <2> QED
    BY <2>1, PlaceOfStop
<1> QED
  BY <1>1, <1>5, <1>6, Executes

\* What run() has been called with is at a stop when the method is in direct
\* mode, where every command may end a transaction.
\* run() is called with commands of the method, from its first one on.
LEMMA RunCommandIssues ==
    ASSUME IInv, Cursor, NEW it \in Iterations, RunCommand(it)
    PROVE  \E w \in Seq(Commands) :
              /\ issued'[it] = Before(it, method[it]) \o w
              /\ IsPrefix(w, MethodCommands(M(it)))
              /\ Len(w) \in 1..Len(MethodCommands(M(it)))
<1>1. /\ method[it] \in DOMAIN Program[it]
      /\ item[it] \in DOMAIN M(it).items
      /\ pos[it] \in DOMAIN M(it).items[item[it]]
  BY DEF RunCommand, LoopInv, IInv
<1>2. M(it) \in Methods /\ M(it).items \in Seq(Seq(Commands))
  BY <1>1, MethodTyped DEF Methods
<1>3. PICK n \in 1..Len(M(it).items) : n = item[it]
  BY <1>1, <1>2
<1>4. PICK s \in Seq(Commands) : s = M(it).items[n]
  BY <1>2
<1>5. PICK p \in 1..Len(s) : p = pos[it]
  BY <1>1, <1>3, <1>4
<1>6. PICK u \in Seq(Commands) : u = ItemsUpTo(it, n - 1)
  <2>1. n - 1 \in 0..Len(M(it).items)
    BY <1>2
  <2> QED
    BY <1>2, <2>1, ItemsOfMethod DEF ItemsUpTo
<1>7. PICK all \in Seq(Commands) : all = MethodCommands(M(it))
  BY <1>2, MethodCommandsTyped
<1>8. PICK t \in Seq(Commands) : t = SubSeq(s, 1, p) /\ IsPrefix(t, s) /\ Len(t) = p
  <2>1. p \in 0..Len(s) /\ Len(SubSeq(s, 1, p)) = p
    OBVIOUS
  <2> QED
    BY <2>1, PrefixSubSeq
<1>9. issued'[it] = Before(it, method[it]) \o (u \o t)
  BY <1>3, <1>4, <1>5, <1>6, <1>8, RunCommandCursor DEF Cursor
<1>10. IsPrefix(u \o s, all) /\ u \o s \in Seq(Commands)
  <2>1. n \in 0..Len(M(it).items) /\ n # 0
    BY <1>2
  <2>2. /\ ItemsUpTo(it, n) = u \o s /\ IsPrefix(ItemsUpTo(it, n), all)
        /\ ItemsUpTo(it, n) \in Seq(Commands)
    BY <1>2, <1>4, <1>6, <1>7, <2>1, ItemsOfMethod DEF ItemsUpTo
  <2> QED
    BY <2>2
<1>11. PICK w \in Seq(Commands) : w = u \o t /\ Len(w) = Len(u) + p
  <2>1. u \o t \in Seq(Commands)
    BY CatTyped DEF Cat
  <2>2. Len(u \o t) = Len(u) + Len(t)
    OBVIOUS
  <2> QED
    BY <1>8, <2>1, <2>2
<1>12. IsPrefix(w, all)
  <2>1. IsPrefix(u \o t, u \o s)
    BY <1>8, PrefixAfter
  <2> QED
    BY <1>10, <1>11, <2>1, PrefixTransitive
<1>13. Len(w) \in 1..Len(all)
  <2>1. Len(w) \in 0..Len(all)
    BY <1>12, PrefixTyped
  <2>2. Len(w) # 0
    BY <1>11
  <2> QED
    BY <2>1, <2>2
<1> QED
  BY <1>7, <1>9, <1>11, <1>12, <1>13

LEMMA RunCommandRefines ==
    ASSUME IInv, Cursor, ExecutedOrWaiting, NEW it \in Iterations, RunCommand(it)
    PROVE  [Ledger!Next]_(Ledger!vars)
<1>1. /\ Step(it) /\ at[it] = "run" /\ ~raised[it] /\ at'[it] # "done"
      /\ CommandAt(it) \in Commands
  BY CommandTyped DEF Step, RunCommand, Go, IInv, TypeOK
<1>2. method[it] \in DOMAIN Program[it]
  BY DEF RunCommand, LoopInv, IInv
<1>3. CASE RunBatched(it, CommandAt(it))
  BY <1>1, <1>3, Quiet DEF RunBatched
<1>4. CASE RunDirect(it, CommandAt(it))
  <2>1. M(it).mode # "on"
    BY <1>1, <1>4 DEF RunDirect, Cursor, CursorOf
  <2>2. PICK w \in Seq(Commands) :
           /\ issued'[it] = Before(it, method[it]) \o w
           /\ IsPrefix(w, MethodCommands(M(it)))
           /\ Len(w) \in 1..Len(MethodCommands(M(it)))
    BY RunCommandIssues
  <2>3. Len(w) \in MethodStops(M(it))
    BY <2>1, <2>2 DEF MethodStops
  <2>4. Ledger!Next
    BY <1>1, <1>2, <1>4, <2>2, <2>3, DirectRefines
  <2> QED
    BY <2>4
<1> QED
  BY <1>3, <1>4 DEF RunCommand, Run

LEMMA EndItemRefines ==
    ASSUME IInv, Cursor, ExecutedOrWaiting, NEW it \in Iterations, EndItem(it)
    PROVE  [Ledger!Next]_(Ledger!vars)
<1>1. /\ Step(it) /\ at[it] = "itemEnd" /\ ~raised[it] /\ at'[it] # "done"
      /\ method[it] \in DOMAIN Program[it] /\ item[it] \in DOMAIN M(it).items
  BY DEF Step, EndItem, Go, AfterItems, IInv, TypeOK, LoopInv
<1>2. CASE ~FlushDue(it)
  BY <1>1, <1>2, Quiet DEF EndItem
<1>3. CASE FlushDue(it)
  <2>1. M(it) \in Methods /\ M(it).items \in Seq(Seq(Commands))
    BY <1>1, MethodTyped DEF Methods
  <2>2. PICK n \in 1..Len(M(it).items) : n = item[it]
    BY <1>1, <2>1
  <2>3. PICK u \in Seq(Commands) : u = ItemsUpTo(it, n) /\ IsPrefix(u, MethodCommands(M(it)))
    <3>1. n \in 0..Len(M(it).items)
      OBVIOUS
    <3> QED
      BY <2>1, <3>1, ItemsOfMethod DEF ItemsUpTo
  <2>4. issued[it] = Before(it, method[it]) \o u
    BY <1>1, <2>2, <2>3 DEF Cursor, CursorOf, AskedInMethod
  <2>5. Len(u) \in MethodStops(M(it))
    BY <2>3 DEF MethodStops, ItemsUpTo
  <2> QED
    BY <1>1, <1>3, <2>3, <2>4, <2>5, FlushRefines DEF EndItem
<1> QED
  BY <1>2, <1>3

LEMMA SyncFlushRefines ==
    ASSUME IInv, Cursor, ExecutedOrWaiting, NEW it \in Iterations, SyncFlush(it)
    PROVE  [Ledger!Next]_(Ledger!vars)
<1>1. /\ Step(it) /\ at[it] = "sync" /\ ~raised[it] /\ at'[it] # "done"
      /\ method[it] \in DOMAIN Program[it]
  BY DEF Step, SyncFlush, Go, IInv, TypeOK, LoopInv
<1>2. M(it) \in Methods /\ M(it).items \in Seq(Seq(Commands))
  BY <1>1, MethodTyped DEF Methods
<1>3. PICK n \in 0..Len(M(it).items) : n = Len(M(it).items)
  BY <1>2
<1>4. PICK u \in Seq(Commands) : u = ItemsUpTo(it, n) /\ IsPrefix(u, MethodCommands(M(it)))
  BY <1>2, ItemsOfMethod DEF ItemsUpTo
<1>5. issued[it] = Before(it, method[it]) \o u
  BY <1>1, <1>3, <1>4 DEF Cursor, CursorOf, AskedInMethod
<1>6. cmds[it] # <<>> => Len(u) \in MethodStops(M(it))
  <2> SUFFICES ASSUME cmds[it] # <<>> PROVE Len(u) \in MethodStops(M(it))
    OBVIOUS
  <2>1. M(it).items # <<>>
    BY <1>1 DEF Cursor, CursorOf
  <2>2. n \in 1..Len(M(it).items)
    BY <1>2, <1>3, <2>1
  <2> QED
    BY <1>4, <2>2 DEF MethodStops, ItemsUpTo
<1> QED
  BY <1>1, <1>4, <1>5, <1>6, FlushRefines DEF SyncFlush

\* All the commands of a method: the end of a method is always a stop.
LEMMA WholeMethod ==
    ASSUME NEW it \in Iterations, method[it] \in DOMAIN Program[it]
    PROVE  /\ MethodCommands(M(it)) \in Seq(Commands)
           /\ IsPrefix(MethodCommands(M(it)), MethodCommands(M(it)))
           /\ Len(MethodCommands(M(it))) \in MethodStops(M(it))
<1>1. PICK all \in Seq(Commands) : all = MethodCommands(M(it))
  BY MethodTyped, MethodCommandsTyped
<1>2. IsPrefix(all, all)
  BY DEF IsPrefix
<1> QED
  BY <1>1, <1>2 DEF MethodStops

LEMMA SyncRunRefines ==
    ASSUME IInv, Cursor, ExecutedOrWaiting, NEW it \in Iterations, SyncRun(it)
    PROVE  [Ledger!Next]_(Ledger!vars)
<1>1. /\ Step(it) /\ at[it] = "syncRun" /\ ~raised[it] /\ at'[it] # "done"
      /\ method[it] \in DOMAIN Program[it] /\ RunDirect(it, Sync)
  BY DEF Step, SyncRun, Go, IInv, TypeOK, LoopInv
<1>2. issued'[it] = Before(it, method[it]) \o MethodCommands(M(it))
  BY SyncRunCursor DEF Cursor
<1>3. Ledger!Next
  BY <1>1, <1>2, SyncTyped, WholeMethod, DirectRefines
<1> QED
  BY <1>3

LEMMA FinishRefines ==
    ASSUME IInv, Cursor, ExecutedOrWaiting, NEW it \in Iterations, Finish(it)
    PROVE  [Ledger!Next]_(Ledger!vars)
<1>1. /\ Step(it) /\ at[it] = "finish" /\ ~raised[it] /\ at'[it] # "done"
      /\ method[it] \in DOMAIN Program[it]
  BY DEF Step, Finish, Go, IInv, TypeOK, LoopInv
<1>2. CASE M(it).mode = "asis"
  BY <1>1, <1>2, Quiet DEF Finish, clientVars
<1>3. CASE M(it).mode # "asis"
  <2>1. Flush(it)
    BY <1>3 DEF Finish, LastFlush
  <2>2. issued[it] = Before(it, method[it]) \o MethodCommands(M(it))
    BY <1>1 DEF Cursor, CursorOf, AskedInMethod
  <2> QED
    BY <1>1, <2>1, <2>2, WholeMethod, FlushRefines
<1> QED
  BY <1>2, <1>3

LEMMA ReturnRefines ==
    ASSUME IInv, Cursor, ExecutedOrWaiting, NEW it \in Iterations, Return(it)
    PROVE  Ledger!Next
<1>1. /\ at[it] = "call" /\ at'[it] = "done" /\ UNCHANGED <<raised, committed>>
      /\ ~raised[it] /\ cmds[it] = <<>>
  BY DEF Return, Go, clientVars, IInv, TypeOK, ModeInv
<1>2. method[it] = Len(Program[it]) + 1
  <2>1. CursorOf(it)'
    BY ReturnCursor DEF Cursor
  <2>2. method' = method
    BY DEF Return, loopVars
  <2> QED
    BY <1>1, <2>1, <2>2 DEF CursorOf
<1>3. committed[it] = AskedOf[it]
  <2>1. PICK b \in Seq(Commands) : b = Before(it, method[it])
    <3>1. method[it] \in 1..(Len(Program[it]) + 1)
      BY <1>2, ProgramAssumption
    <3> QED
      BY <3>1, BeforeMethod
  <2>2. issued[it] = b \o <<>>
    BY <1>1, <2>1 DEF Cursor, CursorOf, AskedInMethod
  <2>3. PICK v \in Seq(Commands) : v = committed[it]
    BY DEF IInv, TypeOK, ClientTypeOK
  <2>4. issued[it] = v \o <<>>
    BY <1>1, <2>3 DEF ExecutedOrWaiting
  <2>5. v \o <<>> = v /\ b \o <<>> = b
    OBVIOUS
  <2> QED
    BY <1>2, <2>1, <2>2, <2>3, <2>4, <2>5 DEF AskedOf
<1>4. ResultOf[it] = "running"
  BY <1>1 DEF ResultOf
<1>5. ResultOf' = [ResultOf EXCEPT ![it] = "returned"]
  <2>1. \A j \in Iterations : ResultOf'[j] = [ResultOf EXCEPT ![it] = "returned"][j]
    BY <1>1 DEF ResultOf, Return, Go, IInv, TypeOK
  <2>2. /\ ResultOf' = [j \in Iterations |-> ResultOf'[j]]
        /\ [ResultOf EXCEPT ![it] = "returned"]
              = [j \in Iterations |-> [ResultOf EXCEPT ![it] = "returned"][j]]
    BY DEF ResultOf
  <2> QED
    BY <2>1, <2>2
<1> QED
  BY <1>1, <1>3, <1>4, <1>5 DEF Ledger!Next, Ledger!Return

LEMMA StepRefines ==
    ASSUME IInv, Cursor, ExecutedOrWaiting, NEW it \in Iterations, Step(it)
    PROVE  [Ledger!Next]_(Ledger!vars)
<1>1. CASE Call(it)
  <2>1. /\ at[it] # "done" /\ at'[it] # "done" /\ UNCHANGED <<raised, committed>>
    BY <1>1 DEF Call, Go, AfterItems, IInv, TypeOK
  <2> QED
    BY <2>1, Quiet
<1> QED
  BY <1>1, RunCommandRefines, EndItemRefines, SyncFlushRefines, SyncRunRefines,
     FinishRefines, ReturnRefines DEF Step

\* Batching is invisible: whatever the flush rule, the batch size and the
\* answers ovn-nbctl gives, the database executes of what the scenario asks
\* for a prefix that ends with a complete item, each command once, and the
\* iteration returns only when it executed all of it (_OvnNbctl, ovn.py).
THEOREM BatchingInvisible == Spec => ImplementsLedger
<1>1. Init => Ledger!Init
  <2> SUFFICES ASSUME Init PROVE Ledger!Init
    OBVIOUS
  <2>1. committed = [it \in Iterations |-> <<>>]
    BY DEF Init, ClientInit
  <2>2. ResultOf = [it \in Iterations |-> "running"]
    BY DEF Init, ClientInit, ResultOf
  <2> QED
    BY <2>1, <2>2 DEF Ledger!Init
<1>2. IInv /\ Cursor /\ ExecutedOrWaiting /\ [Next]_vars => [Ledger!Next]_(Ledger!vars)
  <2> SUFFICES ASSUME IInv, Cursor, ExecutedOrWaiting, [Next]_vars
               PROVE  [Ledger!Next]_(Ledger!vars)
    OBVIOUS
  <2>1. CASE Next
    BY <2>1, StepRefines DEF Next
  <2>2. CASE UNCHANGED vars
    BY <2>2 DEF vars, clientVars, Ledger!vars, ResultOf
  <2> QED
    BY <2>1, <2>2
<1> QED
  BY <1>1, <1>2, Invariance, CursorInvariance, LedgerInvariance,
     PTL DEF Spec, ImplementsLedger, Ledger!Spec


-----------------------------------------------------------------------------
(***************************************************************************)
(* Objects and handles.  What follows is for scenarios that keep to        *)
(* objects of their own.                                                   *)
(***************************************************************************)
Added(s, o) == \E k \in DOMAIN s : Adds(s[k], o)
Removed(s, o) == \E k \in DOMAIN s : Removes(s[k], o)

\* What s created and did not delete.
Live(s) == {o \in Objs : Added(s, o) /\ ~Removed(s, o)}

\* The commands of two sequences, one after the other.
LEMMA Joined ==
    ASSUME NEW c \in Seq(Commands), NEW tx \in Seq(Commands), NEW w, w = c \o tx
    PROVE  /\ w \in Seq(Commands) /\ DOMAIN w = 1..(Len(c) + Len(tx))
           /\ DOMAIN c = 1..Len(c) /\ DOMAIN tx = 1..Len(tx)
           /\ Len(c) \in Nat /\ Len(tx) \in Nat
           /\ \A k \in 1..Len(c) : k \in DOMAIN w /\ w[k] = c[k]
           /\ \A k \in 1..Len(tx) : Len(c) + k \in DOMAIN w /\ w[Len(c) + k] = tx[k]
           /\ \A k \in DOMAIN w : k <= Len(c) \/ k - Len(c) \in 1..Len(tx)
<1>1. /\ w \in Seq(Commands) /\ DOMAIN w = 1..(Len(c) + Len(tx))
      /\ DOMAIN c = 1..Len(c) /\ DOMAIN tx = 1..Len(tx)
      /\ Len(c) \in Nat /\ Len(tx) \in Nat
  OBVIOUS
<1>2. ASSUME NEW k \in 1..Len(c)
      PROVE  k \in DOMAIN w /\ w[k] = c[k]
  OBVIOUS
<1>3. ASSUME NEW k \in 1..Len(tx)
      PROVE  Len(c) + k \in DOMAIN w /\ w[Len(c) + k] = tx[k]
  OBVIOUS
<1>4. ASSUME NEW k \in DOMAIN w
      PROVE  k <= Len(c) \/ k - Len(c) \in 1..Len(tx)
  BY <1>1
<1> QED
  BY <1>1, <1>2, <1>3, <1>4

LEMMA JoinedAdds ==
    ASSUME NEW c \in Seq(Commands), NEW tx \in Seq(Commands), NEW o
    PROVE  /\ Added(c \o tx, o) <=> Added(c, o) \/ Added(tx, o)
           /\ Removed(c \o tx, o) <=> Removed(c, o) \/ Removed(tx, o)
<1>1. PICK w : w = c \o tx
  OBVIOUS
<1>2. /\ w \in Seq(Commands) /\ DOMAIN w = 1..(Len(c) + Len(tx))
      /\ DOMAIN c = 1..Len(c) /\ DOMAIN tx = 1..Len(tx)
      /\ Len(c) \in Nat /\ Len(tx) \in Nat
      /\ \A k \in 1..Len(c) : k \in DOMAIN w /\ w[k] = c[k]
      /\ \A k \in 1..Len(tx) : Len(c) + k \in DOMAIN w /\ w[Len(c) + k] = tx[k]
      /\ \A k \in DOMAIN w : k <= Len(c) \/ k - Len(c) \in 1..Len(tx)
  BY <1>1, Joined
<1>3. ASSUME NEW k \in DOMAIN w
      PROVE  (k \in DOMAIN c /\ w[k] = c[k])
             \/ \E l \in DOMAIN tx : w[k] = tx[l]
  <2>1. CASE k <= Len(c)
    BY <1>2, <2>1
  <2>2. CASE k - Len(c) \in 1..Len(tx)
    <3>1. k = Len(c) + (k - Len(c))
      BY <1>2
    <3> QED
      BY <1>2, <2>2, <3>1
  <2> QED
    BY <1>2, <2>1, <2>2
<1>4. \A k \in DOMAIN c : \E l \in DOMAIN w : w[l] = c[k]
  BY <1>2
<1>5. \A k \in DOMAIN tx : \E l \in DOMAIN w : w[l] = tx[k]
  BY <1>2
<1>6. Added(w, o) <=> Added(c, o) \/ Added(tx, o)
  BY <1>3, <1>4, <1>5, Zenon DEF Added
<1>7. Removed(w, o) <=> Removed(c, o) \/ Removed(tx, o)
  BY <1>3, <1>4, <1>5, Zenon DEF Removed
<1> QED
  BY <1>1, <1>6, <1>7

\* The commands of a scenario, as far as it got, keep to its own objects.
LEMMA PrefixKeeps ==
    ASSUME NEW s \in Seq(Commands), NEW t \in Seq(Commands), IsPrefix(t, s), KeepsToItsOwn(s)
    PROVE  KeepsToItsOwn(t)
<1>1. t = SubSeq(s, 1, Len(t)) /\ Len(t) <= Len(s) /\ Len(t) \in Nat /\ Len(s) \in Nat
  BY PrefixTyped
<1>2. \A k \in DOMAIN t : k \in DOMAIN s /\ k \in Nat /\ t[k] = s[k]
  BY <1>1
<1>3. \A k \in DOMAIN t : \A j \in 1..(k - 1) : j \in DOMAIN t
  BY <1>1
<1>4. SUFFICES ASSUME NEW k \in DOMAIN t
      PROVE  /\ t[k].op = "add" =>
                  /\ \A j \in 1..(k - 1) : ~Writes(t[j], t[k].obj) /\ ~Removes(t[j], t[k].obj)
                  /\ Parent[t[k].obj] = t[k].obj
                     \/ \E j \in 1..(k - 1) : Adds(t[j], Parent[t[k].obj])
             /\ t[k].op \in {"del", "acl-del"} =>
                  /\ \E j \in 1..(k - 1) : Adds(t[j], t[k].obj)
                  /\ \A j \in 1..(k - 1) : ~Removes(t[j], t[k].obj)
  BY DEF KeepsToItsOwn
<1>5. t[k] = s[k] /\ k \in DOMAIN s /\ \A j \in 1..(k - 1) : t[j] = s[j]
  BY <1>2, <1>3
<1> QED
  BY <1>5 DEF KeepsToItsOwn

\* What is deleted is something of its own that it has not deleted before.
LEMMA DeletesOwn ==
    ASSUME NEW c \in Seq(Commands), NEW tx \in Seq(Commands), KeepsToItsOwn(c \o tx),
           NEW k \in 1..Len(tx), tx[k].op \in {"del", "acl-del"}, tx[k].obj \in Objs
    PROVE  tx[k].obj \in Live(c) \/ \E i \in 1..(k - 1) : Adds(tx[i], tx[k].obj)
<1>1. PICK w : w = c \o tx
  OBVIOUS
<1>2. /\ w \in Seq(Commands) /\ DOMAIN w = 1..(Len(c) + Len(tx))
      /\ DOMAIN c = 1..Len(c) /\ DOMAIN tx = 1..Len(tx)
      /\ Len(c) \in Nat /\ Len(tx) \in Nat
      /\ \A m \in 1..Len(c) : m \in DOMAIN w /\ w[m] = c[m]
      /\ \A m \in 1..Len(tx) : Len(c) + m \in DOMAIN w /\ w[Len(c) + m] = tx[m]
      /\ \A m \in DOMAIN w : m <= Len(c) \/ m - Len(c) \in 1..Len(tx)
  BY <1>1, Joined
<1>3. PICK n : n = Len(c) + k
  OBVIOUS
<1>4. n \in DOMAIN w /\ w[n] = tx[k] /\ n \in Nat
  BY <1>2, <1>3
<1>5. /\ \E j \in 1..(n - 1) : Adds(w[j], tx[k].obj)
      /\ \A j \in 1..(n - 1) : ~Removes(w[j], tx[k].obj)
  BY <1>1, <1>4 DEF KeepsToItsOwn
<1>6. PICK j \in 1..(n - 1) : Adds(w[j], tx[k].obj)
  BY <1>5
<1>7. CASE j <= Len(c)
  <2>1. j \in DOMAIN c /\ Adds(c[j], tx[k].obj)
    BY <1>2, <1>3, <1>4, <1>6, <1>7
  <2>2. \A m \in DOMAIN c : ~Removes(c[m], tx[k].obj)
    <3> SUFFICES ASSUME NEW m \in DOMAIN c PROVE ~Removes(c[m], tx[k].obj)
      OBVIOUS
    <3>1. m \in 1..(n - 1) /\ w[m] = c[m]
      BY <1>2, <1>3, <1>4
    <3> QED
      BY <1>5, <3>1
  <2> QED
    BY <2>1, <2>2 DEF Live, Added, Removed
<1>8. CASE ~(j <= Len(c))
  <2>1. PICK i : i = j - Len(c)
    OBVIOUS
  <2>2. i \in 1..(k - 1) /\ i \in 1..Len(tx) /\ j = Len(c) + i
    BY <1>2, <1>3, <1>4, <1>8, <2>1
  <2>3. Adds(tx[i], tx[k].obj)
    BY <1>2, <1>6, <2>2
  <2> QED
    BY <2>2, <2>3
<1> QED
  BY <1>7, <1>8

\* What is its own is not created again.
LEMMA AddedOnce ==
    ASSUME NEW c \in Seq(Commands), NEW tx \in Seq(Commands), KeepsToItsOwn(c \o tx),
           NEW o, NEW k \in 1..Len(tx), Adds(tx[k], o)
    PROVE  /\ \A j \in 1..Len(c) : ~Writes(c[j], o)
           /\ ~Added(c, o) /\ ~Removed(c, o)
           /\ \A j \in 1..(k - 1) : ~Writes(tx[j], o) /\ ~Removes(tx[j], o)
<1>1. PICK w : w = c \o tx
  OBVIOUS
<1>2. /\ w \in Seq(Commands) /\ DOMAIN w = 1..(Len(c) + Len(tx))
      /\ DOMAIN c = 1..Len(c) /\ DOMAIN tx = 1..Len(tx)
      /\ Len(c) \in Nat /\ Len(tx) \in Nat
      /\ \A m \in 1..Len(c) : m \in DOMAIN w /\ w[m] = c[m]
      /\ \A m \in 1..Len(tx) : Len(c) + m \in DOMAIN w /\ w[Len(c) + m] = tx[m]
  BY <1>1, Joined
<1>3. PICK n : n = Len(c) + k
  OBVIOUS
<1>4. n \in DOMAIN w /\ w[n] = tx[k] /\ n \in Nat
  BY <1>2, <1>3
<1>5. \A j \in 1..(n - 1) : ~Writes(w[j], o) /\ ~Removes(w[j], o)
  BY <1>1, <1>4 DEF KeepsToItsOwn, Adds
<1>6. ASSUME NEW j \in 1..Len(c)
      PROVE  ~Writes(c[j], o) /\ ~Removes(c[j], o)
  <2>1. j \in 1..(n - 1) /\ w[j] = c[j]
    BY <1>2, <1>3, <1>4
  <2> QED
    BY <1>5, <2>1
<1>7. ASSUME NEW j \in 1..(k - 1)
      PROVE  ~Writes(tx[j], o) /\ ~Removes(tx[j], o)
  <2>1. PICK i : i = Len(c) + j
    OBVIOUS
  <2>2. i \in 1..(n - 1) /\ w[i] = tx[j]
    BY <1>2, <1>3, <1>4, <2>1
  <2> QED
    BY <1>5, <2>2
<1> QED
  BY <1>2, <1>6, <1>7 DEF Added, Removed, Adds, Writes

\* The switch or router of an object of its own is its own.
LEMMA ParentLives ==
    ASSUME NEW d \in Seq(Commands), KeepsToItsOwn(d), NEW o \in Live(d)
    PROVE  Parent[o] \in Live(d)
<1>1. /\ o \in Objs /\ Parent[o] \in Objs
      /\ Parent[Parent[o]] = Parent[o] /\ Parent[o] \notin Acls
  BY DatabaseAssumption DEF Live
<1>2. PICK k \in DOMAIN d : Adds(d[k], o)
  BY DEF Live, Added
<1>3. Parent[o] = o \/ \E j \in 1..(k - 1) : Adds(d[j], Parent[o])
  BY <1>2 DEF KeepsToItsOwn, Adds
<1>4. Added(d, Parent[o])
  <2>1. \A j \in 1..(k - 1) : j \in DOMAIN d
    OBVIOUS
  <2> QED
    BY <1>2, <1>3, <2>1 DEF Added
<1>5. \A m \in DOMAIN d : Removes(d[m], Parent[o]) => Removes(d[m], o)
  BY <1>1 DEF Removes
<1>6. ~Removed(d, Parent[o])
  BY <1>5 DEF Live, Removed
<1> QED
  BY <1>1, <1>4, <1>6 DEF Live

\* A transaction that the database accepts, of an iteration that keeps to its
\* own objects, neither deletes nor creates those of another.
LEMMA Foreign ==
    ASSUME NEW c \in Seq(Commands), NEW tx \in Seq(Commands), NEW d \in Seq(Commands),
           KeepsToItsOwn(c \o tx), KeepsToItsOwn(d), Live(c) \cap Live(d) = {},
           NEW db \in Contents, TxOk(db, tx), \A o \in Live(d) : db[o] # {}
    PROVE  \A k \in 1..Len(tx) : \A o \in Live(d) : ~Removes(tx[k], o) /\ ~Adds(tx[k], o)
<1> DEFINE Hits == {k \in 1..Len(tx) : \E o \in Live(d) : Removes(tx[k], o) \/ Adds(tx[k], o)}
<1> SUFFICES ASSUME Hits # {} PROVE FALSE
  OBVIOUS
<1>1. Hits \subseteq Nat
  OBVIOUS
<1>2. PICK k \in Hits : \A m \in Hits : k <= m
  BY <1>1, LeastNumber
<1>3. k \in 1..Len(tx) /\ \A j \in 1..(k - 1) : j \in 1..Len(tx) /\ j \notin Hits
  BY <1>1, <1>2
<1>4. PICK o \in Live(d) : Removes(tx[k], o) \/ Adds(tx[k], o)
  BY <1>2
<1>5. o \in Objs /\ Parent[o] \in Live(d) /\ Parent[o] \in Objs
  BY ParentLives, DatabaseAssumption DEF Live
<1>6. \A j \in 1..(k - 1) : \A p \in Live(d) : ~Removes(tx[j], p) /\ ~Adds(tx[j], p)
  BY <1>3
<1>7. CASE Adds(tx[k], o)
  <2>1. Decisive(tx, o, k - 1) = {}
    BY <1>6 DEF Decisive, Adds
  <2>2. ExistsAfter(db, tx, o, k - 1)
    BY <2>1 DEF ExistsAfter
  <2>3. Succeeds(db, tx, k)
    BY <1>3 DEF TxOk
  <2> QED
    BY <1>7, <2>2, <2>3 DEF Succeeds, Adds
<1>8. CASE Removes(tx[k], o)
  <2>1. tx[k].op \in {"del", "acl-del"} /\ tx[k].obj \in {o, Parent[o]}
    BY <1>8 DEF Removes
  <2>2. tx[k].obj \in Live(d) /\ tx[k].obj \in Objs
    BY <1>5, <2>1
  <2>3. \A i \in 1..(k - 1) : ~Adds(tx[i], tx[k].obj)
    BY <1>6, <2>2
  <2>4. tx[k].obj \in Live(c)
    BY <1>3, <2>1, <2>2, <2>3, DeletesOwn
  <2> QED
    BY <2>2, <2>4
<1> QED
  BY <1>4, <1>7, <1>8

\* The objects that s created are there, with all that s wrote to them.
Holds(db, s) ==
    \A o \in Live(s) :
        /\ db[o] # {}
        /\ \A k \in DOMAIN s : Writes(s[k], o) => s[k].n \in db[o]

\* A transaction that does not delete an object adds to its contents.
LEMMA NotRemoved ==
    ASSUME NEW tx \in Seq(Commands), NEW db \in Contents, NEW o \in Objs, ~Removed(tx, o)
    PROVE  /\ db[o] \subseteq TxEffect(db, tx)[o]
           /\ \A k \in DOMAIN tx : Writes(tx[k], o) => tx[k].n \in TxEffect(db, tx)[o]
<1>1. DOMAIN tx = 1..Len(tx)
  OBVIOUS
<1>2. {j \in 1..Len(tx) : Removes(tx[j], o)} = {}
  BY <1>1 DEF Removed
<1>3. TxEffect(db, tx)[o]
        = db[o] \cup {tx[j].n : j \in {i \in 1..Len(tx) :
                          i > 0 /\ tx[i].obj = o /\ tx[i].op \in {"add", "set"}}}
  BY <1>2 DEF TxEffect
<1>4. ASSUME NEW k \in DOMAIN tx, Writes(tx[k], o)
      PROVE  tx[k].n \in TxEffect(db, tx)[o]
  <2>1. k \in {i \in 1..Len(tx) : i > 0 /\ tx[i].obj = o /\ tx[i].op \in {"add", "set"}}
    BY <1>1, <1>4 DEF Writes
  <2> QED
    BY <1>3, <2>1
<1> QED
  BY <1>3, <1>4

\* After a transaction of its own an iteration's objects are there, and apart
\* from those of another, which the transaction left alone.
LEMMA OwnAfter ==
    ASSUME NEW c \in Seq(Commands), NEW tx \in Seq(Commands), NEW db \in Contents,
           KeepsToItsOwn(c \o tx), Holds(db, c)
    PROVE  Holds(TxEffect(db, tx), c \o tx)
<1>1. PICK w : w = c \o tx
  OBVIOUS
<1>2. /\ w \in Seq(Commands) /\ DOMAIN w = 1..(Len(c) + Len(tx))
      /\ DOMAIN c = 1..Len(c) /\ DOMAIN tx = 1..Len(tx)
      /\ Len(c) \in Nat /\ Len(tx) \in Nat
      /\ \A m \in 1..Len(c) : m \in DOMAIN w /\ w[m] = c[m]
      /\ \A m \in 1..Len(tx) : Len(c) + m \in DOMAIN w /\ w[Len(c) + m] = tx[m]
      /\ \A m \in DOMAIN w : m <= Len(c) \/ m - Len(c) \in 1..Len(tx)
  BY <1>1, Joined
<1>3. SUFFICES ASSUME NEW o \in Live(w)
      PROVE  /\ TxEffect(db, tx)[o] # {}
             /\ \A k \in DOMAIN w : Writes(w[k], o) => w[k].n \in TxEffect(db, tx)[o]
  BY <1>1 DEF Holds
<1>4. o \in Objs /\ (Added(c, o) \/ Added(tx, o)) /\ ~Removed(c, o) /\ ~Removed(tx, o)
  BY <1>1, JoinedAdds DEF Live
<1>5. /\ db[o] \subseteq TxEffect(db, tx)[o]
      /\ \A k \in DOMAIN tx : Writes(tx[k], o) => tx[k].n \in TxEffect(db, tx)[o]
  BY <1>4, NotRemoved
<1>6. ASSUME NEW k \in DOMAIN w, Writes(w[k], o)
      PROVE  w[k].n \in TxEffect(db, tx)[o]
  <2>1. CASE k <= Len(c)
    <3>1. k \in DOMAIN c /\ w[k] = c[k] /\ Writes(c[k], o)
      BY <1>2, <1>6, <2>1
    <3>2. CASE Added(c, o)
      BY <1>4, <1>5, <3>1, <3>2 DEF Holds, Live
    <3>3. CASE Added(tx, o)
      BY <1>2, <3>1, <3>3, AddedOnce DEF Added
    <3> QED
      BY <1>4, <3>2, <3>3
  <2>2. CASE k - Len(c) \in 1..Len(tx)
    <3>1. PICK j \in 1..Len(tx) : j = k - Len(c)
      BY <2>2
    <3>2. k = Len(c) + j
      BY <1>2, <3>1
    <3>3. w[k] = tx[j]
      BY <1>2, <3>2
    <3> QED
      BY <1>2, <1>5, <1>6, <3>3
  <2> QED
    BY <1>2, <2>1, <2>2
<1>7. TxEffect(db, tx)[o] # {}
  <2>1. CASE Added(c, o)
    BY <1>4, <1>5, <2>1 DEF Holds, Live
  <2>2. CASE Added(tx, o)
    <3>1. PICK k \in DOMAIN tx : Adds(tx[k], o)
      BY <2>2 DEF Added
    <3>2. Writes(tx[k], o)
      BY <3>1 DEF Adds, Writes
    <3> QED
      BY <1>5, <3>2
  <2> QED
    BY <1>4, <2>1, <2>2
<1> QED
  BY <1>6, <1>7

LEMMA OthersAfter ==
    ASSUME NEW c \in Seq(Commands), NEW tx \in Seq(Commands), NEW d \in Seq(Commands),
           KeepsToItsOwn(c \o tx), KeepsToItsOwn(d), Live(c) \cap Live(d) = {},
           NEW db \in Contents, TxOk(db, tx), Holds(db, d)
    PROVE  /\ Holds(TxEffect(db, tx), d)
           /\ Live(c \o tx) \cap Live(d) = {}
<1>1. \A k \in 1..Len(tx) : \A o \in Live(d) : ~Removes(tx[k], o) /\ ~Adds(tx[k], o)
  BY Foreign DEF Holds
<1>2. \A o \in Live(d) : o \in Objs /\ ~Removed(tx, o) /\ ~Added(tx, o)
  <2>1. DOMAIN tx = 1..Len(tx)
    OBVIOUS
  <2> QED
    BY <1>1, <2>1 DEF Removed, Added, Live
<1>3. ASSUME NEW o \in Live(d)
      PROVE  db[o] \subseteq TxEffect(db, tx)[o]
  BY <1>2, NotRemoved
<1>4. Holds(TxEffect(db, tx), d)
  BY <1>3 DEF Holds
<1>5. ASSUME NEW o \in Live(c \o tx), o \in Live(d)
      PROVE  FALSE
  <2>1. Added(c, o) /\ ~Removed(c, o) /\ o \in Objs
    BY <1>2, <1>5, JoinedAdds DEF Live
  <2> QED
    BY <1>5, <2>1 DEF Live
<1> QED
  BY <1>4, <1>5

-----------------------------------------------------------------------------
(* What is gone *)

LEMMA LatestIsLast ==
    ASSUME NEW k \in Nat, NEW S, S \subseteq 1..k, S # {}
    PROVE  Latest(S) \in S /\ \A j \in S : j <= Latest(S)
<1> DEFINE T == {k - j : j \in S}
<1>1. T \subseteq Nat /\ T # {}
  <2>1. \A j \in S : j \in Nat /\ j <= k /\ k - j \in Nat
    OBVIOUS
  <2> QED
    BY <2>1
<1>2. \A m : m \in T <=> \E j \in S : m = k - j
  OBVIOUS
<1> HIDE DEF T
<1>3. PICK n \in T : \A m \in T : n <= m
  BY <1>1, LeastNumber
<1>4. PICK j \in S : n = k - j
  BY <1>2
<1>5. \A i \in S : i <= j
  <2> SUFFICES ASSUME NEW i \in S PROVE i <= j
    OBVIOUS
  <2>1. k - j <= k - i
    BY <1>2, <1>3, <1>4
  <2> QED
    BY <2>1
<1> QED
  BY <1>5 DEF Latest

\* An object that is absent stays so if the transaction does not create it.
LEMMA AbsentStays ==
    ASSUME NEW tx \in Seq(Commands), NEW db \in Contents, TxOk(db, tx), NEW o \in Objs,
           db[o] = {}, ~Added(tx, o)
    PROVE  TxEffect(db, tx)[o] = {}
<1>1. DOMAIN tx = 1..Len(tx) /\ Len(tx) \in Nat
  OBVIOUS
<1>2. \A k \in 1..Len(tx) : ~Adds(tx[k], o)
  BY <1>1 DEF Added
<1>3. ASSUME NEW k \in 1..Len(tx)
      PROVE  ~ExistsAfter(db, tx, o, k - 1)
  <2>1. CASE Decisive(tx, o, k - 1) = {}
    BY <2>1 DEF ExistsAfter
  <2>2. CASE Decisive(tx, o, k - 1) # {}
    <3>1. PICK D : D = Decisive(tx, o, k - 1)
      OBVIOUS
    <3>2. D \subseteq 1..(k - 1) /\ k - 1 \in Nat /\ D # {}
      BY <2>2, <3>1 DEF Decisive
    <3>3. Latest(D) \in D
      BY <3>2, LatestIsLast
    <3>4. \A j \in D : tx[j].op # "add"
      <4> SUFFICES ASSUME NEW j \in D PROVE tx[j].op # "add"
        OBVIOUS
      <4>1. j \in 1..Len(tx)
        BY <1>1, <3>2
      <4>2. ~Adds(tx[j], o)
        BY <1>2, <4>1
      <4> QED
        BY <3>1, <4>2 DEF Decisive, Removes, Adds
    <3> QED
      BY <3>1, <3>2, <3>3, <3>4 DEF ExistsAfter
  <2> QED
    BY <2>1, <2>2
<1>4. \A k \in 1..Len(tx) : ~(tx[k].obj = o /\ tx[k].op \in {"add", "set"})
  BY <1>2, <1>3 DEF TxOk, Succeeds, Adds
<1> QED
  BY <1>4 DEF TxEffect

\* An object that the transaction deletes, and does not create after that, is
\* absent then.
LEMMA RemovedGone ==
    ASSUME NEW tx \in Seq(Commands), NEW db \in Contents, TxOk(db, tx), NEW o \in Objs,
           NEW r \in 1..Len(tx), Removes(tx[r], o),
           \A k \in 1..Len(tx) : Adds(tx[k], o) => \A j \in 1..(k - 1) : ~Removes(tx[j], o)
    PROVE  TxEffect(db, tx)[o] = {}
<1>1. PICK R : R = {j \in 1..Len(tx) : Removes(tx[j], o)}
  OBVIOUS
<1>2. R \subseteq 1..Len(tx) /\ R # {} /\ Len(tx) \in Nat
  BY <1>1
<1>3. PICK last : last = Latest(R)
  OBVIOUS
<1>4. last \in R /\ \A j \in R : j <= last
  BY <1>2, <1>3, LatestIsLast
<1>5. ASSUME NEW k \in 1..Len(tx), k > last
      PROVE  ~(tx[k].obj = o /\ tx[k].op \in {"add", "set"})
  <2>1. last \in 1..(k - 1) /\ Removes(tx[last], o)
    BY <1>1, <1>2, <1>4, <1>5
  <2>2. PICK D : D = Decisive(tx, o, k - 1)
    OBVIOUS
  <2>3. last \in D /\ D \subseteq 1..(k - 1) /\ k - 1 \in Nat
    BY <2>1, <2>2 DEF Decisive
  <2>4. Latest(D) \in D /\ last <= Latest(D)
    <3>1. D # {}
      BY <2>3
    <3> QED
      BY <2>3, <3>1, LatestIsLast
  <2>5. tx[Latest(D)].op # "add"
    <3>1. PICK j \in D : j = Latest(D)
      BY <2>4
    <3>2. j \in 1..Len(tx) /\ last <= j /\ last \in Nat
      BY <1>2, <2>1, <2>3, <2>4, <3>1
    <3>3. Removes(tx[j], o) \/ Adds(tx[j], o)
      BY <2>2, <3>1 DEF Decisive, Adds
    <3>4. CASE j = last
      BY <2>1, <3>1, <3>4 DEF Removes
    <3>5. CASE j # last
      <4>1. last \in 1..(j - 1)
        BY <2>1, <3>2, <3>5
      <4>2. ~Adds(tx[j], o)
        BY <2>1, <3>2, <4>1
      <4> QED
        BY <3>1, <3>3, <4>2 DEF Removes
    <3> QED
      BY <3>4, <3>5
  <2>6. ~ExistsAfter(db, tx, o, k - 1)
    BY <2>2, <2>3, <2>5 DEF ExistsAfter
  <2>7. ~Adds(tx[k], o)
    BY <2>1
  <2> QED
    BY <1>5, <2>6, <2>7 DEF TxOk, Succeeds, Adds
<1>6. TxEffect(db, tx)[o]
        = {tx[j].n : j \in {i \in 1..Len(tx) :
              i > last /\ tx[i].obj = o /\ tx[i].op \in {"add", "set"}}}
  BY <1>1, <1>2, <1>3 DEF TxEffect
<1> QED
  BY <1>5, <1>6

-----------------------------------------------------------------------------
(* How far an iteration is *)

\* The first method that has not been called yet.
Called(it) == IF at[it] \in {"call", "done"} THEN method[it] ELSE method[it] + 1

\* The handles returned so far and not used for a deletion since.
Kept(it) ==
    {o \in Objs : \E m \in 1..(method[it] - 1) :
        /\ o \in Program[it][m].gives
        /\ \A d \in (m + 1)..(Called(it) - 1) : o \notin Program[it][d].drops}

\* Nothing is asked for ahead of a call; the methods that returned are executed;
\* what is asked for is executed or waits; and the handles are what is kept.
ProgressOf(it) ==
    /\ IsPrefix(issued[it], Before(it, Called(it)))
    /\ Len(Before(it, method[it])) <= Len(committed[it])
    /\ Len(issued[it]) <= Len(committed[it]) + Len(cmds[it])
    /\ handles[it] = Kept(it)

Progress == \A it \in Iterations : ProgressOf(it)

\* A call to ssh.run() executes a transaction or leaves the database alone.
Transacts(it, tx) ==
    /\ TxOk(nb, tx) /\ nb' = TxEffect(nb, tx)
    /\ committed' = [committed EXCEPT ![it] = @ \o tx]

LEMMA SshRunExecutes ==
    ASSUME NEW it \in Iterations, NEW tx, NEW lines, SshRun(it, tx, lines)
    PROVE  UNCHANGED <<nb, committed>> \/ Transacts(it, tx)
BY DEF SshRun, Answered, Refused, LinkDown, AnswerLost, Transacts

\* So does every step, with a sequence of commands.
LEMMA StepExecutes ==
    ASSUME IInv, NEW it \in Iterations, Step(it)
    PROVE  \/ UNCHANGED <<nb, committed>>
           \/ \E tx \in Seq(Commands) : Transacts(it, tx)
<1>1. ASSUME Flush(it)
      PROVE  \/ UNCHANGED <<nb, committed>>
             \/ \E tx \in Seq(Commands) : Transacts(it, tx)
  <2>1. cmds[it] \in Seq(Commands)
    BY DEF IInv, TypeOK, ClientTypeOK
  <2> QED
    BY <1>1, <2>1, SshRunExecutes DEF Flush
<1>2. ASSUME NEW c \in Commands, Run(it, c)
      PROVE  \/ UNCHANGED <<nb, committed>>
             \/ \E tx \in Seq(Commands) : Transacts(it, tx)
  <2>1. <<c>> \in Seq(Commands)
    OBVIOUS
  <2> QED
    BY <1>2, <2>1, SshRunExecutes DEF Run, RunBatched, RunDirect
<1>3. CASE RunCommand(it)
  BY <1>2, <1>3, CommandTyped DEF RunCommand
<1>4. CASE SyncRun(it)
  BY <1>2, <1>4, SyncTyped DEF SyncRun, Run
<1>5. CASE EndItem(it)
  BY <1>1, <1>5 DEF EndItem
<1>6. CASE SyncFlush(it)
  BY <1>1, <1>6 DEF SyncFlush
<1>7. CASE Finish(it)
  BY <1>1, <1>7 DEF Finish, LastFlush, clientVars
<1>8. CASE Call(it) \/ Return(it)
  BY <1>8 DEF Call, Return, clientVars
<1> QED
  BY <1>3, <1>4, <1>5, <1>6, <1>7, <1>8 DEF Step

\* An exception leaves what was not executed in cmds.
LEMMA RaisedKeeps ==
    ASSUME IInv, NEW it \in Iterations, Step(it), ~raised[it],
           issued[it] = committed[it] \o cmds[it], raised'[it]
    PROVE  Len(issued'[it]) <= Len(committed'[it]) + Len(cmds'[it])
<1>1. /\ cmds \in [Iterations -> Seq(Commands)] /\ issued \in [Iterations -> Seq(Commands)]
      /\ committed \in [Iterations -> Seq(Commands)] /\ raised \in [Iterations -> BOOLEAN]
  BY DEF IInv, TypeOK, ClientTypeOK
<1>2. Len(issued[it]) = Len(committed[it]) + Len(cmds[it])
  BY <1>1
<1>3. ASSUME NEW tx \in Seq(Commands), NEW lines \in Seq(Commands), SshRun(it, tx, lines)
      PROVE  cmds'[it] = lines /\ Len(committed'[it]) >= Len(committed[it])
  <2>1. cmds' = [cmds EXCEPT ![it] = lines]
    BY <1>3 DEF SshRun, Answered
  <2>2. committed'[it] \in {committed[it], committed[it] \o tx}
    BY <1>1, <1>3 DEF SshRun, Answered, Refused, LinkDown, AnswerLost
  <2> QED
    BY <1>1, <2>1, <2>2
<1>4. ASSUME Flush(it)
      PROVE  Len(issued'[it]) <= Len(committed'[it]) + Len(cmds'[it])
  <2>1. cmds[it] # <<>> /\ SshRun(it, cmds[it], cmds[it]) /\ issued' = issued
    BY <1>4 DEF Flush
  <2>2. cmds'[it] = cmds[it] /\ Len(committed'[it]) >= Len(committed[it])
    BY <1>1, <1>3, <2>1
  <2>3. committed'[it] \in Seq(Commands)
    BY <1>1, <1>4, FlushEffect DEF IInv
  <2> QED
    BY <1>1, <1>2, <2>1, <2>2, <2>3
<1>5. ASSUME NEW c \in Commands, Run(it, c)
      PROVE  Len(issued'[it]) <= Len(committed'[it]) + Len(cmds'[it])
  <2>1. RunDirect(it, c)
    BY <1>5 DEF Run, RunBatched
  <2>2. /\ <<c>> \in Seq(Commands) /\ Append(cmds[it], c) \in Seq(Commands)
        /\ Len(Append(cmds[it], c)) = Len(cmds[it]) + 1
        /\ Len(Append(issued[it], c)) = Len(issued[it]) + 1
    BY <1>1
  <2>3. SshRun(it, <<c>>, Append(cmds[it], c)) /\ issued'[it] = Append(issued[it], c)
    BY <1>1, <2>1 DEF RunDirect
  <2>4. /\ cmds'[it] = Append(cmds[it], c)
        /\ Len(committed'[it]) >= Len(committed[it])
    BY <1>3, <2>2, <2>3
  <2>5. committed'[it] \in Seq(Commands)
    BY <1>5, RunEffect DEF IInv
  <2>6. Len(issued'[it]) = Len(issued[it]) + 1 /\ Len(cmds'[it]) = Len(cmds[it]) + 1
    BY <2>2, <2>3, <2>4
  <2>7. /\ Len(committed'[it]) \in Nat /\ Len(committed[it]) \in Nat
        /\ Len(cmds[it]) \in Nat /\ Len(issued[it]) \in Nat
    BY <1>1, <2>5
  <2>8. PICK i0 \in Nat, c0 \in Nat, w0 \in Nat, c1 \in Nat :
           i0 = Len(issued[it]) /\ c0 = Len(committed[it]) /\ w0 = Len(cmds[it])
           /\ c1 = Len(committed'[it])
    BY <2>7
  <2>9. i0 = c0 + w0 /\ c1 >= c0
    BY <1>2, <2>4, <2>8, Zenon
  <2>10. i0 + 1 <= c1 + (w0 + 1)
    BY <2>9
  <2> QED
    BY <2>6, <2>8, <2>10, Zenon
<1>6. CASE RunCommand(it)
  BY <1>5, <1>6, CommandTyped DEF RunCommand
<1>7. CASE SyncRun(it)
  BY <1>5, <1>7, SyncTyped DEF SyncRun, Run
<1>8. CASE EndItem(it)
  BY <1>4, <1>8 DEF EndItem
<1>9. CASE SyncFlush(it)
  BY <1>4, <1>9 DEF SyncFlush
<1>10. CASE Finish(it)
  BY <1>4, <1>10 DEF Finish, LastFlush, clientVars
<1>11. CASE Call(it) \/ Return(it)
  BY <1>11 DEF Call, Return, clientVars
<1> QED
  BY <1>6, <1>7, <1>8, <1>9, <1>10, <1>11 DEF Step

\* What was executed only grows.
LEMMA CommittedGrows ==
    ASSUME IInv, NEW it \in Iterations, Step(it)
    PROVE  Len(committed'[it]) \in Nat /\ Len(committed[it]) <= Len(committed'[it])
<1>1. committed \in [Iterations -> Seq(Commands)]
  BY DEF IInv, TypeOK, ClientTypeOK
<1>2. CASE UNCHANGED <<nb, committed>>
  BY <1>1, <1>2
<1>3. CASE \E tx \in Seq(Commands) : Transacts(it, tx)
  <2>1. PICK tx \in Seq(Commands) : committed' = [committed EXCEPT ![it] = @ \o tx]
    BY <1>3 DEF Transacts
  <2>2. committed'[it] = committed[it] \o tx /\ committed[it] \in Seq(Commands)
    BY <1>1, <2>1
  <2> QED
    BY <2>2
<1> QED
  BY <1>2, <1>3, StepExecutes

\* Later methods come after more commands.
LEMMA BeforeGrows ==
    ASSUME NEW it \in Iterations, NEW m \in 1..(Len(Program[it]) + 1),
           NEW n \in m..(Len(Program[it]) + 1)
    PROVE  Len(Before(it, m)) \in Nat /\ Len(Before(it, n)) \in Nat
           /\ Len(Before(it, m)) <= Len(Before(it, n))
<1> DEFINE N == Len(Program[it])
<1>1. Program[it] \in Seq(Methods) /\ N \in Nat
  BY ProgramAssumption
<1>2. \A k \in 1..(N + 1) : Before(it, k) \in Seq(Commands) /\ Len(Before(it, k)) \in Nat
  <2> SUFFICES ASSUME NEW k \in 1..(N + 1)
               PROVE  Before(it, k) \in Seq(Commands) /\ Len(Before(it, k)) \in Nat
    OBVIOUS
  <2>1. Before(it, k) \in Seq(Commands)
    BY BeforeMethod
  <2> QED
    BY <2>1
<1>3. ASSUME NEW k \in 1..N
      PROVE  Len(Before(it, k)) <= Len(Before(it, k + 1))
  <2>1. k \in 1..(N + 1) /\ k <= N
    BY <1>1
  <2>2. Before(it, k + 1) = Before(it, k) \o MethodCommands(Program[it][k])
    BY <2>1, BeforeMethod
  <2>3. MethodCommands(Program[it][k]) \in Seq(Commands)
    <3>1. Program[it][k] \in Methods
      BY <1>1
    <3> QED
      BY <3>1, MethodCommandsTyped
  <2>4. Before(it, k) \in Seq(Commands)
    BY <1>2, <2>1
  <2> QED
    BY <2>2, <2>3, <2>4
<1> DEFINE T == {d \in Nat : m + d <= N + 1 => Len(Before(it, m)) <= Len(Before(it, m + d))}
<1> HIDE DEF N
<1>4. m \in Nat /\ m >= 1 /\ m <= N + 1
  BY <1>1 DEF N
<1>5. 0 \in T
  <2>1. Len(Before(it, m)) \in Nat /\ m + 0 = m
    BY <1>2 DEF N
  <2> QED
    BY <2>1
<1>6. ASSUME NEW d \in Nat, d \in T
      PROVE  d + 1 \in T
  <2> SUFFICES ASSUME m + (d + 1) <= N + 1
               PROVE  Len(Before(it, m)) <= Len(Before(it, m + (d + 1)))
    OBVIOUS
  <2>1. m + d \in 1..N /\ (m + d) + 1 = m + (d + 1) /\ m + d <= N + 1
    BY <1>1, <1>4
  <2>2. Len(Before(it, m)) <= Len(Before(it, m + d))
    BY <1>6, <2>1
  <2>3. Len(Before(it, m + d)) <= Len(Before(it, m + (d + 1)))
    BY <1>3, <2>1
  <2>4. m \in 1..(N + 1) /\ m + d \in 1..(N + 1) /\ m + (d + 1) \in 1..(N + 1)
    BY <1>1, <1>4, <2>1
  <2>5. /\ Len(Before(it, m)) \in Nat /\ Len(Before(it, m + d)) \in Nat
        /\ Len(Before(it, m + (d + 1))) \in Nat
    BY <1>2, <2>4
  <2> QED
    BY <2>2, <2>3, <2>5
<1>7. Nat \subseteq T
  <2> HIDE DEF T
  <2> QED
    BY <1>5, <1>6, AllNumbers
<1>8. n - m \in Nat /\ m + (n - m) = n /\ n <= N + 1
  BY <1>1, <1>4 DEF N
<1>9. n - m \in T
  BY <1>7, <1>8
<1>10. Len(Before(it, m)) <= Len(Before(it, n))
  BY <1>8, <1>9
<1> QED
  BY <1>2, <1>10 DEF N

\* Where the methods of a step are.
LEMMA MethodsAround ==
    ASSUME IInv, Cursor, NEW it \in Iterations
    PROVE  /\ Program[it] \in Seq(Methods) /\ Len(Program[it]) \in Nat
           /\ method[it] \in 1..(Len(Program[it]) + 1)
           /\ Called(it) \in method[it]..(Len(Program[it]) + 1)
           /\ at[it] \notin {"call", "done"} => method[it] \in 1..Len(Program[it])
<1>1. Program[it] \in Seq(Methods) /\ Len(Program[it]) \in Nat
  BY ProgramAssumption
<1>2. method[it] \in 1..(Len(Program[it]) + 1)
  BY <1>1 DEF IInv, TypeOK, LoopInv, Cursor, CursorOf
<1>3. at[it] \notin {"call", "done"} => method[it] \in 1..Len(Program[it])
  BY <1>1 DEF IInv, LoopInv
<1> QED
  BY <1>1, <1>2, <1>3 DEF Called

\* The step of a method's start, and of its end.
LEMMA CalledStep ==
    ASSUME IInv, Cursor, NEW it \in Iterations, Step(it)
    PROVE  \/ /\ Call(it) /\ Called(it) = method[it] /\ Called(it)' = method[it] + 1
              /\ method'[it] = method[it] /\ method[it] \in 1..Len(Program[it])
              /\ handles'[it] = handles[it] \ M(it).drops /\ issued' = issued
           \/ /\ Finish(it) /\ ~raised'[it] /\ Called(it) = method[it] + 1
              /\ Called(it)' = Called(it) /\ at'[it] = "call"
              /\ method'[it] = method[it] + 1 /\ method[it] \in 1..Len(Program[it])
              /\ handles'[it] = handles[it] \cup M(it).gives /\ issued' = issued
           \/ /\ Called(it)' = Called(it) /\ method'[it] = method[it]
              /\ handles'[it] = handles[it]
              /\ issued' = issued \/ RunCommand(it) \/ SyncRun(it)
<1> USE DEF IInv, TypeOK, ClientTypeOK
<1>1. CASE Call(it)
  <2>1. /\ at[it] = "call" /\ at'[it] \in {"run", "sync", "finish"} /\ method' = method
        /\ issued' = issued /\ handles'[it] = handles[it] \ M(it).drops
    BY <1>1 DEF Call, Go, AfterItems
  <2>2. method[it] \in 1..Len(Program[it])
    BY <1>1, MethodsAround DEF Call
  <2> QED
    BY <1>1, <2>1, <2>2 DEF Called
<1>2. CASE RunCommand(it)
  <2>1. /\ at[it] = "run" /\ at'[it] \in {"run", "itemEnd"} /\ method' = method
        /\ handles' = handles
    BY <1>2 DEF RunCommand, Go
  <2> QED
    BY <1>2, <2>1 DEF Called
<1>3. CASE EndItem(it)
  <2>1. /\ at[it] = "itemEnd" /\ at'[it] \in {"run", "sync", "finish"} /\ method' = method
        /\ handles' = handles /\ issued' = issued
    BY <1>3 DEF EndItem, Go, AfterItems, Flush
  <2> QED
    BY <2>1 DEF Called
<1>4. CASE SyncFlush(it)
  <2>1. /\ at[it] = "sync" /\ at'[it] = "syncRun" /\ method' = method
        /\ handles' = handles /\ issued' = issued
    BY <1>4 DEF SyncFlush, Go, Flush, loopVars
  <2> QED
    BY <2>1 DEF Called
<1>5. CASE SyncRun(it)
  <2>1. /\ at[it] = "syncRun" /\ at'[it] = "finish" /\ method' = method
        /\ handles' = handles
    BY <1>5 DEF SyncRun, Go, loopVars
  <2> QED
    BY <1>5, <2>1 DEF Called
<1>6. CASE Finish(it)
  <2>1. at[it] = "finish" /\ issued' = issued
    BY <1>6 DEF Finish, LastFlush, Flush, clientVars
  <2>2. CASE raised'[it]
    <3>1. at' = at /\ method' = method /\ handles' = handles
      BY <1>6, <2>2 DEF Finish
    <3> QED
      BY <2>1, <3>1 DEF Called
  <2>3. CASE ~raised'[it]
    <3>1. /\ at'[it] = "call" /\ method'[it] = method[it] + 1
          /\ handles'[it] = handles[it] \cup M(it).gives
      BY <1>6, <2>3 DEF Finish, Go
    <3>2. method[it] \in 1..Len(Program[it])
      BY <2>1, MethodsAround
    <3> QED
      BY <1>6, <2>1, <2>3, <3>1, <3>2 DEF Called
  <2> QED
    BY <2>2, <2>3
<1>7. CASE Return(it)
  <2>1. /\ at[it] = "call" /\ at'[it] = "done" /\ method' = method
        /\ handles' = handles /\ issued' = issued
    BY <1>7 DEF Return, Go, loopVars, clientVars
  <2> QED
    BY <2>1 DEF Called
<1> QED
  BY <1>1, <1>2, <1>3, <1>4, <1>5, <1>6, <1>7 DEF Step

LEMMA AskedStep ==
    ASSUME IInv, Cursor, NEW it \in Iterations, Step(it),
           IsPrefix(issued[it], Before(it, Called(it)))
    PROVE  IsPrefix(issued'[it], Before(it, Called(it)'))
<1>1. /\ method[it] \in 1..(Len(Program[it]) + 1)
      /\ at[it] \notin {"call", "done"} => method[it] \in 1..Len(Program[it])
      /\ Len(Program[it]) \in Nat
  BY MethodsAround
<1>2. issued[it] \in Seq(Commands)
  BY DEF IInv, TypeOK, ClientTypeOK
<1>3. ASSUME method[it] \in 1..Len(Program[it])
      PROVE  /\ Before(it, method[it]) \in Seq(Commands)
             /\ Before(it, method[it] + 1) \in Seq(Commands)
             /\ MethodCommands(M(it)) \in Seq(Commands)
             /\ Before(it, method[it] + 1) = Before(it, method[it]) \o MethodCommands(M(it))
  <2>1. method[it] + 1 \in 1..(Len(Program[it]) + 1) /\ method[it] <= Len(Program[it])
    BY <1>1, <1>3
  <2>2. MethodCommands(M(it)) \in Seq(Commands)
    <3>1. method[it] \in DOMAIN Program[it]
      BY <1>3, ProgramAssumption
    <3> QED
      BY <3>1, MethodTyped, MethodCommandsTyped
  <2> QED
    BY <1>1, <2>1, <2>2, BeforeMethod DEF M
<1>4. CASE issued' = issued /\ Called(it)' = Called(it)
  BY <1>4
<1>5. CASE issued' = issued /\ Called(it) = method[it] /\ Called(it)' = method[it] + 1
           /\ method[it] \in 1..Len(Program[it])
  <2>1. PICK b \in Seq(Commands) : b = Before(it, method[it])
    BY <1>3, <1>5
  <2>2. PICK n \in Seq(Commands) : n = Before(it, method[it] + 1)
    BY <1>3, <1>5
  <2>3. IsPrefix(b, n)
    BY <1>3, <1>5, <2>1, <2>2, PrefixOfConcat
  <2>4. IsPrefix(issued[it], n)
    BY <1>2, <1>5, <2>1, <2>3, PrefixTransitive
  <2> QED
    BY <1>5, <2>2, <2>4
<1>6. CASE RunCommand(it) /\ Called(it)' = Called(it)
  <2>1. at[it] = "run" /\ method[it] \in 1..Len(Program[it]) /\ Called(it) = method[it] + 1
    BY <1>1, <1>6 DEF RunCommand, Called
  <2>2. PICK w \in Seq(Commands) :
           issued'[it] = Before(it, method[it]) \o w /\ IsPrefix(w, MethodCommands(M(it)))
    BY <1>6, RunCommandIssues
  <2>3. IsPrefix(Before(it, method[it]) \o w, Before(it, method[it]) \o MethodCommands(M(it)))
    BY <1>3, <2>1, <2>2, PrefixAfter
  <2> QED
    BY <1>3, <1>6, <2>1, <2>2, <2>3
<1>7. CASE SyncRun(it) /\ Called(it)' = Called(it)
  <2>1. at[it] = "syncRun" /\ method[it] \in 1..Len(Program[it]) /\ Called(it) = method[it] + 1
    BY <1>1, <1>7 DEF SyncRun, Called
  <2>2. issued'[it] = Before(it, method[it]) \o MethodCommands(M(it))
    BY <1>7, SyncRunCursor DEF Cursor
  <2>3. issued'[it] = Before(it, Called(it)')
    BY <1>3, <1>7, <2>1, <2>2
  <2>4. IsPrefix(Before(it, method[it] + 1), Before(it, method[it] + 1))
    BY <1>3, <2>1 DEF IsPrefix
  <2> QED
    BY <1>7, <2>1, <2>3, <2>4
<1> QED
  BY <1>4, <1>5, <1>6, <1>7, CalledStep

LEMMA DoneStep ==
    ASSUME IInv, IInv', Cursor, Cursor', ExecutedOrWaiting', NEW it \in Iterations, Step(it),
           Len(Before(it, method[it])) <= Len(committed[it])
    PROVE  Len(Before(it, method'[it])) <= Len(committed'[it])
<1>1. /\ Len(committed'[it]) \in Nat /\ Len(committed[it]) \in Nat
      /\ Len(committed[it]) <= Len(committed'[it])
  <2>1. committed[it] \in Seq(Commands)
    BY DEF IInv, TypeOK, ClientTypeOK
  <2> QED
    BY <2>1, CommittedGrows
<1>2. CASE method'[it] = method[it]
  <2>1. Len(Before(it, method[it])) \in Nat
    <3>1. method[it] \in 1..(Len(Program[it]) + 1)
      BY MethodsAround
    <3>2. Before(it, method[it]) \in Seq(Commands)
      BY <3>1, BeforeMethod
    <3> QED
      BY <3>2
  <2> QED
    BY <1>1, <1>2, <2>1
<1>3. CASE at'[it] = "call" /\ ~raised'[it]
  <2>1. cmds'[it] = <<>>
    BY <1>3 DEF IInv, ModeInv
  <2>2. issued'[it] = Before(it, method'[it]) \o <<>>
    BY <1>3 DEF Cursor, CursorOf, AskedInMethod
  <2>3. PICK b \in Seq(Commands) : b = Before(it, method'[it])
    <3>1. method'[it] \in 1..(Len(Program[it]) + 1)
      <4>1. Len(Program[it]) \in Nat
        BY ProgramAssumption
      <4>2. method'[it] \in Nat /\ method'[it] >= 1 /\ method'[it] <= Len(Program[it]) + 1
        BY DEF IInv, TypeOK, LoopInv, Cursor, CursorOf
      <4> QED
        BY <4>1, <4>2
    <3> QED
      BY <3>1, BeforeMethod
  <2>4. PICK c \in Seq(Commands) : c = committed'[it]
    BY DEF IInv, TypeOK, ClientTypeOK
  <2>5. issued'[it] = c \o <<>>
    BY <1>3, <2>1, <2>4 DEF ExecutedOrWaiting
  <2>6. c \o <<>> = c /\ b \o <<>> = b
    OBVIOUS
  <2>7. b = c
    BY <2>2, <2>3, <2>5, <2>6
  <2> QED
    BY <1>1, <2>3, <2>4, <2>7
<1> QED
  BY <1>2, <1>3, CalledStep

LEMMA MissingStep ==
    ASSUME IInv, IInv', ExecutedOrWaiting, ExecutedOrWaiting', NEW it \in Iterations, Step(it),
           Len(issued[it]) <= Len(committed[it]) + Len(cmds[it])
    PROVE  Len(issued'[it]) <= Len(committed'[it]) + Len(cmds'[it])
<1>1. CASE ~raised'[it]
  <2>1. issued'[it] = committed'[it] \o cmds'[it]
    BY <1>1 DEF ExecutedOrWaiting
  <2>2. PICK c \in Seq(Commands), w \in Seq(Commands) : c = committed'[it] /\ w = cmds'[it]
    BY DEF IInv, TypeOK, ClientTypeOK
  <2>3. Len(c \o w) = Len(c) + Len(w) /\ Len(c) \in Nat /\ Len(w) \in Nat
    OBVIOUS
  <2> QED
    BY <2>1, <2>2, <2>3
<1>2. CASE raised'[it] /\ ~raised[it]
  BY <1>2, RaisedKeeps DEF ExecutedOrWaiting
<1>3. CASE raised[it]
  <2>1. at[it] # "call"
    BY <1>3 DEF IInv, ModeInv
  <2> QED
    BY <1>3, <2>1 DEF Step, Call, RunCommand, EndItem, SyncFlush, SyncRun, Finish, Return
<1> QED
  BY <1>1, <1>2, <1>3

LEMMA KeptStep ==
    ASSUME IInv, Cursor, NEW it \in Iterations, Step(it), handles[it] = Kept(it)
    PROVE  handles'[it] = Kept(it)'
<1>1. /\ Len(Program[it]) \in Nat /\ method[it] \in 1..(Len(Program[it]) + 1)
      /\ Called(it) \in method[it]..(Len(Program[it]) + 1)
  BY MethodsAround
<1>2. Kept(it)' = {o \in Objs : \E m \in 1..(method'[it] - 1) :
                     /\ o \in Program[it][m].gives
                     /\ \A d \in (m + 1)..(Called(it)' - 1) : o \notin Program[it][d].drops}
  BY DEF Kept
<1>3. CASE Called(it)' = Called(it) /\ method'[it] = method[it] /\ handles'[it] = handles[it]
  BY <1>2, <1>3 DEF Kept
<1>4. CASE /\ Called(it) = method[it] /\ Called(it)' = method[it] + 1
           /\ method'[it] = method[it] /\ method[it] \in 1..Len(Program[it])
           /\ handles'[it] = handles[it] \ M(it).drops
  <2>1. \A m \in 1..(method[it] - 1) : \A d :
           d \in (m + 1)..(Called(it)' - 1) <=> d \in (m + 1)..(Called(it) - 1) \/ d = method[it]
    BY <1>1, <1>4
  <2>2. \A o : o \in Kept(it)' <=> o \in Kept(it) /\ o \notin Program[it][method[it]].drops
    <3> SUFFICES ASSUME NEW o
                 PROVE  o \in Kept(it)' <=> o \in Kept(it) /\ o \notin Program[it][method[it]].drops
      OBVIOUS
    <3>1. \A m \in 1..(method[it] - 1) :
             (\A d \in (m + 1)..(Called(it)' - 1) : o \notin Program[it][d].drops)
                <=> /\ \A d \in (m + 1)..(Called(it) - 1) : o \notin Program[it][d].drops
                    /\ o \notin Program[it][method[it]].drops
      BY <2>1, Zenon
    <3> QED
      BY <1>2, <1>4, <3>1 DEF Kept
  <2> QED
    BY <1>4, <2>2 DEF M
<1>5. CASE /\ Called(it) = method[it] + 1 /\ Called(it)' = Called(it)
           /\ method'[it] = method[it] + 1 /\ method[it] \in 1..Len(Program[it])
           /\ handles'[it] = handles[it] \cup M(it).gives
  <2>1. \A m : m \in 1..(method'[it] - 1) <=> m \in 1..(method[it] - 1) \/ m = method[it]
    BY <1>1, <1>5
  <2>2. \A d \in (method[it] + 1)..(Called(it) - 1) : FALSE
    BY <1>1, <1>5
  <2>3. M(it).gives \subseteq Objs
    <3>1. method[it] \in DOMAIN Program[it]
      BY <1>5, ProgramAssumption
    <3>2. M(it) \in Methods
      BY <3>1, MethodTyped
    <3> QED
      BY <3>2 DEF Methods
  <2>4. \A o : o \in Kept(it)' <=> o \in Kept(it) \/ o \in M(it).gives
    BY <1>2, <1>5, <2>1, <2>2, <2>3 DEF Kept, M
  <2> QED
    BY <1>5, <2>4
<1> QED
  BY <1>3, <1>4, <1>5, CalledStep

LEMMA StepProgress ==
    ASSUME IInv, IInv', Cursor, Cursor', ExecutedOrWaiting, ExecutedOrWaiting',
           Progress, NEW it \in Iterations, Step(it)
    PROVE  Progress'
<1>1. ProgressOf(it)'
  <2>1. /\ IsPrefix(issued[it], Before(it, Called(it)))
        /\ Len(Before(it, method[it])) <= Len(committed[it])
        /\ Len(issued[it]) <= Len(committed[it]) + Len(cmds[it])
        /\ handles[it] = Kept(it)
    BY DEF Progress, ProgressOf
  <2> QED
    BY <2>1, AskedStep, DoneStep, MissingStep, KeptStep DEF ProgressOf
<1>2. ASSUME NEW j \in Iterations, j # it
      PROVE  ProgressOf(j)'
  <2>1. /\ at'[j] = at[j] /\ method'[j] = method[j] /\ cmds'[j] = cmds[j]
        /\ issued'[j] = issued[j] /\ committed'[j] = committed[j]
    BY <1>2, StepOthers DEF IInv
  <2>2. handles'[j] = handles[j]
    <3>1. \/ \E h : handles' = [handles EXCEPT ![it] = h]
          \/ handles' = handles
      BY DEF Step, Call, RunCommand, EndItem, SyncFlush, SyncRun, Finish, Return, loopVars
    <3> QED
      BY <1>2, <3>1 DEF IInv, TypeOK
  <2>3. Called(j)' = Called(j)
    BY <2>1 DEF Called
  <2>4. Kept(j)' = Kept(j)
    BY <2>1, <2>3 DEF Kept
  <2> QED
    BY <2>1, <2>2, <2>3, <2>4 DEF Progress, ProgressOf
<1> QED
  BY <1>1, <1>2 DEF Progress

LEMMA ProgressInvariance == Spec => []Progress
<1>1. Init => Progress
  <2> SUFFICES ASSUME Init, NEW it \in Iterations PROVE ProgressOf(it)
    BY DEF Progress
  <2>1. /\ method[it] = 1 /\ at[it] = "call" /\ issued[it] = <<>> /\ committed[it] = <<>>
        /\ cmds[it] = <<>> /\ handles[it] = {}
    BY DEF Init, ClientInit
  <2>2. Called(it) = 1 /\ Kept(it) = {}
    BY <2>1 DEF Called, Kept
  <2>3. Before(it, 1) = <<>>
    BY FlattenEmpty DEF Before
  <2>4. Len(<<>>) = 0
    OBVIOUS
  <2>5. IsPrefix(<<>>, <<>>)
    BY DEF IsPrefix
  <2> QED
    BY <2>1, <2>2, <2>3, <2>4, <2>5 DEF ProgressOf
<1>2. IInv /\ IInv' /\ Cursor /\ Cursor' /\ ExecutedOrWaiting /\ ExecutedOrWaiting'
      /\ Progress /\ [Next]_vars => Progress'
  <2>1. CASE Next
    BY <2>1, StepProgress DEF Next
  <2>2. CASE UNCHANGED vars
    <3> SUFFICES ASSUME Progress, UNCHANGED vars, NEW it \in Iterations PROVE ProgressOf(it)'
      BY <2>2 DEF Progress
    <3>1. UNCHANGED <<at, method, cmds, issued, committed, handles>>
      BY DEF vars, clientVars, loopVars
    <3>2. Called(it)' = Called(it)
      BY <3>1 DEF Called
    <3>3. Kept(it)' = Kept(it)
      BY <3>1, <3>2 DEF Kept
    <3> QED
      BY <3>1, <3>2, <3>3 DEF Progress, ProgressOf
  <2> QED
    BY <2>1, <2>2
<1> QED
  BY <1>1, <1>2, Invariance, CursorInvariance, LedgerInvariance, PTL DEF Spec

-----------------------------------------------------------------------------
(* Whose objects are in the database *)

\* What was executed is the beginning of what the scenario asks for.
Begun == \A it \in Iterations :
    /\ committed[it] \in Seq(Commands) /\ AskedOf[it] \in Seq(Commands)
    /\ IsPrefix(committed[it], issued[it]) /\ IsPrefix(committed[it], AskedOf[it])
    /\ Len(issued[it]) <= Len(Before(it, Called(it)))

LEMMA BegunAlways == Spec => []Begun
<1>1. IInv /\ Cursor /\ ExecutedOrWaiting /\ Progress => Begun
  <2> SUFFICES ASSUME IInv, Cursor, ExecutedOrWaiting, Progress, NEW it \in Iterations
               PROVE  /\ committed[it] \in Seq(Commands) /\ AskedOf[it] \in Seq(Commands)
                      /\ IsPrefix(committed[it], issued[it])
                      /\ IsPrefix(committed[it], AskedOf[it])
                      /\ Len(issued[it]) <= Len(Before(it, Called(it)))
    BY DEF Begun
  <2>1. /\ committed[it] \in Seq(Commands) /\ issued[it] \in Seq(Commands)
        /\ cmds[it] \in Seq(Commands)
    BY DEF IInv, TypeOK, ClientTypeOK
  <2>2. IsPrefix(committed[it], issued[it])
    <3>1. CASE issued[it] = committed[it] \o cmds[it]
      BY <2>1, <3>1, PrefixOfConcat
    <3>2. CASE \E k \in 0..Len(issued[it]) : committed[it] = SubSeq(issued[it], 1, k)
      BY <2>1, <3>2, PrefixSubSeq
    <3> QED
      BY <3>1, <3>2 DEF ExecutedOrWaiting
  <2>3. Called(it) \in 1..(Len(Program[it]) + 1)
    BY MethodsAround
  <2>4. PICK b \in Seq(Commands) : b = Before(it, Called(it))
    BY <2>3, BeforeMethod
  <2>5. AskedOf[it] \in Seq(Commands) /\ IsPrefix(b, AskedOf[it])
    BY <2>3, <2>4, BeforeMethod
  <2>6. IsPrefix(issued[it], b)
    BY <2>4 DEF Progress, ProgressOf
  <2>7. IsPrefix(committed[it], b)
    BY <2>1, <2>2, <2>4, <2>6, PrefixTransitive
  <2>8. IsPrefix(committed[it], AskedOf[it])
    BY <2>1, <2>4, <2>5, <2>7, PrefixTransitive
  <2>9. Len(issued[it]) \in 0..Len(b)
    BY <2>1, <2>4, <2>6, PrefixTyped
  <2> QED
    BY <2>1, <2>2, <2>4, <2>5, <2>8, <2>9
<1> QED
  BY <1>1, Invariance, CursorInvariance, LedgerInvariance, ProgressInvariance, PTL

\* Everything that an iteration has created and not deleted is in the database
\* with all it wrote to it, and is nobody else's.
OwnInv ==
    /\ \A it \in Iterations : Holds(nb, committed[it])
    /\ \A i, j \in Iterations : i # j => Live(committed[i]) \cap Live(committed[j]) = {}

LEMMA KeepsSoFar ==
    ASSUME SelfContained, Begun, NEW it \in Iterations
    PROVE  committed[it] \in Seq(Commands) /\ KeepsToItsOwn(committed[it])
<1>1. /\ committed[it] \in Seq(Commands) /\ AskedOf[it] \in Seq(Commands)
      /\ IsPrefix(committed[it], AskedOf[it])
  BY DEF Begun
<1>2. KeepsToItsOwn(AskedOf[it])
  BY DEF SelfContained
<1> QED
  BY <1>1, <1>2, PrefixKeeps

LEMMA OwnStep ==
    ASSUME SelfContained, IInv, Begun, Begun', OwnInv, NEW it \in Iterations, Step(it)
    PROVE  OwnInv'
<1>1. CASE UNCHANGED <<nb, committed>>
  BY <1>1 DEF OwnInv
<1>2. CASE \E tx \in Seq(Commands) : Transacts(it, tx)
  <2>1. PICK tx \in Seq(Commands) : Transacts(it, tx)
    BY <1>2
  <2>2. /\ nb \in Contents /\ TxOk(nb, tx) /\ nb' = TxEffect(nb, tx)
        /\ committed'[it] = committed[it] \o tx
        /\ \A j \in Iterations \ {it} : committed'[j] = committed[j]
    BY <2>1 DEF Transacts, IInv, TypeOK, ClientTypeOK
  <2>3. PICK c \in Seq(Commands) : c = committed[it]
    BY KeepsSoFar
  <2>4. KeepsToItsOwn(c \o tx)
    <3>1. /\ committed'[it] \in Seq(Commands) /\ AskedOf[it] \in Seq(Commands)
          /\ IsPrefix(committed'[it], AskedOf[it])
      BY DEF Begun
    <3>2. KeepsToItsOwn(AskedOf[it])
      BY DEF SelfContained
    <3> QED
      BY <2>2, <2>3, <3>1, <3>2, PrefixKeeps
  <2>5. Holds(TxEffect(nb, tx), c \o tx)
    BY <2>2, <2>3, <2>4, OwnAfter DEF OwnInv
  <2>6. ASSUME NEW j \in Iterations, j # it
        PROVE  /\ Holds(TxEffect(nb, tx), committed[j])
               /\ Live(c \o tx) \cap Live(committed[j]) = {}
    <3>1. PICK d \in Seq(Commands) : d = committed[j] /\ KeepsToItsOwn(d)
      BY KeepsSoFar
    <3>2. Live(c) \cap Live(d) = {} /\ Holds(nb, d)
      BY <2>3, <2>6, <3>1 DEF OwnInv
    <3> QED
      BY <2>2, <2>4, <3>1, <3>2, OthersAfter
  <2>7. \A j \in Iterations : Holds(nb', committed'[j])
    BY <2>2, <2>3, <2>5, <2>6
  <2>8. \A i, j \in Iterations : i # j => Live(committed'[i]) \cap Live(committed'[j]) = {}
    <3> SUFFICES ASSUME NEW i \in Iterations, NEW j \in Iterations, i # j
                 PROVE  Live(committed'[i]) \cap Live(committed'[j]) = {}
      OBVIOUS
    <3>1. CASE i = it
      BY <2>2, <2>3, <2>6, <3>1
    <3>2. CASE j = it
      BY <2>2, <2>3, <2>6, <3>2
    <3>3. CASE i # it /\ j # it
      BY <2>2, <3>3 DEF OwnInv
    <3> QED
      BY <3>1, <3>2, <3>3
  <2> QED
    BY <2>7, <2>8 DEF OwnInv
<1> QED
  BY <1>1, <1>2, StepExecutes

LEMMA OwnInvariance ==
    ASSUME SelfContained
    PROVE  Spec => []OwnInv
<1>1. Init => OwnInv
  <2> SUFFICES ASSUME Init PROVE OwnInv
    OBVIOUS
  <2>1. \A it \in Iterations : committed[it] = <<>>
    BY DEF Init, ClientInit
  <2>2. Live(<<>>) = {}
    BY DEF Live, Added
  <2> QED
    BY <2>1, <2>2 DEF OwnInv, Holds
<1>2. IInv /\ Begun /\ Begun' /\ OwnInv /\ [Next]_vars => OwnInv'
  <2>1. CASE Next
    BY <2>1, OwnStep DEF Next
  <2>2. CASE UNCHANGED vars
    BY <2>2 DEF vars, clientVars, OwnInv
  <2> QED
    BY <2>1, <2>2
<1> QED
  BY <1>1, <1>2, Invariance, BegunAlways, PTL DEF Spec

\* What an iteration has the handle of it has created and not deleted.
LEMMA HandlesLive ==
    ASSUME SelfContained, IInv, Cursor, Progress, Begun, NEW it \in Iterations, NEW o \in handles[it]
    PROVE  o \in Live(committed[it])
<1>1. /\ Program[it] \in Seq(Methods) /\ Len(Program[it]) \in Nat
      /\ method[it] \in 1..(Len(Program[it]) + 1)
      /\ Called(it) \in method[it]..(Len(Program[it]) + 1)
  BY MethodsAround
<1>2. PICK m \in 1..(method[it] - 1) :
         /\ o \in Program[it][m].gives
         /\ \A d \in (m + 1)..(Called(it) - 1) : o \notin Program[it][d].drops
  BY DEF Progress, ProgressOf, Kept
<1>3. o \in Objs
  BY DEF Progress, ProgressOf, Kept
<1>4. m \in DOMAIN Program[it] /\ m + 1 \in 1..(Len(Program[it]) + 1)
      /\ method[it] \in (m + 1)..(Len(Program[it]) + 1)
  BY <1>1, <1>2
<1>5. PICK s \in Seq(Commands) : s = AskedOf[it]
  BY DEF Begun
<1>6. PICK c \in Seq(Commands) : c = committed[it]
  BY DEF Begun
<1>7. /\ \E k \in 1..Len(Before(it, m + 1)) : Adds(s[k], o)
      /\ \A k \in DOMAIN s : Removes(s[k], o) =>
            \E d \in (m + 1)..Len(Program[it]) :
                o \in Program[it][d].drops /\ k > Len(Before(it, d))
  BY <1>2, <1>4, <1>5 DEF SelfContained, HandlesKept
<1>8. /\ Len(c) \in 0..Len(s) /\ c = SubSeq(s, 1, Len(c)) /\ DOMAIN c = 1..Len(c)
      /\ \A k \in 1..Len(c) : c[k] = s[k] /\ k \in DOMAIN s
  <2>1. IsPrefix(c, s)
    BY <1>5, <1>6 DEF Begun
  <2>2. Len(c) \in 0..Len(s) /\ c = SubSeq(s, 1, Len(c))
    BY <2>1, PrefixTyped
  <2> QED
    BY <2>2
<1>9. Added(c, o)
  <2>1. PICK k \in 1..Len(Before(it, m + 1)) : Adds(s[k], o)
    BY <1>7
  <2>2. /\ Len(Before(it, m + 1)) \in Nat /\ Len(Before(it, method[it])) \in Nat
        /\ Len(Before(it, m + 1)) <= Len(Before(it, method[it]))
    BY <1>4, BeforeGrows
  <2>3. Len(Before(it, method[it])) <= Len(c)
    BY <1>6 DEF Progress, ProgressOf
  <2>4. k \in 1..Len(c)
    BY <1>8, <2>2, <2>3
  <2> QED
    BY <1>8, <2>1, <2>4 DEF Added
<1>10. ASSUME NEW k \in 1..Len(c), Removes(c[k], o)
       PROVE  FALSE
  <2>1. PICK d \in (m + 1)..Len(Program[it]) :
           o \in Program[it][d].drops /\ k > Len(Before(it, d))
    BY <1>7, <1>8, <1>10
  <2>2. d \notin (m + 1)..(Called(it) - 1)
    BY <1>2, <2>1
  <2>3. Called(it) \in 1..(Len(Program[it]) + 1) /\ d \in Called(it)..(Len(Program[it]) + 1)
    BY <1>1, <1>4, <2>1, <2>2
  <2>4. /\ Len(Before(it, Called(it))) \in Nat /\ Len(Before(it, d)) \in Nat
        /\ Len(Before(it, Called(it))) <= Len(Before(it, d))
    BY <2>3, BeforeGrows
  <2>5. PICK i \in Seq(Commands) : i = issued[it]
    BY DEF IInv, TypeOK, ClientTypeOK
  <2>6. Len(c) \in 0..Len(i)
    <3>1. IsPrefix(c, i)
      BY <1>6, <2>5 DEF Begun
    <3> QED
      BY <3>1, PrefixTyped
  <2>7. Len(i) <= Len(Before(it, Called(it))) /\ Len(i) \in Nat
    BY <2>5 DEF Begun
  <2> QED
    BY <2>1, <2>4, <2>6, <2>7
<1> QED
  BY <1>3, <1>6, <1>8, <1>9, <1>10 DEF Live, Removed

\* No two iterations ever hold the handle of one object, even when they ask for
\* the same names: the database refuses the second to create it, and a
\* scenario that deletes only what it has created never deletes another's
\* (_create_lswitches, _delete_lswitch, ...).
THEOREM HandlesHaveOneOwner ==
    ASSUME SelfContained
    PROVE  Spec => []OneOwner
<1>1. IInv /\ Cursor /\ Progress /\ Begun /\ OwnInv => OneOwner
  <2> SUFFICES ASSUME IInv, Cursor, Progress, Begun, OwnInv,
                      NEW i \in Iterations, NEW j \in Iterations, i # j,
                      NEW o, o \in handles[i], o \in handles[j]
               PROVE  FALSE
    BY DEF OneOwner
  <2>1. o \in Live(committed[i]) /\ o \in Live(committed[j])
    BY HandlesLive
  <2> QED
    BY <2>1 DEF OwnInv
<1> QED
  BY <1>1, Invariance, CursorInvariance, ProgressInvariance, BegunAlways, OwnInvariance, PTL

\* A handle stands for an object that is in the database, with everything the
\* iteration wrote to it and does not still hold back for flush(), whatever
\* other iterations do (_OvnNbctl.run, flush; the methods of ovn.py).
THEOREM HandlesAreComplete ==
    ASSUME SelfContained
    PROVE  Spec => []HandlesComplete
<1>1. IInv /\ Cursor /\ Progress /\ Begun /\ OwnInv => HandlesComplete
  <2> SUFFICES ASSUME IInv, Cursor, Progress, Begun, OwnInv,
                      NEW it \in Iterations, NEW o \in handles[it]
               PROVE  /\ nb[o] # {}
                      /\ \A k \in 1..(Len(issued[it]) - Len(cmds[it])) :
                            LET c == issued[it][k]
                            IN  c.obj = o /\ c.op \in {"add", "set"} => c.n \in nb[o]
    BY DEF HandlesComplete
  <2>1. o \in Live(committed[it]) /\ Holds(nb, committed[it])
    BY HandlesLive DEF OwnInv
  <2>2. PICK c \in Seq(Commands) : c = committed[it]
    BY DEF Begun
  <2>3. PICK i \in Seq(Commands) : i = issued[it]
    BY DEF IInv, TypeOK, ClientTypeOK
  <2>4. PICK w \in Seq(Commands) : w = cmds[it]
    BY DEF IInv, TypeOK, ClientTypeOK
  <2>5. Len(c) \in 0..Len(i) /\ c = SubSeq(i, 1, Len(c))
    <3>1. IsPrefix(c, i)
      BY <2>2, <2>3 DEF Begun
    <3> QED
      BY <3>1, PrefixTyped
  <2>6. Len(i) <= Len(c) + Len(w)
    BY <2>2, <2>3, <2>4 DEF Progress, ProgressOf
  <2>7. ASSUME NEW k \in 1..(Len(i) - Len(w))
        PROVE  k \in DOMAIN c /\ i[k] = c[k]
    <3>1. Len(i) \in Nat /\ Len(c) \in Nat /\ Len(w) \in Nat
      OBVIOUS
    <3>2. k \in 1..Len(c)
      BY <2>6, <3>1
    <3> QED
      BY <2>5, <3>2
  <2>8. ASSUME NEW k \in 1..(Len(i) - Len(w)), i[k].obj = o, i[k].op \in {"add", "set"}
        PROVE  i[k].n \in nb[o]
    <3>1. k \in DOMAIN c /\ Writes(c[k], o) /\ i[k] = c[k]
      BY <2>7, <2>8 DEF Writes
    <3> QED
      BY <2>1, <2>2, <3>1 DEF Holds
  <2> QED
    BY <2>1, <2>3, <2>4, <2>8 DEF Holds
<1> QED
  BY <1>1, Invariance, CursorInvariance, ProgressInvariance, BegunAlways, OwnInvariance, PTL

-----------------------------------------------------------------------------
(* What an iteration leaves behind *)

\* What an iteration has created and deleted is not in the database.
GoneInv ==
    \A it \in Iterations : \A o \in Objs :
        Added(committed[it], o) /\ Removed(committed[it], o) => nb[o] = {}

LEMMA GoneStep ==
    ASSUME SelfContained, NamesApart, IInv, Begun, Begun', GoneInv,
           NEW it \in Iterations, Step(it)
    PROVE  GoneInv'
<1>1. CASE UNCHANGED <<nb, committed>>
  BY <1>1 DEF GoneInv
<1>2. CASE \E tx \in Seq(Commands) : Transacts(it, tx)
  <2>1. PICK tx \in Seq(Commands) : Transacts(it, tx)
    BY <1>2
  <2>2. /\ nb \in Contents /\ TxOk(nb, tx) /\ nb' = TxEffect(nb, tx)
        /\ committed'[it] = committed[it] \o tx
        /\ \A j \in Iterations \ {it} : committed'[j] = committed[j]
    BY <2>1 DEF Transacts, IInv, TypeOK, ClientTypeOK
  <2>3. PICK c \in Seq(Commands) : c = committed[it]
    BY KeepsSoFar
  <2>4. \A j \in Iterations : \A k \in DOMAIN committed'[j] :
           k \in DOMAIN AskedOf[j] /\ committed'[j][k] = AskedOf[j][k]
    <3> SUFFICES ASSUME NEW j \in Iterations, NEW k \in DOMAIN committed'[j]
                 PROVE  k \in DOMAIN AskedOf[j] /\ committed'[j][k] = AskedOf[j][k]
      OBVIOUS
    <3>1. PICK d \in Seq(Commands), s \in Seq(Commands) :
             d = committed'[j] /\ s = AskedOf[j] /\ IsPrefix(d, s)
      BY DEF Begun
    <3>2. k \in DOMAIN d
      BY <3>1
    <3>3. k \in DOMAIN s /\ s[k] = d[k]
      BY <3>1, <3>2, PrefixElements
    <3> QED
      BY <3>1, <3>3
  <2>5. KeepsToItsOwn(c \o tx)
    <3>1. /\ committed'[it] \in Seq(Commands) /\ AskedOf[it] \in Seq(Commands)
          /\ IsPrefix(committed'[it], AskedOf[it])
      BY DEF Begun
    <3>2. KeepsToItsOwn(AskedOf[it])
      BY DEF SelfContained
    <3> QED
      BY <2>2, <2>3, <3>1, <3>2, PrefixKeeps
  <2>6. ASSUME NEW o \in Objs, Added(c \o tx, o), Removed(c \o tx, o)
        PROVE  TxEffect(nb, tx)[o] = {}
    <3>1. (Added(c, o) \/ Added(tx, o)) /\ (Removed(c, o) \/ Removed(tx, o))
      BY <2>6, JoinedAdds
    <3>2. DOMAIN tx = 1..Len(tx)
      OBVIOUS
    <3>3. \A k \in 1..Len(tx) : Adds(tx[k], o) =>
             ~Removed(c, o) /\ \A j \in 1..(k - 1) : ~Removes(tx[j], o)
      BY <2>5, AddedOnce
    <3>4. CASE Removed(c, o)
      <4>1. ~Added(tx, o)
        BY <3>2, <3>3, <3>4 DEF Added
      <4>2. nb[o] = {}
        BY <2>3, <3>1, <3>4, <4>1 DEF GoneInv
      <4> QED
        BY <2>2, <4>1, <4>2, AbsentStays
    <3>5. CASE Removed(tx, o)
      <4>1. PICK r \in 1..Len(tx) : Removes(tx[r], o)
        BY <3>2, <3>5 DEF Removed
      <4> QED
        BY <2>2, <3>3, <4>1, RemovedGone
    <3> QED
      BY <3>1, <3>4, <3>5
  <2>7. ASSUME NEW j \in Iterations, j # it, NEW o \in Objs,
               Added(committed[j], o), Removed(committed[j], o)
        PROVE  TxEffect(nb, tx)[o] = {}
    <3>1. nb[o] = {}
      BY <2>7 DEF GoneInv
    <3>2. ASSUME Added(tx, o)
          PROVE  FALSE
      <4>1. Added(c \o tx, o)
        BY <3>2, JoinedAdds
      <4>2. Added(committed'[it], o)
        BY <2>2, <2>3, <4>1
      <4>3. PICK l \in DOMAIN committed'[it] : Adds(committed'[it][l], o)
        BY <4>2 DEF Added
      <4>4. PICK k \in DOMAIN committed'[j] : Adds(committed'[j][k], o)
        BY <2>2, <2>7 DEF Added
      <4>5. /\ k \in DOMAIN AskedOf[j] /\ Adds(AskedOf[j][k], o)
            /\ l \in DOMAIN AskedOf[it] /\ Adds(AskedOf[it][l], o)
        BY <2>4, <4>3, <4>4
      <4>6. ~(AskedOf[j][k].op = "add" /\ Adds(AskedOf[it][l], AskedOf[j][k].obj))
        BY <2>7, <4>5 DEF NamesApart
      <4>7. AskedOf[j][k].op = "add" /\ AskedOf[j][k].obj = o
        BY <4>5 DEF Adds
      <4> QED
        BY <4>5, <4>6, <4>7
    <3> QED
      BY <2>2, <3>1, <3>2, AbsentStays
  <2>8. ASSUME NEW j \in Iterations, NEW o \in Objs,
               Added(committed'[j], o), Removed(committed'[j], o)
        PROVE  nb'[o] = {}
    <3>1. CASE j = it
      BY <2>2, <2>3, <2>6, <2>8, <3>1
    <3>2. CASE j # it
      BY <2>2, <2>7, <2>8, <3>2
    <3> QED
      BY <3>1, <3>2
  <2> QED
    BY <2>8 DEF GoneInv
<1> QED
  BY <1>1, <1>2, StepExecutes

LEMMA GoneInvariance ==
    ASSUME SelfContained, NamesApart
    PROVE  Spec => []GoneInv
<1>1. Init => GoneInv
  <2> SUFFICES ASSUME Init PROVE GoneInv
    OBVIOUS
  <2>1. \A it \in Iterations : committed[it] = <<>>
    BY DEF Init, ClientInit
  <2> QED
    BY <2>1 DEF GoneInv, Added
<1>2. IInv /\ Begun /\ Begun' /\ GoneInv /\ [Next]_vars => GoneInv'
  <2>1. CASE Next
    BY <2>1, GoneStep DEF Next
  <2>2. CASE UNCHANGED vars
    BY <2>2 DEF vars, clientVars, GoneInv
  <2> QED
    BY <2>1, <2>2
<1> QED
  BY <1>1, <1>2, Invariance, BegunAlways, PTL DEF Spec

\* An iteration that returned leaves, of what its methods created, exactly the
\* objects whose handles it kept, where no other iteration creates objects of
\* those names: one that deletes what it created leaves nothing behind.
THEOREM ReturnLeavesHandles ==
    ASSUME SelfContained, NamesApart
    PROVE  Spec => []ReturnedIterationLeavesItsHandles
<1>1. IInv /\ Cursor /\ ExecutedOrWaiting /\ Progress /\ Begun /\ OwnInv /\ GoneInv
      => ReturnedIterationLeavesItsHandles
  <2> SUFFICES ASSUME IInv, Cursor, ExecutedOrWaiting, Progress, Begun, OwnInv, GoneInv,
                      NEW it \in Iterations, at[it] = "done",
                      NEW m \in DOMAIN Program[it], NEW o \in Program[it][m].gives
               PROVE  nb[o] # {} <=> o \in handles[it]
    BY DEF ReturnedIterationLeavesItsHandles
  <2>1. /\ Program[it] \in Seq(Methods) /\ Len(Program[it]) \in Nat
        /\ method[it] = Len(Program[it]) + 1 /\ Called(it) = method[it]
    BY MethodsAround DEF Cursor, CursorOf, Called
  <2>2. o \in Objs
    <3>1. Program[it][m] \in Methods
      BY <2>1
    <3> QED
      BY <3>1 DEF Methods
  <2>3. committed[it] = AskedOf[it]
    <3>1. ~raised[it] /\ cmds[it] = <<>>
      BY DEF IInv, ModeInv
    <3>2. PICK b \in Seq(Commands) : b = AskedOf[it]
      BY DEF Begun
    <3>3. issued[it] = b \o <<>>
      <4>1. b = Before(it, method[it])
        BY <2>1, <3>2 DEF AskedOf
      <4> QED
        BY <3>1, <4>1 DEF Cursor, CursorOf, AskedInMethod
    <3>4. PICK c \in Seq(Commands) : c = committed[it]
      BY DEF Begun
    <3>5. issued[it] = c \o <<>>
      BY <3>1, <3>4 DEF ExecutedOrWaiting
    <3>6. b \o <<>> = b /\ c \o <<>> = c
      OBVIOUS
    <3> QED
      BY <3>2, <3>3, <3>4, <3>5, <3>6
  <2>4. ASSUME o \in handles[it] PROVE nb[o] # {}
    BY <2>4, HandlesLive DEF OwnInv, Holds
  <2>5. ASSUME o \notin handles[it] PROVE nb[o] = {}
    <3>1. o \notin Kept(it)
      BY <2>5 DEF Progress, ProgressOf
    <3>2. m \in 1..(method[it] - 1)
      BY <2>1
    <3>3. PICK d \in (m + 1)..(Called(it) - 1) : o \in Program[it][d].drops
      BY <2>2, <3>1, <3>2 DEF Kept
    <3>4. d \in DOMAIN Program[it] /\ m + 1 \in 1..(Len(Program[it]) + 1)
      BY <2>1, <3>2
    <3>5. /\ \E k \in 1..Len(Before(it, m + 1)) : Adds(AskedOf[it][k], o)
          /\ \E k \in DOMAIN AskedOf[it] : Removes(AskedOf[it][k], o)
      BY <3>3, <3>4 DEF SelfContained, HandlesKept
    <3>6. \A k \in 1..Len(Before(it, m + 1)) : k \in DOMAIN AskedOf[it]
      <4>1. PICK b \in Seq(Commands), s \in Seq(Commands) :
               b = Before(it, m + 1) /\ s = AskedOf[it] /\ IsPrefix(b, s)
        BY <3>4, BeforeMethod
      <4>2. Len(b) \in 0..Len(s)
        BY <4>1, PrefixTyped
      <4> QED
        BY <4>1, <4>2
    <3>7. Added(committed[it], o) /\ Removed(committed[it], o)
      BY <2>3, <3>5, <3>6 DEF Added, Removed
    <3> QED
      BY <2>2, <3>7 DEF GoneInv
  <2> QED
    BY <2>4, <2>5
<1> QED
  BY <1>1, Invariance, CursorInvariance, LedgerInvariance, ProgressInvariance, BegunAlways,
     OwnInvariance, GoneInvariance, PTL
=============================================================================
