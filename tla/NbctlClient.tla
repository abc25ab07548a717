---------------------------- MODULE NbctlClient ----------------------------
(***************************************************************************)
(* The ovn-nbctl client (class _OvnNbctl of ovsclients_impl.py).  A client *)
(* is either in batch mode, where run() only appends " -- command" to      *)
(* self.cmds and flush() sends all of them as one ovn-nbctl invocation, or *)
(* in direct mode, where run() sends one command at once.                  *)
(*                                                                         *)
(* ssh.run() can end in four ways: the script succeeded; ovn-nbctl refused *)
(* it; the connection failed before the script ran; or the script ran and  *)
(* its answer never came (a timeout).  The last three raise an exception,  *)
(* which leaves self.cmds as it was.  Each iteration of a task owns its    *)
(* client and an exception ends the iteration, so a client that raised is  *)
(* never called again.                                                     *)
(*                                                                         *)
(* A few operators named after a mistake (SshRunUnchecked, ...) stand      *)
(* before the one they could replace; they are used by no definition.      *)
(***************************************************************************)
EXTENDS NbDatabase

CONSTANT Iterations     \* the iterations of the task: one client each

VARIABLES
    batchMode,   \* self.batch_mode
    cmds,        \* self.cmds : the commands waiting for flush()
    raised,      \* the last call raised an exception
    nb,          \* the northbound database, shared by all clients
    issued,      \* history: the commands run() was called with
    committed,   \* history: the commands the database executed, in order
    lost         \* history: fragments sent to the shell as lines of their own

clientVars == <<batchMode, cmds, raised, nb, issued, committed, lost>>

ClientTypeOK ==
    /\ batchMode \in [Iterations -> BOOLEAN]
    /\ cmds \in [Iterations -> Seq(Commands)]
    /\ raised \in [Iterations -> BOOLEAN]
    /\ nb \in Contents
    /\ issued \in [Iterations -> Seq(Commands)]
    /\ committed \in [Iterations -> Seq(Commands)]
    /\ lost \in [Iterations -> Seq(Commands)]

ClientInit ==
    /\ batchMode = [it \in Iterations |-> FALSE]
    /\ cmds = [it \in Iterations |-> <<>>]
    /\ raised = [it \in Iterations |-> FALSE]
    /\ nb = EmptyDb
    /\ issued = [it \in Iterations |-> <<>>]
    /\ committed = [it \in Iterations |-> <<>>]
    /\ lost = [it \in Iterations |-> <<>>]

\* ssh.run(): the database executes the transaction tx or it does not, and
\* the caller gets an answer or an exception.
Answered(it, tx) ==
    /\ TxOk(nb, tx)
    /\ nb' = TxEffect(nb, tx)
    /\ committed' = [committed EXCEPT ![it] = @ \o tx]
    /\ raised' = raised

Refused(it, tx) ==
    /\ ~TxOk(nb, tx)
    /\ raised' = [raised EXCEPT ![it] = TRUE]
    /\ UNCHANGED <<nb, committed>>

LinkDown(it) ==
    /\ raised' = [raised EXCEPT ![it] = TRUE]
    /\ UNCHANGED <<nb, committed>>

AnswerLost(it, tx) ==
    /\ TxOk(nb, tx)
    /\ nb' = TxEffect(nb, tx)
    /\ committed' = [committed EXCEPT ![it] = @ \o tx]
    /\ raised' = [raised EXCEPT ![it] = TRUE]

SshRunKeepsCmds(it, tx, lines) ==
    /\ Answered(it, tx) \/ Refused(it, tx) \/ LinkDown(it) \/ AnswerLost(it, tx)
    /\ cmds' = [cmds EXCEPT ![it] = lines]

SshRunUnchecked(it, tx, lines) ==
    /\ Answered(it, tx) \/ (~TxOk(nb, tx) /\ UNCHANGED <<raised, nb, committed>>)
    /\ cmds' = [cmds EXCEPT ![it] = <<>>]

\* self.cmds is emptied after ssh.run(), so only when that did not raise:
\* an exception leaves the lines of the script that had been put in it.
SshRun(it, tx, lines) ==
    \/ Answered(it, tx) /\ cmds' = [cmds EXCEPT ![it] = <<>>]
    \/ /\ Refused(it, tx) \/ LinkDown(it) \/ AnswerLost(it, tx)
       /\ cmds' = [cmds EXCEPT ![it] = lines]

BatchModeIgnored(it, value) == UNCHANGED batchMode

EnableBatchMode(it, value) ==
    batchMode' = [batchMode EXCEPT ![it] = value]

\* run() in batch mode.
RunBatched(it, c) ==
    /\ batchMode[it]
    /\ cmds' = [cmds EXCEPT ![it] = Append(@, c)]
    /\ issued' = [issued EXCEPT ![it] = Append(@, c)]
    /\ UNCHANGED <<raised, nb, committed, lost>>

\* run() in direct mode: the fragments that wait in self.cmds go first, each
\* on a line of its own that is no ovn-nbctl invocation; the shell finds no
\* such command and only the exit status of the last line is looked at.
RunDirect(it, c) ==
    /\ ~batchMode[it]
    /\ issued' = [issued EXCEPT ![it] = Append(@, c)]
    /\ lost' = [lost EXCEPT ![it] = @ \o cmds[it]]
    /\ SshRun(it, <<c>>, Append(cmds[it], c))

Run(it, c) == RunBatched(it, c) \/ RunDirect(it, c)

\* flush(): nothing to send, or everything in one invocation.
Flush(it) ==
    /\ UNCHANGED <<issued, lost>>
    /\ IF cmds[it] = <<>>
       THEN UNCHANGED <<cmds, raised, nb, committed>>
       ELSE SshRun(it, cmds[it], cmds[it])
=============================================================================
