---------------------------- MODULE NbRefinement ----------------------------
(***************************************************************************)
(* NbScenario implements NbLedger: the batching client, driven by the      *)
(* scenario methods, keeps the promise that batching is invisible.         *)
(***************************************************************************)
EXTENDS NbScenario, SequencesExt

\* The commands of a method, and those of a whole scenario.
MethodCommands(m) == FlattenSeq(m.items) \o (IF m.sync THEN <<Sync>> ELSE <<>>)

Before(it, n) ==
    FlattenSeq([m \in 1..(n - 1) |-> MethodCommands(Program[it][m])])

AskedOf == [it \in Iterations |-> Before(it, Len(Program[it]) + 1)]

\* Where a transaction of method m may end: after an item, or after any
\* command when the method runs in direct mode; after sync in any case.
MethodStops(m) ==
    {Len(FlattenSeq(SubSeq(m.items, 1, k))) : k \in 1..Len(m.items)}
    \cup {Len(MethodCommands(m))}
    \cup (IF m.mode = "on" THEN {} ELSE 1..Len(MethodCommands(m)))

StopsOf ==
    [it \in Iterations |->
        UNION {{Len(Before(it, m)) + k : k \in MethodStops(Program[it][m])}
                   : m \in DOMAIN Program[it]}]

ResultOf ==
    [it \in Iterations |->
        IF raised[it] THEN "raised" ELSE IF at[it] = "done" THEN "returned" ELSE "running"]

Ledger == INSTANCE NbLedger WITH
    Asked <- AskedOf, Stops <- StopsOf, executed <- committed, result <- ResultOf

\* Every step of the scenarios is a step the ledger allows, or none: items
\* land whole, once, in the order asked for, and a return means all landed.
ImplementsLedger == Ledger!Spec
=============================================================================
