---------------------------- MODULE MCNbScenario ----------------------------
(***************************************************************************)
(* Two iterations with names of their own, running scenarios that between  *)
(* them use every method.  Sizes: switches and ports up to 3 against a     *)
(* batch of 2, so that a loop ends both on a flush and between two; the    *)
(* calls to ssh may fail in every way at every call.                       *)
(***************************************************************************)
EXTENDS NbOwnership, NbPrograms

CONSTANTS a, b, NoObject

Top(it, k) == <<it, k, 0>>
Kid(p, k) == <<p[1], p[2], k>>

MCObjs == {Top(it, k) : it \in {a, b}, k \in 1..8}
          \cup {Kid(Top(it, 1), k) : it \in {a, b}, k \in 1..6}
          \cup {Kid(Top(it, j), k) : it \in {a, b}, j \in 2..6, k \in 1..2}
MCParent == [o \in MCObjs |-> Top(o[1], o[2])]
MCAcls == {o \in MCObjs : o[3] \in 4..6}

\* a: two switches with three ports on the first and one on the second, and
\* two ACLs on the first port, one on the second; then the ACLs, the ports and
\* the second switch deleted.
Sw(it) == <<Top(it, 1), Top(it, 2)>>
Lp(it) == <<<<Kid(Top(it, 1), 1), Kid(Top(it, 1), 2), Kid(Top(it, 1), 3)>>,
            <<Kid(Top(it, 2), 1)>>>>
Ac(it) == <<<<<<Kid(Top(it, 1), 4), Kid(Top(it, 1), 5)>>, <<Kid(Top(it, 1), 6)>>>>>>

AclThenDelete(it) ==
    CreateAndDeleteAcls(Sw(it), Lp(it), Ac(it), 1, 2)
    \o <<DeleteLport(FlattenSeq(Lp(it))), DeleteLswitch(<<Top(it, 2)>>)>>

\* b: a cluster router and a routed network with a gateway router, a port
\* group and an address set.
Gw(it) == [joinSwitch |-> Top(it, 3), rpj |-> Kid(Top(it, 4), 1), jrp |-> Kid(Top(it, 3), 1),
           gwRouter |-> Top(it, 5), grpj |-> Kid(Top(it, 5), 1), jrpg |-> Kid(Top(it, 3), 2),
           extSwitch |-> Top(it, 6), grpe |-> Kid(Top(it, 5), 2), erpg |-> Kid(Top(it, 6), 1)]

Routed(it, batch) ==
    CreateRoutersScenario(<<Top(it, 4)>>, <<Top(it, 2)>>, <<Kid(Top(it, 2), 2)>>,
                          <<>>, <<>>, 1, 1)
    \o CreateRoutedNetwork(Top(it, 4), <<Top(it, 1)>>, <<Kid(Top(it, 4), 2)>>,
           <<Kid(Top(it, 1), 1)>>, <<Gw(it)>>, <<Kid(Top(it, 6), 2)>>,
           <<Kid(Top(it, 1), 2), Kid(Top(it, 1), 3)>>, batch, 3)
    \o <<PortGroupAdd(Top(it, 7)), PortGroupAddPort(Top(it, 7), Kid(Top(it, 1), 2), 2),
         CreateAddressSet(Top(it, 8)), AddressSetAddAddrs(Top(it, 8), 2),
         RemoveAddressSet(Top(it, 8)), ListEach(<<Top(it, 1), Top(it, 2)>>)>>

\* a ends with its deletions: no later flush makes up for one they leave out.
MCProgram ==
    [it \in Iterations |->
        IF it = a
        THEN <<CreateRouters(<<Top(a, 4)>>, 1), ConnectGatewayRouter(Gw(a), FALSE)>>
             \o AclThenDelete(a)
        ELSE Routed(b, TRUE)]

\* The scenarios meet the hypotheses of the theorems about ownership.
ASSUME OwnNames == SelfContained /\ NamesApart
=============================================================================
