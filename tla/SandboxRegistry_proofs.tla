----------------------- MODULE SandboxRegistry_proofs -----------------------
(***************************************************************************)
(* For any amounts, batches, farms and iterations: the create loop runs    *)
(* the script once for each address, however the sessions end; the         *)
(* resource lists what is on the host and a deletion removes what it       *)
(* chose, for iterations on one farm that run at the same time, but for    *)
(* the entries that a stale copy overwrites and the lines that left        *)
(* nothing; no entry is overwritten where one iteration at a time works on *)
(* a farm; and no two hosts have the same tunnel address.                  *)
(***************************************************************************)
EXTENDS SandboxRegistry, TLAPS

Tagged == [Addresses -> Tags \cup {Absent}]

LEMMA TaskType ==
  ASSUME NEW it \in Iterations
  PROVE  /\ Task[it] \in Tasks /\ Amount(it) \in Nat \ {0} /\ Task[it].batch \in Nat \ {0}
         /\ FirstAddress(it) \in Nat /\ LastAddress \in Nat
         /\ FarmOf(it) \in Farms
         /\ Task[it].kind # "delete" => Task[it].tag \in Tags
<1>1. /\ Task[it] \in Tasks /\ it \in Nat /\ LastAddress \in Nat /\ FarmNamed[it] \in Farms
      /\ Task[it].kind # "delete" => Task[it].tag \in Tags
  BY RegistryAssumption DEF RegistryAssumption
<1>2. /\ Task[it].amount \in Nat \ {0} /\ Task[it].batch \in Nat \ {0} /\ Task[it].start \in Nat
      /\ Task[it].farm \in Farms \cup {NoFarm}
  BY <1>1 DEF Tasks
<1>3. it * Task[it].amount \in Nat
  BY <1>1, <1>2
<1> QED
  BY <1>1, <1>2, <1>3 DEF Amount, FirstAddress, FarmOf

\* A session works on consecutive addresses.
LEMMA NextAreConsecutive ==
  ASSUME NEW it \in Iterations, done[it] \in Nat, NEW n \in Nat
  PROVE  NextAddresses(it, n) =
            (FirstAddress(it) + done[it])..(FirstAddress(it) + done[it] + n - 1)
<1>1. FirstAddress(it) \in Nat
  BY TaskType
<1> DEFINE F == FirstAddress(it) + done[it]
<1>2. F \in Nat
  BY <1>1
<1>3. ASSUME NEW a \in F..(F + n - 1) PROVE \E k \in 0..(n - 1) : a = F + k
  <2>1. a - F \in 0..(n - 1) /\ a = F + (a - F)
    BY <1>2
  <2> QED
    BY <2>1
<1>4. \A k \in 0..(n - 1) : F + k \in F..(F + n - 1)
  BY <1>2
<1> QED
  BY <1>3, <1>4 DEF NextAddresses

LEMMA BatchIsBounded ==
  ASSUME NEW it \in Iterations, done[it] \in Nat, done[it] < Amount(it)
  PROVE  BatchLeft(it) \in 1..(Amount(it) - done[it])
  BY TaskType DEF BatchLeft, Smaller, Amount

-----------------------------------------------------------------------------
\* Where the create loop is: the addresses it has been through are the first
\* ones, and all of them when it is over.
Loop(it) ==
    /\ tried[it] \subseteq All(it)
    /\ at[it] = "begin" => done[it] = 0 /\ tried[it] = {}
    /\ at[it] \in {"create", "read", "save"} =>
          /\ Task[it].kind # "delete"
          /\ tried[it] = FirstAddress(it)..(FirstAddress(it) + done[it] - 1)
          /\ FirstAddress(it) + Amount(it) <= LastAddress
    /\ at[it] = "create" => done[it] < Amount(it)
    /\ at[it] \in {"read", "save"} => done[it] = Amount(it)
    /\ at[it] \in {"cleanup", "readDelete", "saveDelete", "returned"} /\ Task[it].kind # "delete" =>
          tried[it] = All(it)

RegistryInv == TypeOK /\ \A it \in Iterations : Loop(it)

LEMMA InitInv == Init => RegistryInv
<1> SUFFICES ASSUME Init PROVE RegistryInv
  OBVIOUS
<1>1. TypeOK
  <2>1. ASSUME NEW it \in Iterations PROVE 0 <= Task[it].amount
    BY TaskType DEF Amount
  <2>2. farm \in [Iterations -> Farms]
    BY RegistryAssumption DEF RegistryAssumption, Init
  <2> QED
    BY <2>1, <2>2 DEF Init, TypeOK, Empty, Nothing, Places, LineLeaves
<1>2. \A it \in Iterations : Loop(it)
  BY DEF Init, Loop
<1> QED
  BY <1>1, <1>2 DEF RegistryInv

\* A step of one iteration leaves the loops of the others alone.
LEMMA OneLoop ==
  ASSUME RegistryInv, NEW it \in Iterations, TypeOK', Loop(it)',
         \A j \in Iterations \ {it} : UNCHANGED <<at[j], done[j], tried[j]>>
  PROVE  RegistryInv'
  BY DEF RegistryInv, Loop

\* A step after the create loop, or before it in a deletion.
LEMMA QuietLoop ==
  ASSUME RegistryInv, NEW it \in Iterations, TypeOK', UNCHANGED <<done, tried>>,
         NEW place \in {"cleanup", "readDelete", "saveDelete", "returned", "raised"}, Go(it, place),
         \/ at[it] \in {"save", "cleanup", "readDelete", "saveDelete"}
         \/ place = "raised" \/ Task[it].kind = "delete"
  PROVE  RegistryInv'
<1>1. at \in [Iterations -> Places]
  BY DEF RegistryInv, TypeOK
<1>2. at'[it] = place /\ \A j \in Iterations \ {it} : at'[j] = at[j]
  BY <1>1 DEF Go
<1>3. Loop(it)
  BY DEF RegistryInv
<1>4. Loop(it)'
  <2>1. CASE at[it] = "save"
    <3>1. tried[it] = All(it)
      BY <1>3, <2>1 DEF Loop, All
    <3> QED
      BY <1>2, <1>3, <3>1 DEF Loop, All, Amount
  <2>2. CASE at[it] # "save"
    BY <1>2, <1>3, <2>2 DEF Loop, All, Amount
  <2> QED
    BY <2>1, <2>2
<1> QED
  BY <1>2, <1>4, OneLoop

-----------------------------------------------------------------------------
HostType ==
    /\ host \in [Farms -> [Addresses -> LineLeaves]]
    /\ unmade \subseteq Farms \X Addresses

LEMMA CreatedType ==
  ASSUME HostType, NEW f \in Farms, NEW ran \in SUBSET Addresses,
         NEW made \in [ran -> LineLeaves], Created(f, made)
  PROVE  HostType'
<1>1. [a \in Addresses |-> IF a \in ran THEN made[a] ELSE host[f][a]]
      \in [Addresses -> LineLeaves]
  BY DEF HostType
<1>2. host' \in [Farms -> [Addresses -> LineLeaves]]
  BY <1>1 DEF HostType, Created
<1>3. unmade' \subseteq Farms \X Addresses
  BY DEF HostType, Created
<1> QED
  BY <1>2, <1>3 DEF HostType

LEMMA RemovedType ==
  ASSUME HostType, NEW f \in Farms, NEW ran, host' = Removed(f, ran), unmade' = unmade
  PROVE  HostType'
<1>1. [a \in Addresses |-> IF a \in ran THEN Absent ELSE host[f][a]]
      \in [Addresses -> LineLeaves]
  BY DEF HostType, LineLeaves
<1> QED
  BY <1>1 DEF HostType, Removed

SavedType == registry \in [Farms -> Tagged] /\ overwritten \subseteq Farms \X Addresses

LEMMA SaveType ==
  ASSUME SavedType, NEW it \in Iterations, farm[it] \in Farms, NEW own,
         NEW info \in Tagged, Save(it, info, own)
  PROVE  SavedType'
<1>1. registry' \in [Farms -> Tagged]
  BY DEF SavedType, Save
<1>2. overwritten' \subseteq Farms \X Addresses
  BY DEF SavedType, Save
<1> QED
  BY <1>1, <1>2 DEF SavedType

LEMMA BeginCreateInv ==
  ASSUME RegistryInv, NEW it \in Iterations, BeginCreate(it)
  PROVE  RegistryInv'
<1>1. /\ at[it] = "begin" /\ Task[it].kind # "delete" /\ Loop(it)
      /\ at' = [at EXCEPT ![it] = IF BigEnough(it) THEN "create" ELSE "raised"]
      /\ farm' = [farm EXCEPT ![it] = FarmOf(it)]
      /\ UNCHANGED <<host, registry, done, copy, chosen, left, tried, unmade, overwritten>>
  BY DEF BeginCreate, Go, RegistryInv
<1>2. /\ FirstAddress(it) \in Nat /\ Amount(it) \in Nat \ {0} /\ FarmOf(it) \in Farms
  BY TaskType
<1>3. TypeOK'
  BY <1>1, <1>2 DEF RegistryInv, TypeOK, Places
<1>4. /\ at'[it] = IF BigEnough(it) THEN "create" ELSE "raised"
      /\ \A j \in Iterations \ {it} : at'[j] = at[j]
  BY <1>1 DEF RegistryInv, TypeOK
<1>5. done'[it] = 0 /\ tried'[it] = {}
  BY <1>1 DEF Loop
<1>6. Loop(it)'
  <2>1. FirstAddress(it)..(FirstAddress(it) + 0 - 1) = {}
    BY <1>2
  <2> QED
    BY <1>1, <1>2, <1>4, <1>5, <2>1 DEF Loop, BigEnough, All, Amount
<1> QED
  BY <1>1, <1>3, <1>4, <1>6, OneLoop

LEMMA SliceInRange ==
  ASSUME NEW first \in Nat, NEW amount \in Nat, NEW d \in Nat, NEW n \in Nat, NEW last \in Nat,
         n <= amount - d, first + amount <= last
  PROVE  /\ (first + d)..(first + d + n - 1) \subseteq first..(first + amount - 1)
         /\ first..(first + amount - 1) \subseteq 0..last
  BY SMT

LEMMA SlicesJoin ==
  ASSUME NEW first \in Nat, NEW d \in Nat, NEW n \in Nat
  PROVE  first..(first + d - 1) \cup (first + d)..(first + d + n - 1)
            = first..(first + (d + n) - 1)
  BY SMT

LEMMA CreateSessionInv ==
  ASSUME RegistryInv, NEW it \in Iterations, CreateSession(it)
  PROVE  RegistryInv'
<1> DEFINE n == BatchLeft(it)
           ran == NextAddresses(it, n)
<1>1. PICK made \in [ran -> LineLeaves], ok \in BOOLEAN :
         /\ Created(farm[it], made)
         /\ tried' = [tried EXCEPT ![it] = @ \cup ran]
         /\ done' = [done EXCEPT ![it] = @ + n]
         /\ Go(it, IF ~ok THEN "raised"
                   ELSE IF done[it] + n >= Task[it].amount THEN "read" ELSE "create")
  BY DEF CreateSession
<1>2. at[it] = "create" /\ UNCHANGED <<registry, copy, farm, chosen, left, overwritten>>
  BY DEF CreateSession
<1>3. /\ FirstAddress(it) \in Nat /\ Amount(it) \in Nat \ {0} /\ LastAddress \in Nat
      /\ done[it] \in Nat /\ farm[it] \in Farms /\ Loop(it)
  BY TaskType DEF RegistryInv, TypeOK
<1>4. /\ done[it] < Amount(it) /\ Task[it].kind # "delete"
      /\ tried[it] = FirstAddress(it)..(FirstAddress(it) + done[it] - 1)
      /\ FirstAddress(it) + Amount(it) <= LastAddress
  BY <1>2, <1>3 DEF Loop
<1>5. n \in 1..(Amount(it) - done[it])
  BY <1>3, <1>4, BatchIsBounded
<1>6. ran = (FirstAddress(it) + done[it])..(FirstAddress(it) + done[it] + n - 1)
  BY <1>3, <1>5, NextAreConsecutive
<1> HIDE DEF n, ran
<1>7. HostType'
  <2>1. ran \subseteq Addresses
    BY <1>3, <1>4, <1>5, <1>6 DEF Addresses
  <2> QED
    BY <1>1, <1>3, <2>1, CreatedType DEF HostType, RegistryInv, TypeOK
<1>8. \A j \in Iterations \ {it} : at'[j] = at[j] /\ done'[j] = done[j] /\ tried'[j] = tried[j]
  BY <1>1 DEF Go, RegistryInv, TypeOK
<1>9. /\ done'[it] = done[it] + n /\ tried'[it] = tried[it] \cup ran
      /\ at'[it] \in {"raised", "read", "create"}
      /\ at'[it] = "read" => done[it] + n >= Amount(it)
      /\ at'[it] = "create" => done[it] + n < Amount(it)
  <2>1. /\ done \in [Iterations -> Nat] /\ at \in [Iterations -> Places]
        /\ tried \in [Iterations -> SUBSET Addresses] /\ Task[it].amount \in Nat
    BY <1>3 DEF RegistryInv, TypeOK, Amount
  <2>2. done'[it] = done[it] + n /\ tried'[it] = tried[it] \cup ran
    BY <1>1, <2>1
  <2>3. CASE ok = TRUE
    BY <1>1, <1>3, <1>5, <2>1, <2>2, <2>3 DEF Go, Amount
  <2>4. CASE ok = FALSE
    BY <1>1, <2>1, <2>2, <2>4 DEF Go
  <2> QED
    BY <1>1, <2>3, <2>4
<1>10. tried'[it] = FirstAddress(it)..(FirstAddress(it) + done'[it] - 1)
  <2>1. PICK first \in Nat, d \in Nat, m \in Nat :
           first = FirstAddress(it) /\ d = done[it] /\ m = n
    BY <1>3, <1>5
  <2>2. tried[it] \cup ran = first..(first + d - 1) \cup (first + d)..(first + d + m - 1)
    BY <1>4, <1>6, <2>1, Zenon
  <2>3. tried[it] \cup ran = first..(first + (d + m) - 1)
    BY ONLY <2>2, SlicesJoin
  <2> QED
    BY <1>9, <2>1, <2>3, Zenon
<1>11. done'[it] \in Nat /\ done'[it] <= Amount(it)
  BY <1>3, <1>4, <1>5, <1>9
<1>12. tried'[it] \subseteq All(it) /\ All(it) \subseteq Addresses
  BY <1>3, <1>4, <1>10, <1>11 DEF All, Addresses
<1>13. Loop(it)'
  <2>1. /\ at'[it] = "read" => done'[it] = Amount(it)
        /\ at'[it] = "create" => done'[it] < Amount(it)
    BY <1>3, <1>9, <1>11
  <2> QED
    BY <1>4, <1>9, <1>10, <1>12, <2>1 DEF Loop, All, Amount
<1>14. TypeOK'
  <2>1. at' \in [Iterations -> Places]
    BY <1>1, <1>9 DEF Go, RegistryInv, TypeOK, Places
  <2>2. done' \in [Iterations -> Nat] /\ tried' \in [Iterations -> SUBSET Addresses]
    BY <1>1, <1>9, <1>11, <1>12 DEF RegistryInv, TypeOK
  <2>3. \A j \in Iterations : done'[j] <= Task[j].amount
    BY <1>8, <1>11 DEF RegistryInv, TypeOK, Amount
  <2> QED
    BY <1>2, <1>7, <2>1, <2>2, <2>3 DEF HostType, RegistryInv, TypeOK
<1> QED
  BY <1>8, <1>13, <1>14, OneLoop

LEMMA CreateSessionLostInv ==
  ASSUME RegistryInv, NEW it \in Iterations, CreateSessionLost(it)
  PROVE  RegistryInv'
<1>1. PICK n \in 0..BatchLeft(it) :
         /\ \E made \in [NextAddresses(it, n) -> LineLeaves] : Created(farm[it], made)
         /\ tried' = [tried EXCEPT ![it] = @ \cup NextAddresses(it, n)]
  BY DEF CreateSessionLost
<1>2. /\ at[it] = "create" /\ at' = [at EXCEPT ![it] = "raised"]
      /\ UNCHANGED <<registry, done, copy, farm, chosen, left, overwritten>>
  BY DEF CreateSessionLost, Go
<1>3. /\ FirstAddress(it) \in Nat /\ Amount(it) \in Nat \ {0} /\ LastAddress \in Nat
      /\ done[it] \in Nat /\ farm[it] \in Farms /\ Loop(it)
  BY TaskType DEF RegistryInv, TypeOK
<1>4. /\ done[it] < Amount(it) /\ tried[it] \subseteq All(it)
      /\ FirstAddress(it) + Amount(it) <= LastAddress
  BY <1>2, <1>3 DEF Loop
<1>5. n \in Nat /\ n <= Amount(it) - done[it]
  BY <1>3, <1>4, BatchIsBounded
<1>6. NextAddresses(it, n) = (FirstAddress(it) + done[it])..(FirstAddress(it) + done[it] + n - 1)
  BY <1>3, <1>5, NextAreConsecutive
<1>7. NextAddresses(it, n) \subseteq All(it) /\ All(it) \subseteq Addresses
  <2>1. /\ All(it) = FirstAddress(it)..(FirstAddress(it) + Amount(it) - 1)
        /\ Addresses = 0..LastAddress
    BY DEF All, Addresses
  <2>2. /\ FirstAddress(it) \in Nat /\ Amount(it) \in Nat /\ done[it] \in Nat
        /\ n \in Nat /\ LastAddress \in Nat
        /\ n <= Amount(it) - done[it] /\ FirstAddress(it) + Amount(it) <= LastAddress
    BY <1>3, <1>4, <1>5
  <2>3. /\ (FirstAddress(it) + done[it])..(FirstAddress(it) + done[it] + n - 1)
              \subseteq FirstAddress(it)..(FirstAddress(it) + Amount(it) - 1)
        /\ FirstAddress(it)..(FirstAddress(it) + Amount(it) - 1) \subseteq 0..LastAddress
    BY ONLY <2>2, SliceInRange
  <2> QED
    BY ONLY <2>1, <2>3, <1>6, Zenon
<1>8. HostType'
  <2>1. NextAddresses(it, n) \in SUBSET Addresses
    BY <1>7
  <2> QED
    BY <1>1, <1>3, <2>1, CreatedType DEF HostType, RegistryInv, TypeOK
<1>9. /\ at'[it] = "raised" /\ tried'[it] \subseteq All(it)
      /\ \A j \in Iterations \ {it} : at'[j] = at[j] /\ tried'[j] = tried[j]
  BY <1>1, <1>2, <1>4, <1>7 DEF RegistryInv, TypeOK
<1>10. TypeOK'
  <2>1. tried' \in [Iterations -> SUBSET Addresses]
    BY <1>1, <1>7 DEF RegistryInv, TypeOK
  <2>2. at' \in [Iterations -> Places]
    BY <1>2 DEF RegistryInv, TypeOK, Places
  <2> QED
    BY <1>2, <1>8, <2>1, <2>2 DEF HostType, RegistryInv, TypeOK
<1>11. Loop(it)'
  BY <1>9 DEF Loop, All, Amount
<1> QED
  BY <1>2, <1>9, <1>10, <1>11, OneLoop

LEMMA AddReadInv ==
  ASSUME RegistryInv, NEW it \in Iterations, AddRead(it)
  PROVE  RegistryInv'
<1>1. /\ at[it] = "read" /\ at' = [at EXCEPT ![it] = "save"]
      /\ copy' = [copy EXCEPT ![it] = registry[farm[it]]]
      /\ UNCHANGED <<host, registry, done, farm, chosen, left, tried, unmade, overwritten>>
  BY DEF AddRead, Go
<1>2. TypeOK'
  BY <1>1 DEF RegistryInv, TypeOK, Places
<1>3. at'[it] = "save" /\ \A j \in Iterations \ {it} : at'[j] = at[j]
  BY <1>1 DEF RegistryInv, TypeOK
<1>4. Loop(it)'
  BY <1>1, <1>3 DEF RegistryInv, Loop, All, Amount
<1> QED
  BY <1>1, <1>2, <1>3, <1>4, OneLoop

LEMMA AddSaveInv ==
  ASSUME RegistryInv, NEW it \in Iterations, AddSave(it)
  PROVE  RegistryInv'
<1> DEFINE info == [a \in Addresses |-> WithTried(it, a)]
<1>1. PICK place \in {"cleanup", "returned"} :
         /\ at[it] = "save" /\ Go(it, place) /\ UNCHANGED <<host, done, copy, farm, tried, unmade>>
         /\ Save(it, info, tried[it])
         /\ \/ UNCHANGED <<chosen, left>>
            \/ /\ chosen' = [chosen EXCEPT ![it][farm[it]] = Returned(it)]
               /\ left' = [left EXCEPT ![it] = {farm[it]}]
  BY DEF AddSave
<1>2. Task[it].kind # "delete" => Task[it].tag \in Tags
  BY TaskType
<1>3. /\ Task[it].kind # "delete" /\ farm[it] \in Farms /\ copy[it] \in Tagged
      /\ tried[it] \in SUBSET Addresses /\ SavedType
  BY <1>1 DEF RegistryInv, TypeOK, Loop, Tagged, SavedType
<1>4. SavedType'
  <2>1. info \in Tagged
    BY <1>2, <1>3 DEF Tagged, WithTried
  <2> QED
    BY <1>1, <1>3, <2>1, SaveType
<1>5. chosen' \in [Iterations -> [Farms -> SUBSET Addresses]] /\ left' \in [Iterations -> SUBSET Farms]
  <2>1. [chosen[it] EXCEPT ![farm[it]] = Returned(it)] \in [Farms -> SUBSET Addresses]
    BY <1>3 DEF RegistryInv, TypeOK, Returned
  <2>2. \/ UNCHANGED chosen
        \/ chosen' = [chosen EXCEPT ![it] = [chosen[it] EXCEPT ![farm[it]] = Returned(it)]]
    BY <1>1
  <2>3. chosen' \in [Iterations -> [Farms -> SUBSET Addresses]]
    BY <2>1, <2>2 DEF RegistryInv, TypeOK
  <2>4. left' \in [Iterations -> SUBSET Farms]
    <3>1. left \in [Iterations -> SUBSET Farms] /\ {farm[it]} \in SUBSET Farms
      BY <1>3 DEF RegistryInv, TypeOK
    <3>2. left' = left \/ left' = [left EXCEPT ![it] = {farm[it]}]
      BY <1>1
    <3> QED
      BY <3>1, <3>2
  <2> QED
    BY <2>3, <2>4
<1>6. TypeOK'
  BY <1>1, <1>4, <1>5 DEF Go, RegistryInv, TypeOK, Tagged, Places, SavedType
<1> QED
  BY <1>1, <1>6, QuietLoop

-----------------------------------------------------------------------------
LEMMA BeginDeleteInv ==
  ASSUME RegistryInv, NEW it \in Iterations, BeginDelete(it)
  PROVE  RegistryInv'
<1>1. /\ Task[it].kind = "delete" /\ Go(it, "cleanup")
      /\ chosen' = [chosen EXCEPT ![it] = [f \in Farms |-> Selected(it, f)]]
      /\ left' = [left EXCEPT ![it] = {f \in Farms : Selected(it, f) # {}}]
      /\ UNCHANGED <<host, registry, done, copy, farm, tried, unmade, overwritten>>
  BY DEF BeginDelete
<1>2. \A f \in Farms : Selected(it, f) \subseteq Addresses
  BY DEF Selected
<1>3. [f \in Farms |-> Selected(it, f)] \in [Farms -> SUBSET Addresses]
  BY <1>2
<1>4. /\ chosen' \in [Iterations -> [Farms -> SUBSET Addresses]]
      /\ left' \in [Iterations -> SUBSET Farms]
  BY <1>1, <1>3 DEF RegistryInv, TypeOK
<1>5. TypeOK'
  BY <1>1, <1>4 DEF Go, RegistryInv, TypeOK, Places
<1> QED
  BY <1>1, <1>5, QuietLoop

LEMMA CleanupSessionInv ==
  ASSUME RegistryInv, NEW it \in Iterations, CleanupSession(it) \/ CleanupSessionLost(it)
  PROVE  RegistryInv'
<1>1. PICK f \in left[it] : \E ran \in SUBSET Addresses, place \in {"raised", "readDelete"} :
         /\ host' = Removed(f, ran) /\ farm' = [farm EXCEPT ![it] = f]
         /\ at[it] = "cleanup" /\ Go(it, place)
         /\ UNCHANGED <<registry, done, copy, chosen, left, tried, unmade, overwritten>>
  <2>1. \A f \in left[it] : chosen[it][f] \subseteq Addresses
    BY DEF RegistryInv, TypeOK
  <2> QED
    BY <2>1 DEF CleanupSession, CleanupSessionLost
<1>2. f \in Farms
  BY DEF RegistryInv, TypeOK
<1>3. HostType'
  BY <1>1, <1>2, RemovedType DEF HostType, RegistryInv, TypeOK
<1>4. TypeOK'
  BY <1>1, <1>2, <1>3 DEF HostType, Go, RegistryInv, TypeOK, Places
<1> QED
  BY <1>1, <1>4, QuietLoop

LEMMA DeleteReadInv ==
  ASSUME RegistryInv, NEW it \in Iterations, DeleteRead(it)
  PROVE  RegistryInv'
<1>1. TypeOK'
  BY DEF DeleteRead, Go, RegistryInv, TypeOK, Places
<1> QED
  BY <1>1, QuietLoop DEF DeleteRead

LEMMA DeleteSaveInv ==
  ASSUME RegistryInv, NEW it \in Iterations, DeleteSave(it)
  PROVE  RegistryInv'
<1> DEFINE info == [a \in Addresses |-> WithoutDeleted(it, a)]
<1>1. farm[it] \in Farms /\ copy[it] \in Tagged /\ SavedType
  BY DEF RegistryInv, TypeOK, Tagged, SavedType
<1>2. info \in Tagged
  BY <1>1 DEF WithoutDeleted, Tagged
<1>3. SavedType'
  BY <1>1, <1>2, SaveType DEF DeleteSave
<1>4. TypeOK'
  BY <1>3 DEF DeleteSave, Go, RegistryInv, TypeOK, Tagged, Places, SavedType
<1> QED
  BY <1>4, QuietLoop DEF DeleteSave

LEMMA DeleteReturnsInv ==
  ASSUME RegistryInv, NEW it \in Iterations, DeleteReturns(it)
  PROVE  RegistryInv'
<1>1. TypeOK'
  BY DEF DeleteReturns, Go, RegistryInv, TypeOK, Places
<1> QED
  BY <1>1, QuietLoop DEF DeleteReturns

LEMMA StepInv == RegistryInv /\ [Next]_vars => RegistryInv'
<1> SUFFICES ASSUME RegistryInv, [Next]_vars PROVE RegistryInv'
  OBVIOUS
<1>1. CASE UNCHANGED vars
  BY <1>1 DEF vars, RegistryInv, TypeOK, Loop
<1>2. ASSUME NEW it \in Iterations, Step(it) PROVE RegistryInv'
  BY <1>2, BeginCreateInv, CreateSessionInv, CreateSessionLostInv, AddReadInv, AddSaveInv,
     BeginDeleteInv, CleanupSessionInv, DeleteReadInv, DeleteSaveInv, DeleteReturnsInv DEF Step
<1> QED
  BY <1>1, <1>2 DEF Next

\* Every variable has its type, and the create loop never runs past the amount
\* (_create_sandbox, _delete_sandbox).
THEOREM TypeCorrect == Spec => []TypeOK
<1>1. RegistryInv => TypeOK
  BY DEF RegistryInv
<1> QED
  BY <1>1, InitInv, StepInv, PTL DEF Spec

\* A create that returned has run the script once for each of the amount of
\* consecutive addresses, whatever the batch and the number of farms, and never
\* for another address (_create_sandbox).
THEOREM AmountIsHonoured == Spec => []AmountHonoured
<1>1. RegistryInv => AmountHonoured
  BY DEF RegistryInv, Loop, AmountHonoured, All, Amount
<1> QED
  BY <1>1, InitInv, StepInv, PTL DEF Spec

-----------------------------------------------------------------------------
(***************************************************************************)
(* The resource and the host.  The resource is read, changed and written   *)
(* as a whole, by iterations that run at the same time on one farm.        *)
(***************************************************************************)
Active(it) == at[it] \notin {"begin", "returned", "raised"}
Creating(it) == at[it] \in {"create", "read", "save"}
Deleting(it) == at[it] \in {"readDelete", "saveDelete"}
Saving(it) == at[it] \in {"save", "saveDelete"}

Begun(it) == at[it] # "begin" => \A j \in After[it] : Ended(j)

\* Where it is working and will be: on its own farm when it creates, and
\* where it has chosen something when it deletes.
Place(it) ==
    /\ Creates(it) /\ at[it] # "begin" => farm[it] = FarmOf(it)
    /\ left[it] \subseteq {f \in Farms : chosen[it][f] # {}}
    /\ Deleting(it) => farm[it] \in left[it]
    /\ \A f \in Farms : chosen[it][f] # {} => f \in MayUse(it)
    /\ at[it] \in {"begin", "create", "read", "save"} => chosen[it] = Nothing
    /\ Task[it].kind = "create" => chosen[it] = Nothing
    /\ at[it] = "returned" /\ Task[it].kind # "create" => left[it] = {}

PlaceInv == RegistryInv /\ \A it \in Iterations : Begun(it) /\ Place(it)

\* The others are as they were.
Others(it) ==
    \A j \in Iterations \ {it} :
        UNCHANGED <<at[j], copy[j], farm[j], chosen[j], left[j], tried[j]>>

Types ==
    /\ at \in [Iterations -> Places] /\ copy \in [Iterations -> Tagged]
    /\ farm \in [Iterations -> Farms] /\ chosen \in [Iterations -> [Farms -> SUBSET Addresses]]
    /\ left \in [Iterations -> SUBSET Farms] /\ tried \in [Iterations -> SUBSET Addresses]
    /\ host \in [Farms -> [Addresses -> LineLeaves]] /\ registry \in [Farms -> Tagged]

LEMMA TypesHold == RegistryInv => Types
BY DEF RegistryInv, TypeOK, Types, Tagged

-----------------------------------------------------------------------------
(* What the steps do, sandbox by sandbox *)

\* A step that changes neither a host nor a resource.
Begins(it) == BeginCreate(it) \/ BeginDelete(it) \/ DeleteReturns(it)
Makes(it) == CreateSession(it) \/ CreateSessionLost(it)
Reads(it) == AddRead(it) \/ DeleteRead(it)
Saves(it) == AddSave(it) \/ DeleteSave(it)
Cleans(it) == CleanupSession(it) \/ CleanupSessionLost(it)

LEMMA FiveKinds ==
  ASSUME NEW it \in Iterations, Step(it)
  PROVE  Begins(it) \/ Makes(it) \/ Reads(it) \/ Saves(it) \/ Cleans(it)
BY DEF Step, Begins, Makes, Reads, Saves, Cleans

LEMMA StepOfOne ==
  ASSUME RegistryInv, NEW it \in Iterations, Step(it)
  PROVE  ~Ended(it) /\ at'[it] # "begin" /\ Others(it)
<1>1. Types
  BY TypesHold
<1>2. CASE Begins(it)
  BY <1>1, <1>2 DEF Types, Begins, BeginCreate, BeginDelete, DeleteReturns, Go, Ended, Others
<1>3. CASE Makes(it)
  BY <1>1, <1>3 DEF Types, Makes, CreateSession, CreateSessionLost, Go, Ended, Others
<1>4. CASE Reads(it)
  BY <1>1, <1>4 DEF Types, Reads, AddRead, DeleteRead, Go, Ended, Others
<1>5. CASE Saves(it)
  BY <1>1, <1>5 DEF Types, Saves, AddSave, DeleteSave, Go, Ended, Others
<1>6. CASE Cleans(it)
  BY <1>1, <1>6 DEF Types, Cleans, CleanupSession, CleanupSessionLost, Go, Ended, Others
<1> QED
  BY <1>2, <1>3, <1>4, <1>5, <1>6, FiveKinds

LEMMA BeginStep ==
  ASSUME RegistryInv, NEW it \in Iterations, Begins(it)
  PROVE  /\ UNCHANGED <<host, registry, tried, copy, unmade, overwritten>>
         /\ at[it] = "begin" => \A j \in After[it] : Ended(j)
         /\ \/ /\ at[it] = "begin" /\ Creates(it) /\ tried[it] = {}
               /\ at'[it] \in {"create", "raised"} /\ farm'[it] = FarmOf(it)
               /\ UNCHANGED <<chosen, left>>
            \/ /\ at[it] = "begin" /\ ~Creates(it) /\ at'[it] = "cleanup"
               /\ chosen'[it] = [f \in Farms |-> Selected(it, f)]
               /\ left'[it] = {f \in Farms : Selected(it, f) # {}}
               /\ UNCHANGED farm
            \/ /\ at[it] = "cleanup" /\ at'[it] = "returned" /\ left[it] = {}
               /\ UNCHANGED <<chosen, left, farm>>
<1>1. Types /\ Loop(it)
  BY TypesHold DEF RegistryInv
<1>2. CASE BeginCreate(it)
  BY <1>1, <1>2 DEF Types, Loop, BeginCreate, Go, Creates
<1>3. CASE BeginDelete(it)
  BY <1>1, <1>3 DEF Types, BeginDelete, Go, Creates
<1>4. CASE DeleteReturns(it)
  BY <1>1, <1>4 DEF Types, DeleteReturns, Go
<1> QED
  BY <1>2, <1>3, <1>4 DEF Begins

\* The sandboxes it made on f: all that changes.
MadeThere(f, ran) ==
    \A g \in Farms : \A a \in Addresses :
        IF g = f /\ a \in ran
        THEN host'[g][a] # Absent \/ <<g, a>> \in unmade'
        ELSE host'[g][a] = host[g][a] /\ (<<g, a>> \in unmade' <=> <<g, a>> \in unmade)

LEMMA CreatedThere ==
  ASSUME Types, NEW f \in Farms, NEW ran, NEW made \in [ran -> LineLeaves], Created(f, made)
  PROVE  MadeThere(f, ran)
<1>1. DOMAIN made = ran
  OBVIOUS
<1>2. /\ host' = [host EXCEPT ![f] = [a \in Addresses |-> IF a \in ran THEN made[a] ELSE host[f][a]]]
      /\ unmade' = (unmade \ ({f} \X ran)) \cup ({f} \X {a \in ran : made[a] = Absent})
  BY <1>1 DEF Created
<1>3. ASSUME NEW g \in Farms, NEW a \in Addresses, g = f /\ a \in ran
      PROVE  host'[g][a] # Absent \/ <<g, a>> \in unmade'
  BY <1>2, <1>3 DEF Types
<1>4. ASSUME NEW g \in Farms, NEW a \in Addresses, ~(g = f /\ a \in ran)
      PROVE  host'[g][a] = host[g][a] /\ (<<g, a>> \in unmade' <=> <<g, a>> \in unmade)
  BY <1>2, <1>4 DEF Types
<1> QED
  BY <1>3, <1>4 DEF MadeThere

LEMMA MakeStep ==
  ASSUME PlaceInv, NEW it \in Iterations, Makes(it)
  PROVE  /\ at[it] = "create" /\ at'[it] \in {"create", "read", "raised"}
         /\ Creates(it) /\ farm[it] = FarmOf(it) /\ FarmOf(it) \in Farms
         /\ tried'[it] \subseteq All(it)
         /\ UNCHANGED <<registry, copy, farm, chosen, left, overwritten>>
         /\ \E ran \in SUBSET All(it) :
               tried'[it] = tried[it] \cup ran /\ MadeThere(FarmOf(it), ran)
<1>1. Types /\ Loop(it) /\ Place(it) /\ FarmOf(it) \in Farms
  BY TypesHold, TaskType DEF PlaceInv, RegistryInv
<1>2. Loop(it)'
  BY StepInv DEF PlaceInv, RegistryInv, Next, Step, Makes
<1>3. PICK ran : \E made \in [ran -> LineLeaves] :
         /\ Created(farm[it], made) /\ tried' = [tried EXCEPT ![it] = @ \cup ran]
         /\ at[it] = "create"
         /\ UNCHANGED <<registry, copy, farm, chosen, left, overwritten>>
  BY DEF Makes, CreateSession, CreateSessionLost
<1>4. at'[it] \in {"create", "read", "raised"}
  BY <1>1 DEF Types, Makes, CreateSession, CreateSessionLost, Go
<1>5. Creates(it) /\ farm[it] = FarmOf(it)
  BY <1>1, <1>3 DEF Loop, Place, Creates
<1>6. tried'[it] = tried[it] \cup ran
  BY <1>1, <1>3 DEF Types
<1>7. tried'[it] \subseteq All(it)
  BY <1>2 DEF Loop, All, Amount
<1>8. MadeThere(FarmOf(it), ran)
  BY <1>1, <1>3, <1>5, CreatedThere
<1> QED
  BY <1>1, <1>3, <1>4, <1>5, <1>6, <1>7, <1>8

LEMMA ReadStep ==
  ASSUME RegistryInv, NEW it \in Iterations, Reads(it)
  PROVE  /\ \/ at[it] = "read" /\ at'[it] = "save"
            \/ at[it] = "readDelete" /\ at'[it] = "saveDelete"
         /\ copy'[it] = registry[farm[it]]
         /\ UNCHANGED <<host, registry, farm, chosen, left, tried, unmade, overwritten>>
<1>1. Types
  BY TypesHold
<1> QED
  BY <1>1 DEF Types, Reads, AddRead, DeleteRead, Go

\* Outside of own what was read is written back, and noted if it was stale.
SavedThere(it, f, own) ==
    /\ \A a \in own : <<f, a>> \notin overwritten'
    /\ \A a \in Addresses \ own :
          /\ registry'[f][a] = copy[it][a]
          /\ <<f, a>> \in overwritten' <=>
                <<f, a>> \in overwritten \/ copy[it][a] # registry[f][a]
    /\ \A g \in Farms \ {f} : \A a \in Addresses :
          /\ registry'[g][a] = registry[g][a]
          /\ <<g, a>> \in overwritten' <=> <<g, a>> \in overwritten

LEMMA SaveIsThere ==
  ASSUME Types, NEW it \in Iterations, NEW f \in Farms, f = farm[it], NEW own \in SUBSET Addresses,
         NEW info, Save(it, info, own), \A a \in Addresses \ own : info[a] = copy[it][a]
  PROVE  SavedThere(it, f, own) /\ registry'[f] = info
<1>1. /\ registry' = [registry EXCEPT ![f] = info]
      /\ overwritten' = (overwritten \ ({f} \X own))
             \cup ({f} \X {a \in Addresses \ own : copy[it][a] # registry[f][a]})
  BY DEF Save
<1>2. registry'[f] = info /\ \A g \in Farms \ {f} : registry'[g] = registry[g]
  BY <1>1 DEF Types
<1>3. \A a \in own : <<f, a>> \notin overwritten'
  BY <1>1
<1>4. \A a \in Addresses \ own :
         <<f, a>> \in overwritten' <=> <<f, a>> \in overwritten \/ copy[it][a] # registry[f][a]
  BY <1>1
<1>5. \A g \in Farms \ {f} : \A a \in Addresses :
         <<g, a>> \in overwritten' <=> <<g, a>> \in overwritten
  BY <1>1
<1> QED
  BY <1>2, <1>3, <1>4, <1>5 DEF SavedThere

LEMMA SaveStep ==
  ASSUME PlaceInv, NEW it \in Iterations, Saves(it)
  PROVE  /\ Saving(it) /\ at'[it] \in {"cleanup", "returned"}
         /\ UNCHANGED <<host, unmade, farm, copy, tried>>
         /\ at[it] = "save" =>
               /\ Creates(it) /\ farm[it] = FarmOf(it) /\ tried[it] \subseteq All(it)
               /\ SavedThere(it, farm[it], tried[it])
               /\ \A a \in tried[it] : registry'[farm[it]][a] # Absent
               /\ \/ UNCHANGED <<chosen, left>> /\ Task[it].kind = "create" /\ at'[it] = "returned"
                  \/ /\ chosen'[it] = [chosen[it] EXCEPT ![farm[it]] = Returned(it)]
                     /\ left'[it] = {farm[it]} /\ Task[it].kind = "createDelete" /\ at'[it] = "cleanup"
         /\ at[it] = "saveDelete" =>
               /\ SavedThere(it, farm[it], chosen[it][farm[it]])
               /\ \A a \in chosen[it][farm[it]] : registry'[farm[it]][a] = Absent
               /\ UNCHANGED chosen /\ left'[it] = left[it] \ {farm[it]} /\ at'[it] = "cleanup"
<1>1. Types /\ Loop(it) /\ Place(it) /\ farm[it] \in Farms
  BY TypesHold DEF PlaceInv, RegistryInv, Types
<1>2. CASE AddSave(it)
  <2>1. at[it] = "save" /\ Creates(it) /\ farm[it] = FarmOf(it) /\ tried[it] \subseteq All(it)
    BY <1>1, <1>2 DEF AddSave, Loop, Place, All, Amount, Creates
  <2>2. tried[it] \in SUBSET Addresses
    BY <1>1 DEF Types
  <2> DEFINE info == [a \in Addresses |-> WithTried(it, a)]
  <2>3. Save(it, info, tried[it])
    BY <1>2 DEF AddSave
  <2>4. \A a \in Addresses \ tried[it] : info[a] = copy[it][a]
    BY DEF WithTried
  <2>5. \A a \in tried[it] : info[a] # Absent
    <3>1. Task[it].tag # Absent
      BY <2>1, TaskType, RegistryAssumption DEF RegistryAssumption, Creates
    <3> QED
      BY <2>2, <3>1 DEF WithTried
  <2> HIDE DEF info
  <2>6. SavedThere(it, farm[it], tried[it]) /\ registry'[farm[it]] = info
    BY <1>1, <2>2, <2>3, <2>4, SaveIsThere
  <2>7. \/ UNCHANGED <<chosen, left>> /\ Task[it].kind = "create" /\ at'[it] = "returned"
        \/ /\ chosen'[it] = [chosen[it] EXCEPT ![farm[it]] = Returned(it)]
           /\ left'[it] = {farm[it]} /\ Task[it].kind = "createDelete" /\ at'[it] = "cleanup"
    <3>1. Task[it].kind \in Kinds
      BY TaskType DEF Tasks
    <3> QED
      BY <1>1, <1>2, <2>1, <3>1 DEF Types, AddSave, Go, Kinds, Creates
  <2>8. UNCHANGED <<host, unmade, farm, copy, tried>>
    BY <1>2 DEF AddSave
  <2> QED
    BY <2>1, <2>5, <2>6, <2>7, <2>8 DEF Saving
<1>3. CASE DeleteSave(it)
  <2>1. /\ at[it] = "saveDelete" /\ at'[it] = "cleanup" /\ UNCHANGED <<host, unmade, farm, copy, tried, chosen>>
        /\ left'[it] = left[it] \ {farm[it]}
    BY <1>1, <1>3 DEF Types, DeleteSave, Go
  <2>2. PICK own \in SUBSET Addresses : own = chosen[it][farm[it]]
    BY <1>1 DEF Types
  <2> DEFINE info == [a \in Addresses |-> WithoutDeleted(it, a)]
  <2>3. Save(it, info, own)
    BY <1>3, <2>2 DEF DeleteSave
  <2>4. /\ \A a \in Addresses \ own : info[a] = copy[it][a]
        /\ \A a \in own : info[a] = Absent
    BY <2>2 DEF WithoutDeleted
  <2> HIDE DEF info
  <2>5. SavedThere(it, farm[it], own) /\ registry'[farm[it]] = info
    BY <1>1, <2>3, <2>4, SaveIsThere
  <2> QED
    BY <2>1, <2>2, <2>4, <2>5 DEF Saving
<1> QED
  BY <1>2, <1>3 DEF Saves

CleanedThere(f, ran) ==
    \A g \in Farms : \A a \in Addresses :
        host'[g][a] = IF g = f /\ a \in ran THEN Absent ELSE host[g][a]

LEMMA CleanStep ==
  ASSUME PlaceInv, NEW it \in Iterations, Cleans(it)
  PROVE  /\ at[it] = "cleanup" /\ at'[it] \in {"raised", "readDelete"}
         /\ UNCHANGED <<registry, copy, chosen, left, tried, unmade, overwritten>>
         /\ \E f \in left[it] : \E ran \in SUBSET chosen[it][f] :
               /\ f \in Farms /\ farm'[it] = f /\ CleanedThere(f, ran)
               /\ at'[it] = "readDelete" => ran = chosen[it][f]
<1>1. Types
  BY TypesHold DEF PlaceInv
<1>2. /\ at[it] = "cleanup" /\ at'[it] \in {"raised", "readDelete"}
      /\ UNCHANGED <<registry, copy, chosen, left, tried, unmade, overwritten>>
  BY <1>1 DEF Types, Cleans, CleanupSession, CleanupSessionLost, Go
<1>3. PICK f \in left[it] : \E r \in SUBSET chosen[it][f] :
         /\ host' = Removed(f, r) /\ farm' = [farm EXCEPT ![it] = f]
         /\ at'[it] = "readDelete" => r = chosen[it][f]
  BY <1>1 DEF Types, Cleans, CleanupSession, CleanupSessionLost, Go
<1>4. PICK ran \in SUBSET chosen[it][f] :
         /\ host' = Removed(f, ran) /\ farm' = [farm EXCEPT ![it] = f]
         /\ at'[it] = "readDelete" => ran = chosen[it][f]
  BY <1>3
<1>5. f \in Farms /\ farm'[it] = f
  BY <1>1, <1>4 DEF Types
<1>6. CleanedThere(f, ran)
  BY <1>1, <1>4, <1>5 DEF Types, Removed, CleanedThere
<1> QED
  BY <1>2, <1>4, <1>5, <1>6


-----------------------------------------------------------------------------
(* Where an iteration is *)

\* An iteration that has ended stays so, and one begins after those before it.
LEMMA BegunStays ==
  ASSUME PlaceInv, NEW it \in Iterations, Step(it)
  PROVE  \A j \in Iterations : Begun(j)'
<1>1. ~Ended(it) /\ Others(it)
  BY StepOfOne DEF PlaceInv
<1>2. After \in [Iterations -> SUBSET Iterations]
  BY RegistryAssumption DEF RegistryAssumption
<1>3. \A j \in Iterations : Ended(j) => Ended(j)'
  BY <1>1 DEF Others, Ended
<1>4. at[it] = "begin" => \A j \in After[it] : Ended(j)
  BY DEF Step, BeginCreate, CreateSession, CreateSessionLost, AddRead, AddSave, BeginDelete,
         CleanupSession, CleanupSessionLost, DeleteRead, DeleteSave, DeleteReturns
<1>5. \A j \in Iterations \ {it} : at'[j] = at[j]
  BY <1>1 DEF Others
<1> QED
  BY <1>2, <1>3, <1>4, <1>5 DEF PlaceInv, Begun

LEMMA PlaceStays ==
  ASSUME PlaceInv, NEW it \in Iterations, Step(it)
  PROVE  \A j \in Iterations : Place(j)'
<1>1. Others(it) /\ Types /\ Place(it) /\ Loop(it)
  BY StepOfOne, TypesHold DEF PlaceInv, RegistryInv
<1>2. Place(it)'
  <2>1. CASE Begins(it)
    <3>1. \A f \in Farms : ~Creates(it) /\ Selected(it, f) # {} => f \in MayUse(it)
      BY DEF Selected, MayUse, Creates
    <3>2. CASE at[it] = "begin" /\ Creates(it)
      <4>1. at'[it] \in {"create", "raised"} /\ farm'[it] = FarmOf(it) /\ UNCHANGED <<chosen, left>>
        BY <2>1, <3>2, BeginStep DEF PlaceInv
      <4> QED
        BY <1>1, <3>2, <4>1 DEF Place, Deleting, Creates
    <3>3. CASE at[it] = "begin" /\ ~Creates(it)
      <4>1. /\ at'[it] = "cleanup" /\ chosen'[it] = [f \in Farms |-> Selected(it, f)]
            /\ left'[it] = {f \in Farms : Selected(it, f) # {}}
        BY <2>1, <3>3, BeginStep DEF PlaceInv
      <4>2. \A f \in Farms : chosen'[it][f] = Selected(it, f)
        BY <4>1
      <4> QED
        BY <3>1, <3>3, <4>1, <4>2 DEF Place, Deleting, Creates
    <3>4. CASE at[it] # "begin"
      <4>1. /\ at[it] = "cleanup" /\ at'[it] = "returned" /\ left[it] = {}
            /\ UNCHANGED <<chosen, left, farm>>
        BY <2>1, <3>4, BeginStep DEF PlaceInv
      <4> QED
        BY <1>1, <4>1 DEF Place, Deleting, Creates
    <3> QED
      BY <3>2, <3>3, <3>4
  <2>2. CASE Makes(it)
    BY <1>1, <2>2, MakeStep DEF Place, Deleting, Creates, Nothing
  <2>3. CASE Reads(it)
    BY <1>1, <2>3, ReadStep DEF Place, Deleting, Creates, Nothing, PlaceInv
  <2>4. CASE Saves(it)
    <3>1. CASE at[it] = "save"
      <4>1. chosen[it] = Nothing /\ chosen[it] \in [Farms -> SUBSET Addresses]
        BY <1>1, <3>1 DEF Place, Types
      <4>2. tried[it] # {} /\ Creates(it) /\ farm[it] = FarmOf(it) /\ farm[it] \in Farms
        <5>1. tried[it] = FirstAddress(it)..(FirstAddress(it) + Amount(it) - 1)
          BY <1>1, <3>1 DEF Loop
        <5>2. FirstAddress(it) \in tried[it]
          BY <5>1, TaskType
        <5> QED
          BY <1>1, <2>4, <3>1, <5>2, SaveStep DEF Types
      <4>3. CASE Task[it].kind = "create"
        BY <1>1, <2>4, <3>1, <4>3, SaveStep DEF Place, Deleting, Creates
      <4>4. CASE Task[it].kind = "createDelete"
        <5>1. /\ chosen'[it] = [chosen[it] EXCEPT ![farm[it]] = Returned(it)]
              /\ left'[it] = {farm[it]} /\ at'[it] = "cleanup" /\ farm' = farm
          BY <2>4, <3>1, <4>4, SaveStep
        <5>2. \A f \in Farms : chosen'[it][f] = IF f = farm[it] THEN Returned(it) ELSE {}
          BY <4>1, <5>1 DEF Nothing
        <5>3. Returned(it) # {} /\ MayUse(it) = {FarmOf(it)}
          BY <4>2 DEF Returned, MayUse, Creates
        <5> QED
          BY <4>2, <4>4, <5>1, <5>2, <5>3 DEF Place, Deleting, Creates
      <4> QED
        BY <2>4, <3>1, <4>3, <4>4, SaveStep
    <3>2. CASE at[it] = "saveDelete"
      BY <1>1, <2>4, <3>2, SaveStep DEF Place, Deleting, Creates
    <3> QED
      BY <2>4, <3>1, <3>2, SaveStep DEF Saving
  <2>5. CASE Cleans(it)
    <3>1. PICK f \in left[it] : f \in Farms /\ farm'[it] = f
      BY <2>5, CleanStep
    <3>2. at[it] = "cleanup" /\ at'[it] \in {"raised", "readDelete"} /\ UNCHANGED <<chosen, left>>
      BY <2>5, CleanStep
    <3>3. Creates(it) => f = FarmOf(it)
      BY <1>1, <3>1 DEF Place, MayUse, Creates
    <3> QED
      BY <1>1, <3>1, <3>2, <3>3 DEF Place, Deleting, Creates
  <2> QED
    BY <2>1, <2>2, <2>3, <2>4, <2>5, FiveKinds
<1>3. ASSUME NEW j \in Iterations \ {it} PROVE Place(j)'
  BY <1>1, <1>3 DEF Others, PlaceInv, Place, Deleting, MayUse
<1> QED
  BY <1>2, <1>3

LEMMA PlaceInvStep == PlaceInv /\ [Next]_vars => PlaceInv'
<1> SUFFICES ASSUME PlaceInv, [Next]_vars PROVE PlaceInv'
  OBVIOUS
<1>1. RegistryInv'
  BY StepInv DEF PlaceInv
<1>2. CASE UNCHANGED vars
  BY <1>1, <1>2 DEF vars, PlaceInv, Begun, Ended, Place, Deleting, MayUse
<1>3. ASSUME NEW it \in Iterations, Step(it) PROVE PlaceInv'
  BY <1>1, <1>3, BegunStays, PlaceStays DEF PlaceInv
<1> QED
  BY <1>2, <1>3 DEF Next

LEMMA PlaceInvInit == Init => PlaceInv
BY InitInv DEF Init, PlaceInv, Begun, Place, Deleting, Nothing

-----------------------------------------------------------------------------
(* Sandboxes that are not there yet, and those being made or deleted *)

\* Nobody has anything of sandbox a of f: not the resource, nor a copy that
\* will be written back, nor a deletion.
Unused(f, a) ==
    /\ registry[f][a] = Absent
    /\ \A j \in Iterations :
          /\ Saving(j) /\ farm[j] = f => copy[j][a] = Absent
          /\ a \notin chosen[j][f]

\* So it is with those of a creation that repeats no other, until it saves.
FreshInv ==
    \A c \in Iterations : \A a \in Addresses :
        /\ Creates(c) /\ ~Repeats(c) /\ a \in All(c)
        /\ at[c] \in {"begin", "create", "read", "save"}
        => Unused(FarmOf(c), a)

MakingInv ==
    \A c \in Iterations : Creating(c) =>
        \A a \in tried[c] : host[FarmOf(c)][a] # Absent \/ <<FarmOf(c), a>> \in unmade

StrikingInv ==
    \A d \in Iterations : Deleting(d) =>
        \A a \in chosen[d][farm[d]] : host[farm[d]][a] = Absent

ShareInv == PlaceInv /\ FreshInv /\ MakingInv /\ StrikingInv

\* While an iteration creates a sandbox, no other that has begun and not ended
\* is about to delete it.
LEMMA Apart ==
  ASSUME InTurn, PlaceInv, FreshInv, NEW c \in Iterations, Creating(c), Creates(c),
         NEW a \in Addresses, a \in All(c), NEW j \in Iterations,
         a \in chosen[j][FarmOf(c)], Begun(j), Begun(c)
  PROVE  Ended(j)
<1>1. CASE Repeats(c)
  <2>1. FarmOf(c) \in MayUse(j) /\ FarmOf(c) \in Farms /\ j # c
    BY TaskType DEF PlaceInv, Place, Creating, Nothing
  <2>2. Ordered(c, j)
    BY <1>1, <2>1 DEF InTurn
  <2>3. at[j] # "begin"
    BY <2>1 DEF PlaceInv, Place, Nothing
  <2>4. ~Ended(c) /\ at[c] # "begin"
    BY DEF Creating, Ended
  <2> QED
    BY <2>2, <2>3, <2>4 DEF Ordered, Begun
<1>2. CASE ~Repeats(c)
  BY <1>2 DEF FreshInv, Unused, Creating
<1> QED
  BY <1>1, <1>2

\* ... nor lists it.
LEMMA NotListed ==
  ASSUME InTurn, PlaceInv, NEW c \in Iterations, Creates(c), ~Repeats(c),
         at[c] \in {"begin", "create", "read", "save"}, NEW a \in Addresses, a \in All(c),
         NEW j \in Iterations, j # c, Creates(j), FarmOf(j) = FarmOf(c), at[j] # "begin"
  PROVE  a \notin tried[j]
<1>1. tried[j] \subseteq All(j) /\ Begun(j) /\ ~Ended(c)
  BY DEF PlaceInv, RegistryInv, Loop, Ended
<1>2. a \in All(j) => c \in After[j]
  BY DEF Repeats
<1> QED
  BY <1>1, <1>2 DEF Begun

LEMMA FreshStep ==
  ASSUME InTurn, ShareInv, NEW it \in Iterations, Step(it)
  PROVE  FreshInv'
<1> SUFFICES ASSUME NEW c \in Iterations, NEW a \in Addresses, Creates(c), ~Repeats(c), a \in All(c),
                    at'[c] \in {"begin", "create", "read", "save"}
             PROVE  Unused(FarmOf(c), a)'
  BY DEF FreshInv, Creates, Repeats, All, FirstAddress, Amount, FarmOf
<1>1. PlaceInv /\ RegistryInv /\ Types /\ Others(it) /\ Place(it) /\ at'[it] # "begin"
  BY StepOfOne, TypesHold DEF ShareInv, PlaceInv
<1>2. PICK f \in Farms : f = FarmOf(c)
  BY TaskType
<1> SUFFICES Unused(f, a)'
  BY <1>2
<1>3. at[c] \in {"begin", "create", "read", "save"}
  <2>1. CASE c # it
    BY <1>1, <2>1 DEF Others
  <2>2. CASE c = it
    <3>1. at[it] \in {"cleanup", "readDelete", "saveDelete"} => at'[it] \notin {"begin", "create", "read", "save"}
      <4>1. Begins(it) => at[it] = "begin" \/ at'[it] = "returned"
        BY <1>1, BeginStep
      <4>2. Makes(it) => at[it] = "create"
        BY <1>1, MakeStep
      <4>3. Reads(it) => (at[it] = "readDelete" => at'[it] = "saveDelete")
        BY <1>1, ReadStep
      <4>4. Saves(it) => at'[it] \in {"cleanup", "returned"}
        BY <1>1, SaveStep
      <4>5. Cleans(it) => at'[it] \in {"raised", "readDelete"}
        BY <1>1, CleanStep
      <4>6. Reads(it) => at[it] \in {"read", "readDelete"}
        BY <1>1, ReadStep
      <4> QED
        BY <4>1, <4>2, <4>3, <4>4, <4>5, <4>6, FiveKinds
    <3>2. at[it] \in Places /\ ~Ended(it)
      BY <1>1, StepOfOne DEF Types
    <3> QED
      BY <2>2, <3>1, <3>2 DEF Places, Ended
  <2> QED
    BY <2>1, <2>2
<1>4. Unused(f, a)
  BY <1>3, <1>2 DEF ShareInv, FreshInv
<1>5. /\ registry[f][a] = Absent /\ a \notin chosen[it][f]
      /\ Saving(it) /\ farm[it] = f => copy[it][a] = Absent
  BY <1>4 DEF Unused
\* The others have what they had.
<1>6. ASSUME registry'[f][a] = Absent, Saving(it)' /\ farm'[it] = f => copy'[it][a] = Absent,
             a \notin chosen'[it][f]
      PROVE  Unused(f, a)'
  BY <1>1, <1>4, <1>6 DEF Others, Unused, Saving
<1>7. CASE Begins(it)
  <2>1. registry' = registry /\ ~Saving(it)'
    BY <1>1, <1>7, BeginStep DEF Saving
  <2>2. chosen'[it] = chosen[it] \/ chosen'[it] = [g \in Farms |-> Selected(it, g)]
    BY <1>1, <1>7, BeginStep
  <2>3. a \notin Selected(it, f)
    BY <1>5 DEF Selected
  <2>4. a \notin chosen'[it][f]
    BY <1>1, <1>5, <2>2, <2>3
  <2> QED
    BY <1>5, <1>6, <2>1, <2>4
<1>8. CASE Makes(it)
  <2>1. UNCHANGED <<registry, chosen>> /\ ~Saving(it)'
    BY <1>1, <1>8, MakeStep DEF Saving
  <2> QED
    BY <1>5, <1>6, <2>1
<1>9. CASE Reads(it)
  <2>1. UNCHANGED <<registry, chosen, farm>> /\ copy'[it] = registry[farm[it]]
    BY <1>1, <1>9, ReadStep
  <2> QED
    BY <1>5, <1>6, <2>1
<1>10. CASE Saves(it)
  <2>1. UNCHANGED <<farm, copy>> /\ ~Saving(it)' /\ Saving(it)
    BY <1>1, <1>10, SaveStep DEF Saving
  <2>2. CASE at[it] = "save"
    <3>1. /\ Creates(it) /\ farm[it] = FarmOf(it) /\ SavedThere(it, farm[it], tried[it])
          /\ \/ UNCHANGED chosen
             \/ chosen'[it] = [chosen[it] EXCEPT ![farm[it]] = Returned(it)]
      BY <1>1, <1>10, <2>2, SaveStep
    <3>2. it # c
      BY <1>1, <1>10, SaveStep
    <3>3. CASE farm[it] = f
      <4>1. a \notin tried[it]
        BY <1>1, <1>3, <2>2, <3>1, <3>2, <3>3, <1>2, NotListed
      <4>2. copy[it][a] = Absent
        BY <1>5, <2>1, <3>3
      <4>3. registry'[f][a] = Absent
        BY <3>1, <3>3, <4>1, <4>2 DEF SavedThere
      <4>4. a \notin Returned(it)
        BY <4>1, <4>2 DEF Returned
      <4>5. a \notin chosen'[it][f]
        BY <1>1, <1>5, <3>1, <3>3, <4>4 DEF Types
      <4> QED
        BY <1>6, <2>1, <4>3, <4>5
    <3>4. CASE farm[it] # f
      <4>1. registry'[f][a] = Absent
        BY <1>1, <1>5, <3>1, <3>4 DEF SavedThere
      <4>2. chosen'[it][f] = chosen[it][f]
        BY <1>1, <3>1, <3>4 DEF Types
      <4> QED
        BY <1>5, <1>6, <2>1, <4>1, <4>2
    <3> QED
      BY <3>3, <3>4
  <2>3. CASE at[it] = "saveDelete"
    <3>1. /\ SavedThere(it, farm[it], chosen[it][farm[it]]) /\ UNCHANGED chosen
      BY <1>1, <1>10, <2>3, SaveStep
    <3>2. registry'[f][a] = Absent
      <4>1. CASE farm[it] = f
        BY <1>5, <2>1, <3>1, <4>1 DEF SavedThere
      <4>2. CASE farm[it] # f
        BY <1>1, <1>5, <3>1, <4>2 DEF SavedThere
      <4> QED
        BY <4>1, <4>2
    <3> QED
      BY <1>5, <1>6, <2>1, <3>1, <3>2
  <2> QED
    BY <2>1, <2>2, <2>3 DEF Saving
<1>11. CASE Cleans(it)
  <2>1. UNCHANGED <<registry, chosen>> /\ ~Saving(it)'
    BY <1>1, <1>11, CleanStep DEF Saving
  <2> QED
    BY <1>5, <1>6, <2>1
<1> QED
  BY <1>7, <1>8, <1>9, <1>10, <1>11, FiveKinds

LEMMA MakingStep ==
  ASSUME InTurn, ShareInv, NEW it \in Iterations, Step(it)
  PROVE  MakingInv'
<1> SUFFICES ASSUME NEW c \in Iterations, Creating(c)', NEW a \in tried'[c]
             PROVE  (host'[FarmOf(c)][a] # Absent \/ <<FarmOf(c), a>> \in unmade')
  BY DEF MakingInv, FarmOf
<1>1. PlaceInv /\ RegistryInv /\ Types /\ Others(it)
  BY StepOfOne, TypesHold DEF ShareInv, PlaceInv
<1>2. PICK f \in Farms : f = FarmOf(c)
  BY TaskType
<1>3. Creating(c) => \A x \in tried[c] : host[f][x] # Absent \/ <<f, x>> \in unmade
  BY <1>2 DEF ShareInv, MakingInv
<1>4. c # it => Creating(c) /\ a \in tried[c]
  BY <1>1 DEF Others, Creating
<1>5. CASE Makes(it)
  <2>1. PICK ran \in SUBSET All(it) : tried'[it] = tried[it] \cup ran /\ MadeThere(FarmOf(it), ran)
    BY <1>1, <1>5, MakeStep
  <2>2. a \in Addresses /\ (c = it => Creating(c))
    <3>1. tried'[c] \subseteq Addresses
      <4>1. RegistryInv'
        BY StepInv DEF ShareInv, PlaceInv, Next
      <4> QED
        BY <4>1 DEF RegistryInv, TypeOK
    <3> QED
      BY <1>1, <1>5, <3>1, MakeStep DEF Creating
  <2>3. CASE FarmOf(it) = f /\ a \in ran
    BY <1>2, <2>1, <2>2, <2>3 DEF MadeThere
  <2>4. CASE ~(FarmOf(it) = f /\ a \in ran)
    <3>1. Creating(c) /\ a \in tried[c]
      BY <1>2, <1>4, <2>1, <2>2, <2>4
    <3>2. host'[f][a] = host[f][a] /\ (<<f, a>> \in unmade' <=> <<f, a>> \in unmade)
      BY <2>1, <2>2, <2>4 DEF MadeThere
    <3> QED
      BY <1>2, <1>3, <3>1, <3>2
  <2> QED
    BY <2>3, <2>4
<1>6. CASE Cleans(it)
  <2>1. c # it /\ UNCHANGED <<tried, unmade>> /\ at[it] = "cleanup"
    BY <1>1, <1>6, CleanStep DEF Creating
  <2>2. PICK g \in left[it] : \E r \in SUBSET chosen[it][g] : g \in Farms /\ CleanedThere(g, r)
    BY <1>1, <1>6, CleanStep
  <2>3. PICK ran \in SUBSET chosen[it][g] : g \in Farms /\ CleanedThere(g, ran)
    BY <2>2
  <2>4. Creating(c) /\ a \in tried[c] /\ a \in Addresses
    BY <1>1, <1>4, <2>1 DEF Types
  <2>5. ~(g = f /\ a \in ran)
    <3>1. Creates(c) /\ a \in All(c) /\ FreshInv /\ Begun(it) /\ Begun(c) /\ ~Ended(it)
      BY <2>1, <2>4 DEF ShareInv, PlaceInv, RegistryInv, Loop, Creating, Creates, Ended
    <3> QED
      BY <1>1, <1>2, <2>4, <3>1, Apart
  <2>6. host'[f][a] = host[f][a]
    BY <2>3, <2>4, <2>5 DEF CleanedThere
  <2> QED
    BY <1>2, <1>3, <2>1, <2>4, <2>6
<1>7. CASE Begins(it) \/ Reads(it) \/ Saves(it)
  <2>1. UNCHANGED <<host, unmade, tried>>
    BY <1>1, <1>7, BeginStep, ReadStep, SaveStep
  <2>2. c = it => Creating(c) \/ tried[c] = {}
    <3>1. Begins(it) => tried[it] = {} \/ ~Creating(it)'
      BY <1>1, BeginStep DEF Creating
    <3>2. Reads(it) => Creating(it) \/ ~Creating(it)'
      BY <1>1, ReadStep DEF Creating
    <3>3. Saves(it) => ~Creating(it)'
      BY <1>1, SaveStep DEF Creating
    <3> QED
      BY <1>7, <3>1, <3>2, <3>3
  <2> QED
    BY <1>2, <1>3, <1>4, <2>1, <2>2
<1> QED
  BY <1>5, <1>6, <1>7, FiveKinds

LEMMA StrikingStep ==
  ASSUME InTurn, ShareInv, NEW it \in Iterations, Step(it)
  PROVE  StrikingInv'
<1> SUFFICES ASSUME NEW d \in Iterations, Deleting(d)', NEW a \in chosen'[d][farm'[d]]
             PROVE  host'[farm'[d]][a] = Absent
  BY DEF StrikingInv
<1>1. PlaceInv /\ RegistryInv /\ Types /\ Others(it)
  BY StepOfOne, TypesHold DEF ShareInv, PlaceInv
<1>2. d # it => /\ Deleting(d) /\ farm'[d] = farm[d] /\ a \in chosen[d][farm[d]]
                /\ farm[d] \in Farms /\ a \in Addresses /\ host[farm[d]][a] = Absent
  BY <1>1 DEF Others, Deleting, ShareInv, StrikingInv, Types
<1>3. CASE Makes(it)
  <2>1. PICK ran \in SUBSET All(it) : MadeThere(FarmOf(it), ran)
    BY <1>1, <1>3, MakeStep
  <2>2. d # it /\ Creates(it) /\ Creating(it)
    BY <1>1, <1>3, MakeStep DEF Deleting, Creating
  <2>3. ~(farm[d] = FarmOf(it) /\ a \in ran)
    <3>1. Begun(it) /\ Begun(d) /\ ~Ended(d) /\ FreshInv
      BY <1>2, <2>2 DEF ShareInv, PlaceInv, Deleting, Ended
    <3> QED
      BY <1>1, <1>2, <2>2, <3>1, Apart
  <2> QED
    BY <1>2, <2>1, <2>2, <2>3 DEF MadeThere
<1>4. CASE Cleans(it)
  <2>1. at'[it] \in {"raised", "readDelete"} /\ UNCHANGED chosen
    BY <1>1, <1>4, CleanStep
  <2>2. PICK g \in left[it] : \E r \in SUBSET chosen[it][g] :
           g \in Farms /\ CleanedThere(g, r) /\ farm'[it] = g /\ (at'[it] = "readDelete" => r = chosen[it][g])
    BY <1>1, <1>4, CleanStep
  <2>3. PICK ran \in SUBSET chosen[it][g] :
           g \in Farms /\ CleanedThere(g, ran) /\ farm'[it] = g /\ (at'[it] = "readDelete" => ran = chosen[it][g])
    BY <2>2
  <2>4. CASE d = it
    <3>1. a \in ran /\ farm'[d] = g /\ a \in Addresses
      BY <1>1, <2>1, <2>3, <2>4 DEF Deleting, Types
    <3> QED
      BY <2>3, <3>1 DEF CleanedThere
  <2>5. CASE d # it
    BY <1>2, <2>3, <2>5 DEF CleanedThere
  <2> QED
    BY <2>4, <2>5
<1>5. CASE Begins(it) \/ Reads(it) \/ Saves(it)
  <2>1. host' = host
    BY <1>1, <1>5, BeginStep, ReadStep, SaveStep
  <2>2. d = it => Deleting(d) /\ UNCHANGED <<farm, chosen>>
    <3>1. Begins(it) => ~Deleting(it)'
      BY <1>1, BeginStep DEF Deleting
    <3>2. Reads(it) => (Deleting(it) /\ UNCHANGED <<farm, chosen>>) \/ ~Deleting(it)'
      BY <1>1, ReadStep DEF Deleting
    <3>3. Saves(it) => ~Deleting(it)'
      BY <1>1, SaveStep DEF Deleting
    <3> QED
      BY <1>5, <3>1, <3>2, <3>3
  <2> QED
    BY <1>2, <2>1, <2>2 DEF ShareInv, StrikingInv
<1> QED
  BY <1>3, <1>4, <1>5, FiveKinds

LEMMA ShareInvStep == InTurn /\ ShareInv /\ [Next]_vars => ShareInv'
<1> SUFFICES ASSUME InTurn, ShareInv, [Next]_vars PROVE ShareInv'
  OBVIOUS
<1>1. PlaceInv'
  BY PlaceInvStep DEF ShareInv
<1>2. CASE UNCHANGED vars
  <2>1. FreshInv'
    BY <1>2 DEF vars, ShareInv, FreshInv, Unused, Saving, Creates, Repeats, All, FirstAddress, Amount, FarmOf
  <2>2. MakingInv' /\ StrikingInv'
    BY <1>2 DEF vars, ShareInv, MakingInv, StrikingInv, Creating, Deleting, FarmOf
  <2> QED
    BY <1>1, <2>1, <2>2 DEF ShareInv
<1>3. ASSUME NEW it \in Iterations, Step(it) PROVE ShareInv'
  BY <1>1, <1>3, FreshStep, MakingStep, StrikingStep DEF ShareInv
<1> QED
  BY <1>2, <1>3 DEF Next

LEMMA ShareInvInit == Init => ShareInv
<1> SUFFICES ASSUME Init PROVE ShareInv
  OBVIOUS
<1>1. FreshInv
  BY TaskType DEF Init, FreshInv, Unused, Empty, Nothing, Saving
<1>2. MakingInv /\ StrikingInv
  BY DEF Init, MakingInv, StrikingInv, Creating, Deleting
<1> QED
  BY <1>1, <1>2, PlaceInvInit DEF ShareInv

-----------------------------------------------------------------------------
(* The resource lists what is on the host *)

Sound(f, a) ==
    /\ <<f, a>> \notin overwritten
    /\ \A it \in Iterations : Touches(it, f, a) => at[it] # "raised"

BeingMade(f, a) ==
    \E c \in Iterations : Creating(c) /\ FarmOf(c) = f /\ a \in tried[c]

BeingStruck(f, a) ==
    \E d \in Iterations : Deleting(d) /\ farm[d] = f /\ a \in chosen[d][f]

\* Only what an iteration is creating is on the host and not in the resource,
\* and only what one has deleted is in the resource and not on the host.
Matched(f, a) ==
    /\ host[f][a] # Absent => registry[f][a] # Absent \/ BeingMade(f, a)
    /\ registry[f][a] # Absent =>
          host[f][a] # Absent \/ <<f, a>> \in unmade \/ BeingStruck(f, a)

MatchedInv == \A f \in Farms : \A a \in Addresses : Sound(f, a) => Matched(f, a)

\* What an iteration left with an exception touched stays unsound.
LEMMA SoundBefore ==
  ASSUME RegistryInv, NEW it \in Iterations, Step(it), NEW f \in Farms, NEW a \in Addresses,
         Sound(f, a)', <<f, a>> \notin overwritten
  PROVE  Sound(f, a)
<1>1. ~Ended(it) /\ Others(it)
  BY StepOfOne
<1>2. ASSUME NEW j \in Iterations, at[j] = "raised", Touches(j, f, a) PROVE FALSE
  <2>1. j # it
    BY <1>1, <1>2 DEF Ended
  <2>2. at'[j] = "raised" /\ Touches(j, f, a)'
    BY <1>1, <1>2, <2>1 DEF Others, Touches, FarmOf
  <2> QED
    BY <2>2 DEF Sound
<1> QED
  BY <1>2 DEF Sound

\* The others go on creating and deleting what they did.
LEMMA OthersAtWork ==
  ASSUME NEW it \in Iterations, Others(it), NEW f \in Farms, NEW a \in Addresses
  PROVE  /\ \A c \in Iterations \ {it} :
               Creating(c) /\ FarmOf(c) = f /\ a \in tried[c] => BeingMade(f, a)'
         /\ \A d \in Iterations \ {it} :
               Deleting(d) /\ farm[d] = f /\ a \in chosen[d][f] => BeingStruck(f, a)'
<1>1. ASSUME NEW c \in Iterations \ {it}, Creating(c), FarmOf(c) = f, a \in tried[c]
      PROVE  BeingMade(f, a)'
  <2>1. Creating(c)' /\ FarmOf(c)' = f /\ a \in tried'[c]
    BY <1>1 DEF Others, Creating, FarmOf
  <2> QED
    BY <2>1 DEF BeingMade
<1>2. ASSUME NEW d \in Iterations \ {it}, Deleting(d), farm[d] = f, a \in chosen[d][f]
      PROVE  BeingStruck(f, a)'
  <2>1. Deleting(d)' /\ farm'[d] = f /\ a \in chosen'[d][f]
    BY <1>2 DEF Others, Deleting
  <2> QED
    BY <2>1 DEF BeingStruck
<1> QED
  BY <1>1, <1>2

LEMMA MatchedStep ==
  ASSUME ShareInv, MatchedInv, NEW it \in Iterations, Step(it)
  PROVE  MatchedInv'
<1> SUFFICES ASSUME NEW f \in Farms, NEW a \in Addresses, Sound(f, a)' PROVE Matched(f, a)'
  BY DEF MatchedInv
<1>1. PlaceInv /\ RegistryInv /\ Types /\ Others(it)
  BY StepOfOne, TypesHold DEF ShareInv, PlaceInv
<1>2. <<f, a>> \notin overwritten => Matched(f, a)
  BY <1>1, SoundBefore DEF MatchedInv
<1>3. <<f, a>> \notin overwritten'
  BY DEF Sound
<1>4. Touches(it, f, a)' => at'[it] # "raised"
  BY DEF Sound
\* If it is creating or deleting the sandbox, it still is, and nothing changed.
<1>5. ASSUME <<f, a>> \notin overwritten, host'[f][a] = host[f][a], registry'[f][a] = registry[f][a],
             <<f, a>> \in unmade => <<f, a>> \in unmade',
             Creating(it) /\ FarmOf(it) = f /\ a \in tried[it] => BeingMade(f, a)',
             Deleting(it) /\ farm[it] = f /\ a \in chosen[it][f] => BeingStruck(f, a)'
      PROVE  Matched(f, a)'
  <2>1. BeingMade(f, a) => BeingMade(f, a)'
    BY <1>1, <1>5, OthersAtWork DEF BeingMade
  <2>2. BeingStruck(f, a) => BeingStruck(f, a)'
    BY <1>1, <1>5, OthersAtWork DEF BeingStruck
  <2> QED
    BY <1>2, <1>5, <2>1, <2>2 DEF Matched
<1>6. CASE Begins(it)
  <2>1. UNCHANGED <<host, registry, unmade, overwritten>> /\ ~Creating(it) /\ ~Deleting(it)
    BY <1>1, <1>6, BeginStep DEF Creating, Deleting
  <2> QED
    BY <1>3, <1>5, <2>1
<1>7. CASE Reads(it)
  <2>1. UNCHANGED <<host, registry, unmade, overwritten, tried, farm, chosen>>
    BY <1>1, <1>7, ReadStep
  <2>2. (Creating(it) => Creating(it)') /\ (Deleting(it) => Deleting(it)')
    BY <1>1, <1>7, ReadStep DEF Creating, Deleting
  <2>3. Creating(it) /\ FarmOf(it) = f /\ a \in tried[it] => BeingMade(f, a)'
    BY <2>1, <2>2 DEF BeingMade, FarmOf
  <2>4. Deleting(it) /\ farm[it] = f /\ a \in chosen[it][f] => BeingStruck(f, a)'
    BY <2>1, <2>2 DEF BeingStruck
  <2> QED
    BY <1>3, <1>5, <2>1, <2>3, <2>4
<1>8. CASE Makes(it)
  <2>1. PICK ran \in SUBSET All(it) : tried'[it] = tried[it] \cup ran /\ MadeThere(FarmOf(it), ran)
    BY <1>1, <1>8, MakeStep
  <2>2. /\ at'[it] \in {"create", "read", "raised"} /\ Creates(it) /\ ~Deleting(it)
        /\ UNCHANGED <<registry, overwritten>>
    BY <1>1, <1>8, MakeStep DEF Deleting
  <2>3. FarmOf(it) = f /\ a \in tried'[it] => BeingMade(f, a)'
    <3>1. ASSUME FarmOf(it) = f, a \in tried'[it] PROVE Creating(it)'
      BY <1>4, <2>2, <3>1 DEF Touches, Creating, Creates, FarmOf
    <3> QED
      BY <3>1 DEF BeingMade, FarmOf
  <2>4. CASE FarmOf(it) = f /\ a \in ran
    <3>1. host'[f][a] # Absent \/ <<f, a>> \in unmade'
      BY <2>1, <2>4 DEF MadeThere
    <3> QED
      BY <2>1, <2>3, <2>4, <3>1 DEF Matched
  <2>5. CASE ~(FarmOf(it) = f /\ a \in ran)
    <3>1. host'[f][a] = host[f][a] /\ (<<f, a>> \in unmade' <=> <<f, a>> \in unmade)
      BY <2>1, <2>5 DEF MadeThere
    <3> QED
      BY <1>3, <1>5, <2>1, <2>2, <2>3, <3>1
  <2> QED
    BY <2>4, <2>5
<1>9. CASE Cleans(it)
  <2>1. /\ at'[it] \in {"raised", "readDelete"} /\ ~Creating(it) /\ ~Deleting(it)
        /\ UNCHANGED <<registry, unmade, overwritten, chosen, tried>>
    BY <1>1, <1>9, CleanStep DEF Creating, Deleting
  <2>2. PICK g \in left[it] : \E r \in SUBSET chosen[it][g] :
           g \in Farms /\ CleanedThere(g, r) /\ farm'[it] = g
    BY <1>1, <1>9, CleanStep
  <2>3. PICK ran \in SUBSET chosen[it][g] : g \in Farms /\ CleanedThere(g, ran) /\ farm'[it] = g
    BY <2>2
  <2>4. CASE g = f /\ a \in ran
    <3>1. a \in chosen'[it][f]
      BY <2>1, <2>3, <2>4
    <3>2. Deleting(it)'
      BY <1>4, <2>1, <3>1 DEF Touches, Deleting
    <3>3. BeingStruck(f, a)' /\ host'[f][a] = Absent
      BY <2>3, <2>4, <3>1, <3>2 DEF BeingStruck, CleanedThere
    <3> QED
      BY <3>3 DEF Matched
  <2>5. CASE ~(g = f /\ a \in ran)
    <3>1. host'[f][a] = host[f][a]
      BY <2>3, <2>5 DEF CleanedThere
    <3> QED
      BY <1>3, <1>5, <2>1, <3>1
  <2> QED
    BY <2>4, <2>5
<1>10. CASE Saves(it)
  <2>1. UNCHANGED <<host, unmade>> /\ Saving(it) /\ farm[it] \in Farms
    BY <1>1, <1>10, SaveStep DEF Types
  <2>2. at[it] = "save" => /\ farm[it] = FarmOf(it) /\ Creating(it) /\ ~Deleting(it)
                           /\ SavedThere(it, farm[it], tried[it])
                           /\ \A x \in tried[it] : registry'[farm[it]][x] # Absent
    BY <1>1, <1>10, SaveStep DEF Creating, Deleting
  <2>3. at[it] = "saveDelete" => /\ ~Creating(it) /\ Deleting(it)
                                 /\ SavedThere(it, farm[it], chosen[it][farm[it]])
                                 /\ \A x \in chosen[it][farm[it]] : registry'[farm[it]][x] = Absent
    BY <1>1, <1>10, SaveStep DEF Creating, Deleting
  <2>4. CASE farm[it] # f
    <3>1. registry'[f][a] = registry[f][a] /\ <<f, a>> \notin overwritten
      BY <1>3, <2>1, <2>2, <2>3, <2>4 DEF SavedThere, Saving
    <3> QED
      BY <1>5, <2>1, <2>2, <2>3, <2>4, <3>1 DEF Saving
  <2>5. CASE farm[it] = f /\ at[it] = "save"
    <3>1. CASE a \in tried[it]
      <4>1. registry'[f][a] # Absent /\ (host[f][a] # Absent \/ <<f, a>> \in unmade)
        BY <2>2, <2>5, <3>1 DEF ShareInv, MakingInv
      <4> QED
        BY <2>1, <4>1 DEF Matched
    <3>2. CASE a \notin tried[it]
      <4>1. registry'[f][a] = registry[f][a] /\ <<f, a>> \notin overwritten
        BY <1>3, <2>2, <2>5, <3>2 DEF SavedThere
      <4> QED
        BY <1>5, <2>1, <2>2, <2>5, <3>2, <4>1
    <3> QED
      BY <3>1, <3>2
  <2>6. CASE farm[it] = f /\ at[it] = "saveDelete"
    <3>1. CASE a \in chosen[it][f]
      <4>1. registry'[f][a] = Absent /\ host[f][a] = Absent
        BY <2>3, <2>6, <3>1 DEF ShareInv, StrikingInv
      <4> QED
        BY <2>1, <4>1 DEF Matched
    <3>2. CASE a \notin chosen[it][f]
      <4>1. registry'[f][a] = registry[f][a] /\ <<f, a>> \notin overwritten
        BY <1>3, <2>3, <2>6, <3>2 DEF SavedThere
      <4> QED
        BY <1>5, <2>1, <2>3, <2>6, <3>2, <4>1
    <3> QED
      BY <3>1, <3>2
  <2> QED
    BY <2>1, <2>4, <2>5, <2>6 DEF Saving
<1> QED
  BY <1>6, <1>7, <1>8, <1>9, <1>10, FiveKinds

\* The farm's resource and its host agree, however the iterations on a farm
\* interleave (_add_sandbox_resource, _delete_sandbox_resource): the only
\* entries lost or left behind are those that a stale copy has overwritten,
\* and the only ones with nothing on the host those whose line left nothing.
THEOREM ResourceIsTrue ==
  ASSUME InTurn
  PROVE  Spec => []RegistryMatchesHost
<1>1. Init => MatchedInv
  BY DEF Init, MatchedInv, Matched, Empty
<1>2. ShareInv /\ MatchedInv /\ [Next]_vars => MatchedInv'
  <2> SUFFICES ASSUME ShareInv, MatchedInv, [Next]_vars PROVE MatchedInv'
    OBVIOUS
  <2>1. CASE UNCHANGED vars
    BY <2>1 DEF vars, MatchedInv, Matched, Sound, BeingMade, BeingStruck, Touches, Creating, Deleting,
                FarmOf
  <2> QED
    BY <2>1, MatchedStep DEF Next
<1>3. ShareInv /\ MatchedInv => RegistryMatchesHost
  <2> SUFFICES ASSUME ShareInv, MatchedInv, NEW f \in Farms, NEW a \in Addresses,
                      \A it \in Iterations : Touches(it, f, a) => at[it] = "returned",
                      <<f, a>> \notin overwritten
               PROVE  /\ host[f][a] # Absent => registry[f][a] # Absent
                      /\ registry[f][a] # Absent => host[f][a] # Absent \/ <<f, a>> \in unmade
    BY DEF RegistryMatchesHost
  <2>1. Sound(f, a)
    BY DEF Sound
  <2>2. ~BeingMade(f, a)
    BY DEF BeingMade, Creating, Touches, ShareInv, PlaceInv, RegistryInv, Loop
  <2>3. ~BeingStruck(f, a)
    BY DEF BeingStruck, Deleting, Touches
  <2> QED
    BY <2>1, <2>2, <2>3 DEF MatchedInv, Matched
<1> QED
  BY <1>1, <1>2, <1>3, ShareInvInit, ShareInvStep, PTL DEF Spec

-----------------------------------------------------------------------------
(* What a deletion has removed *)

NoneAfter(it) == \A j \in Iterations : it \in After[j] => at[j] = "begin"

\* So far as it has got, what it has chosen is on no host, and in no resource
\* but by a stale copy.
Gone(it) ==
    at[it] # "raised" /\ NoneAfter(it) =>
        \A f \in Farms \ left[it] : \A a \in chosen[it][f] :
            /\ host[f][a] = Absent
            /\ registry[f][a] = Absent \/ <<f, a>> \in overwritten

GoneInv == \A it \in Iterations : Gone(it)

\* Before an iteration that comes after i begins, none creates what i chose.
LEMMA NotMadeAgain ==
  ASSUME InTurn, ShareInv, NEW i \in Iterations, ~(at[i] = "raised"), NoneAfter(i),
         NEW c \in Iterations, Creates(c), Creating(c), NEW a \in Addresses, a \in All(c)
  PROVE  a \notin chosen[i][FarmOf(c)]
<1> SUFFICES ASSUME a \in chosen[i][FarmOf(c)] PROVE FALSE
  OBVIOUS
<1>1. PlaceInv /\ FreshInv /\ Begun(c) /\ ~Ended(c) /\ at[c] # "begin"
  BY DEF ShareInv, PlaceInv, Creating, Ended
<1>2. CASE Repeats(c)
  <2>1. FarmOf(c) \in MayUse(i) /\ i # c /\ at[i] # "begin" /\ Begun(i)
    BY <1>1, TaskType DEF PlaceInv, Place, Creating, Nothing
  <2>2. Ordered(c, i)
    BY <1>2, <2>1 DEF InTurn
  <2> QED
    BY <1>1, <2>1, <2>2 DEF Ordered, Begun, NoneAfter
<1>3. CASE ~Repeats(c)
  BY <1>1, <1>3 DEF FreshInv, Unused, Creating
<1> QED
  BY <1>2, <1>3

LEMMA GoneStep ==
  ASSUME InTurn, ShareInv, GoneInv, NEW it \in Iterations, Step(it)
  PROVE  GoneInv'
<1> SUFFICES ASSUME NEW i \in Iterations, at'[i] # "raised", NoneAfter(i)',
                    NEW f \in Farms, f \notin left'[i], NEW a \in chosen'[i][f]
             PROVE  host'[f][a] = Absent /\ (registry'[f][a] = Absent \/ <<f, a>> \in overwritten')
  BY DEF GoneInv, Gone
<1>1. PlaceInv /\ RegistryInv /\ Types /\ Others(it) /\ at'[it] # "begin" /\ ~Ended(it)
  BY StepOfOne, TypesHold DEF ShareInv, PlaceInv
<1>2. at[i] # "raised" /\ NoneAfter(i)
  <2>1. at[i] # "raised"
    BY <1>1 DEF Others, Ended
  <2>2. \A j \in Iterations : at'[j] = "begin" => at[j] = "begin"
    BY <1>1 DEF Others
  <2> QED
    BY <2>1, <2>2 DEF NoneAfter
<1>3. ASSUME f \notin left[i], a \in chosen[i][f]
      PROVE  host[f][a] = Absent /\ (registry[f][a] = Absent \/ <<f, a>> \in overwritten)
  BY <1>2, <1>3 DEF GoneInv, Gone
<1>4. i # it => f \notin left[i] /\ a \in chosen[i][f]
  BY <1>1 DEF Others
<1>5. a \in chosen[i][f] => a \in Addresses
  BY <1>1 DEF Types
<1>6. CASE Begins(it)
  <2>1. UNCHANGED <<host, registry, overwritten>>
    BY <1>1, <1>6, BeginStep
  <2>2. i = it => UNCHANGED <<chosen, left>>
    <3>1. CASE UNCHANGED <<chosen, left>>
      BY <3>1
    <3>2. CASE /\ chosen'[it] = [g \in Farms |-> Selected(it, g)]
               /\ left'[it] = {g \in Farms : Selected(it, g) # {}}
      BY <3>2
    <3> QED
      BY <1>1, <1>6, <3>1, <3>2, BeginStep
  <2> QED
    BY <1>3, <1>4, <2>1, <2>2
<1>7. CASE Makes(it)
  <2>1. PICK ran \in SUBSET All(it) : MadeThere(FarmOf(it), ran)
    BY <1>1, <1>7, MakeStep
  <2>2. UNCHANGED <<registry, overwritten, chosen, left>> /\ Creates(it) /\ Creating(it)
    BY <1>1, <1>7, MakeStep DEF Creating
  <2>3. f \notin left[i] /\ a \in chosen[i][f]
    BY <2>2
  <2>4. ~(f = FarmOf(it) /\ a \in ran)
    BY <1>2, <1>5, <2>2, <2>3, NotMadeAgain
  <2>5. host'[f][a] = host[f][a]
    BY <1>5, <2>1, <2>3, <2>4 DEF MadeThere
  <2> QED
    BY <1>3, <2>2, <2>3, <2>5
<1>8. CASE Reads(it)
  <2>1. UNCHANGED <<host, registry, overwritten, chosen, left>>
    BY <1>1, <1>8, ReadStep
  <2> QED
    BY <1>3, <2>1
<1>9. CASE Cleans(it)
  <2>1. UNCHANGED <<registry, overwritten, chosen, left>>
    BY <1>1, <1>9, CleanStep
  <2>2. PICK g \in left[it] : \E ran \in SUBSET chosen[it][g] : CleanedThere(g, ran)
    BY <1>1, <1>9, CleanStep
  <2>3. host[f][a] = Absent /\ a \in Addresses
    BY <1>3, <1>5, <2>1
  <2>4. host'[f][a] = Absent
    BY <2>2, <2>3 DEF CleanedThere
  <2> QED
    BY <1>3, <2>1, <2>4
<1>10. CASE Saves(it)
  <2>1. host' = host /\ Saving(it) /\ farm[it] \in Farms
    BY <1>1, <1>10, SaveStep DEF Types
  <2>2. CASE at[it] = "save"
    <3>1. /\ SavedThere(it, farm[it], tried[it]) /\ farm[it] = FarmOf(it) /\ Creates(it)
          /\ tried[it] \subseteq All(it) /\ Creating(it)
      BY <1>1, <1>10, <2>2, SaveStep DEF Creating
    <3>2. f \notin left[i] /\ a \in chosen[i][f]
      <4>1. CASE i # it
        BY <1>4, <4>1
      <4>2. CASE i = it
        <5>1. chosen[it] = Nothing /\ left[it] = {}
          BY <1>1, <2>2 DEF PlaceInv, Place, Nothing
        <5>2. \/ UNCHANGED <<chosen, left>>
              \/ /\ chosen'[it] = [chosen[it] EXCEPT ![farm[it]] = Returned(it)]
                 /\ left'[it] = {farm[it]}
          BY <1>1, <1>10, <2>2, SaveStep
        <5> QED
          BY <4>2, <5>1, <5>2 DEF Nothing
      <4> QED
        BY <4>1, <4>2
    <3>3. ~(f = farm[it] /\ a \in tried[it])
      BY <1>2, <1>5, <3>1, <3>2, NotMadeAgain
    <3>4. registry'[f][a] = registry[f][a] \/ <<f, a>> \in overwritten'
      BY <1>5, <3>1, <3>2, <3>3 DEF SavedThere
    <3>5. <<f, a>> \in overwritten => <<f, a>> \in overwritten'
      BY <1>5, <3>1, <3>2, <3>3 DEF SavedThere
    <3> QED
      BY <1>3, <2>1, <3>2, <3>4, <3>5
  <2>3. CASE at[it] = "saveDelete"
    <3>1. /\ SavedThere(it, farm[it], chosen[it][farm[it]]) /\ UNCHANGED chosen
          /\ \A x \in chosen[it][farm[it]] : registry'[farm[it]][x] = Absent
          /\ left'[it] = left[it] \ {farm[it]}
      BY <1>1, <1>10, <2>3, SaveStep
    <3>2. CASE f = farm[it] /\ a \in chosen[it][f]
      <4>1. host[f][a] = Absent /\ registry'[f][a] = Absent
        BY <2>3, <3>1, <3>2 DEF ShareInv, StrikingInv, Deleting
      <4> QED
        BY <2>1, <4>1
    <3>3. CASE ~(f = farm[it] /\ a \in chosen[it][f])
      <4>1. f \notin left[i] /\ a \in chosen[i][f] /\ a \in Addresses
        BY <1>4, <1>5, <3>1, <3>3
      <4>2. registry'[f][a] = registry[f][a] \/ <<f, a>> \in overwritten'
        BY <3>1, <3>3, <4>1 DEF SavedThere
      <4>3. <<f, a>> \in overwritten => <<f, a>> \in overwritten'
        BY <3>1, <3>3, <4>1 DEF SavedThere
      <4> QED
        BY <1>3, <2>1, <4>1, <4>2, <4>3
    <3> QED
      BY <3>2, <3>3
  <2> QED
    BY <2>1, <2>2, <2>3 DEF Saving
<1> QED
  BY <1>6, <1>7, <1>8, <1>9, <1>10, FiveKinds

\* What a deletion that returned had chosen stays away until an iteration that
\* comes after it begins, whatever the others on the farm do meanwhile; only a
\* stale copy may list it again (_delete_sandboxes, create_and_delete_sandbox).
THEOREM DeletedStaysGone ==
  ASSUME InTurn
  PROVE  Spec => []DeletedIsGone
<1>1. Init => GoneInv
  BY DEF Init, GoneInv, Gone, Nothing
<1>2. ShareInv /\ GoneInv /\ [Next]_vars => GoneInv'
  <2> SUFFICES ASSUME ShareInv, GoneInv, [Next]_vars PROVE GoneInv'
    OBVIOUS
  <2>1. CASE UNCHANGED vars
    BY <2>1 DEF vars, GoneInv, Gone, NoneAfter
  <2> QED
    BY <2>1, GoneStep DEF Next
<1>3. ShareInv /\ GoneInv => DeletedIsGone
  <2> SUFFICES ASSUME ShareInv, GoneInv, NEW it \in Iterations, at[it] = "returned",
                      Task[it].kind # "create", NoneAfter(it)
               PROVE  \A f \in Farms : \A a \in chosen[it][f] :
                         /\ host[f][a] = Absent
                         /\ registry[f][a] = Absent \/ <<f, a>> \in overwritten
    BY DEF DeletedIsGone, NoneAfter
  <2>1. left[it] = {}
    BY DEF ShareInv, PlaceInv, Place
  <2> QED
    BY <2>1 DEF GoneInv, Gone
<1> QED
  BY <1>1, <1>2, <1>3, ShareInvInit, ShareInvStep, PTL DEF Spec

-----------------------------------------------------------------------------
\* What is written back is what is there.
CopiesInv ==
    /\ overwritten = {}
    /\ \A it \in Iterations : Saving(it) =>
          \A a \in Addresses : copy[it][a] = registry[farm[it]][a]

\* A farm where iterations work one at a time never loses an entry: the stale
\* copies of the two theorems above need two at once.
THEOREM NothingOverwritten ==
  ASSUME OneAtATime
  PROVE  Spec => [](overwritten = {})
<1>1. Init => CopiesInv
  BY DEF Init, CopiesInv, Saving
<1>2. ASSUME PlaceInv, CopiesInv, NEW it \in Iterations, Step(it)
      PROVE  CopiesInv'
  <2>1. RegistryInv /\ Types /\ Others(it) /\ overwritten' \subseteq Farms \X Addresses
    <3>1. RegistryInv'
      BY <1>2, StepInv DEF PlaceInv, Next
    <3> QED
      BY <1>2, <3>1, StepOfOne, TypesHold DEF PlaceInv, RegistryInv, TypeOK
  <2>2. ASSUME NEW j \in Iterations \ {it}, Saving(j), Saving(it) PROVE farm[it] # farm[j]
    <3>1. ASSUME NEW k \in Iterations, Saving(k)
          PROVE  farm[k] \in MayUse(k) /\ Begun(k) /\ ~Ended(k) /\ at[k] # "begin"
      <4>1. Begun(k) /\ Place(k) /\ Loop(k) /\ farm[k] \in Farms
        BY <1>2, <2>1 DEF PlaceInv, RegistryInv, Types
      <4>2. CASE at[k] = "save"
        BY <4>1, <4>2 DEF Loop, Place, MayUse, Creates, Ended
      <4>3. CASE at[k] = "saveDelete"
        BY <4>1, <4>3 DEF Place, Deleting, Ended
      <4> QED
        BY <3>1, <4>2, <4>3 DEF Saving
    <3>2. ~Ordered(it, j)
      BY <2>2, <3>1 DEF Ordered, Begun
    <3> QED
      BY <2>2, <3>1, <3>2 DEF OneAtATime
  <2>3. CASE Saves(it)
    <3>1. Saving(it) /\ ~Saving(it)' /\ UNCHANGED <<farm, copy>> /\ farm[it] \in Farms
      BY <1>2, <2>1, <2>3, SaveStep DEF Saving, Types
    <3>2. \E own \in SUBSET Addresses : SavedThere(it, farm[it], own)
      <4>1. tried[it] \in SUBSET Addresses /\ chosen[it][farm[it]] \in SUBSET Addresses
        BY <2>1, <3>1 DEF Types
      <4> QED
        BY <1>2, <2>3, <3>1, <4>1, SaveStep DEF Saving
    <3>3. PICK own \in SUBSET Addresses : SavedThere(it, farm[it], own)
      BY <3>2
    <3>4. ASSUME NEW g \in Farms, NEW a \in Addresses PROVE <<g, a>> \notin overwritten'
      <4>1. copy[it][a] = registry[farm[it]][a]
        BY <1>2, <3>1 DEF CopiesInv
      <4>2. <<g, a>> \notin overwritten
        BY <1>2 DEF CopiesInv
      <4>3. CASE g # farm[it]
        BY <3>3, <4>2, <4>3 DEF SavedThere
      <4>4. CASE g = farm[it]
        BY <3>3, <4>1, <4>2, <4>4 DEF SavedThere
      <4> QED
        BY <4>3, <4>4
    <3>5. \A g \in Farms \ {farm[it]} : \A a \in Addresses : registry'[g][a] = registry[g][a]
      BY <3>3 DEF SavedThere
    <3>6. ASSUME NEW j \in Iterations, Saving(j)', NEW a \in Addresses
          PROVE  copy'[j][a] = registry'[farm'[j]][a]
      <4>1. j # it /\ Saving(j) /\ farm[j] \in Farms
        BY <2>1, <3>1, <3>6 DEF Others, Saving, Types
      <4>2. copy[j][a] = registry[farm[j]][a]
        BY <1>2, <4>1 DEF CopiesInv
      <4>3. farm[j] # farm[it]
        BY <2>2, <3>1, <4>1
      <4> QED
        BY <3>1, <3>5, <4>1, <4>2, <4>3
    <3> QED
      BY <2>1, <3>4, <3>6 DEF CopiesInv
  <2>4. CASE Reads(it)
    <3>1. UNCHANGED <<registry, farm, overwritten>> /\ copy'[it] = registry[farm[it]]
      BY <2>1, <2>4, ReadStep
    <3>2. \A j \in Iterations \ {it} : copy'[j] = copy[j] /\ (Saving(j)' => Saving(j))
      BY <2>1 DEF Others, Saving
    <3> QED
      BY <1>2, <3>1, <3>2 DEF CopiesInv
  <2>5. CASE Begins(it) \/ Makes(it) \/ Cleans(it)
    <3>1. UNCHANGED <<registry, overwritten>> /\ ~Saving(it)'
      BY <1>2, <2>1, <2>5, BeginStep, MakeStep, CleanStep DEF Saving
    <3>2. \A j \in Iterations \ {it} : UNCHANGED <<copy[j], farm[j]>> /\ (Saving(j)' => Saving(j))
      BY <2>1 DEF Others, Saving
    <3> QED
      BY <1>2, <3>1, <3>2 DEF CopiesInv
  <2> QED
    BY <1>2, <2>3, <2>4, <2>5, FiveKinds
<1>3. PlaceInv /\ CopiesInv /\ [Next]_vars => CopiesInv'
  <2>1. CASE UNCHANGED vars
    BY <2>1 DEF vars, CopiesInv, Saving
  <2> QED
    BY <1>2, <2>1 DEF Next
<1>4. CopiesInv => overwritten = {}
  BY DEF CopiesInv
<1> QED
  BY <1>1, <1>3, <1>4, PlaceInvInit, PlaceInvStep, PTL DEF Spec

-----------------------------------------------------------------------------
\* A sandbox on a host is one that an iteration created there.
CreatedHere ==
    \A f \in Farms : \A a \in Addresses : host[f][a] # Absent =>
        \E it \in Iterations : Task[it].kind # "delete" /\ FarmOf(it) = f /\ a \in tried[it]

LEMMA CreatedHereStep == PlaceInv /\ CreatedHere /\ [Next]_vars => CreatedHere'
<1> SUFFICES ASSUME PlaceInv, CreatedHere, [Next]_vars PROVE CreatedHere'
  OBVIOUS
<1>1. CASE UNCHANGED vars
  BY <1>1 DEF CreatedHere, FarmOf, vars
<1>2. ASSUME NEW it \in Iterations, Step(it) PROVE CreatedHere'
  <2>1. PlaceInv /\ RegistryInv /\ Others(it)
    BY <1>2, StepOfOne DEF PlaceInv
  <2>2. tried[it] \subseteq tried'[it]
    <3>1. Makes(it) => tried[it] \subseteq tried'[it]
      BY <2>1, MakeStep
    <3>2. ~Makes(it) => tried' = tried
      BY <1>2, <2>1, BeginStep, ReadStep, SaveStep, CleanStep, FiveKinds
    <3> QED
      BY <3>1, <3>2
  <2>3. ASSUME NEW f \in Farms, NEW a \in Addresses, host'[f][a] # Absent
        PROVE  host[f][a] # Absent \/ (Creates(it) /\ FarmOf(it) = f /\ a \in tried'[it])
    <3>1. CASE Makes(it)
      <4>1. PICK ran \in SUBSET All(it) :
               tried'[it] = tried[it] \cup ran /\ MadeThere(FarmOf(it), ran)
        BY <2>1, <3>1, MakeStep
      <4>2. Creates(it)
        BY <2>1, <3>1, MakeStep
      <4>3. ~(f = FarmOf(it) /\ a \in ran) => host'[f][a] = host[f][a]
        BY <4>1 DEF MadeThere
      <4> QED
        BY <2>3, <4>1, <4>2, <4>3
    <3>2. CASE Cleans(it)
      <4>1. PICK g \in left[it] : \E ran \in SUBSET chosen[it][g] : CleanedThere(g, ran)
        BY <2>1, <3>2, CleanStep
      <4> QED
        BY <2>3, <4>1 DEF CleanedThere
    <3>3. CASE Begins(it) \/ Reads(it) \/ Saves(it)
      BY <2>1, <2>3, <3>3, BeginStep, ReadStep, SaveStep
    <3> QED
      BY <1>2, <3>1, <3>2, <3>3, FiveKinds
  <2> QED
    BY <2>1, <2>2, <2>3 DEF CreatedHere, Creates, Others, FarmOf
<1> QED
  BY <1>1, <1>2 DEF Next

\* Where iterations that create on different farms have addresses of their
\* own, no address is ever on two hosts (_create_sandbox).
THEOREM TunnelEndpointsDiffer ==
  ASSUME AddressesApart
  PROVE  Spec => []AddressOnOneHost
<1>1. Init => CreatedHere
  BY DEF Init, Empty, CreatedHere
<1>2. PlaceInv /\ CreatedHere => AddressOnOneHost
  BY DEF PlaceInv, RegistryInv, Loop, CreatedHere, AddressesApart, AddressOnOneHost
<1> QED
  BY <1>1, <1>2, PlaceInvInit, PlaceInvStep, CreatedHereStep, PTL DEF Spec

\* The iterations of one workload that numbers its farms have: create_sandbox
\* moves the first address by iteration * amount + 1 (ovn_sandbox.py:115).
THEOREM NumberedFarmsApart ==
  ASSUME NEW i \in Iterations, NEW j \in Iterations, i # j,
         Task[i].farm = NoFarm, Task[j].farm = NoFarm,
         Task[i].start = Task[j].start, Task[i].amount = Task[j].amount
  PROVE  All(i) \cap All(j) = {}
<1> DEFINE n == Amount(i)
           s == Task[i].start
<1>1. i \in Nat /\ j \in Nat /\ n \in Nat \ {0} /\ s \in Nat
  BY TaskType, RegistryAssumption DEF RegistryAssumption, Tasks
<1>2. /\ All(i) = (s + (i * n + 1))..(s + (i * n + 1) + n - 1)
      /\ All(j) = (s + (j * n + 1))..(s + (j * n + 1) + n - 1)
  BY DEF All, FirstAddress, Amount
<1> HIDE DEF n, s
<1>3. ASSUME NEW p \in Nat, NEW q \in Nat, p < q
      PROVE  /\ (s + (p * n + 1))..(s + (p * n + 1) + n - 1)
                   \cap (s + (q * n + 1))..(s + (q * n + 1) + n - 1) = {}
  <2>1. q * n >= p * n + n /\ p * n \in Nat /\ q * n \in Nat
    <3>1. (q - p - 1) \in Nat /\ n \in Nat
      BY <1>1, <1>3
    <3>2. (q - p - 1) * n \in Nat
      BY <3>1
    <3>3. (q - p - 1) * n = q * n - p * n - n
      BY <1>1, <1>3
    <3>4. p * n \in Nat /\ q * n \in Nat
      BY <1>1
    <3> QED
      BY <1>1, <3>2, <3>3, <3>4
  <2> DEFINE P == p * n
             Q == q * n
  <2> HIDE DEF P, Q
  <2>2. P \in Nat /\ Q \in Nat /\ Q >= P + n
    BY <2>1 DEF P, Q
  <2>3. (s + (P + 1))..(s + (P + 1) + n - 1) \cap (s + (Q + 1))..(s + (Q + 1) + n - 1) = {}
    BY <1>1, <2>2
  <2> QED
    BY <2>3 DEF P, Q
<1>4. i < j \/ j < i
  BY <1>1
<1> QED
  BY <1>1, <1>2, <1>3, <1>4
=============================================================================
