---------------------------- MODULE EngineProofs ----------------------------
(***************************************************************************)
(* Proofs about Engine: the node's unique id is the same in every run, and *)
(* the operator's edits survive, for any number of launches, ids and edits *)
(* and every combination of faults.                                        *)
(***************************************************************************)
EXTENDS Engine, FiniteSetTheorems, TLAPS

(* Sections keeps a configuration a configuration. *)
LEMMA SectionsType ==
  ASSUME NEW r \in Config, NEW n \in 0..NumSections
  PROVE  Content(r, n) \in [root : Config, whole : BOOLEAN]
  BY EngineAssumption DEF Content, Sections, Config, NumSections, NoId

(* A whole save holds exactly what the process had in memory. *)
LEMMA WholeSave ==
  ASSUME NEW r \in Config
  PROVE  Content(r, NumSections).root = r
  BY DEF Content, Sections, Config, NumSections

(* The shipped configuration is one. *)
LEMMA ShippedType == Shipped \in Config
  BY EngineAssumption DEF Shipped, Config, NoId

(* Init gives every variable its type. *)
LEMMA TypeInit == Init => TypeOK
  <1> SUFFICES ASSUME Init PROVE TypeOK
    OBVIOUS
  <1>1. file \in [root : Config, whole : BOOLEAN]
    BY SectionsType, ShippedType DEF Init, NumSections
  <1>2. pc \in [Launches -> Steps] /\ dirty \in [Launches -> BOOLEAN]
    BY DEF Init, Steps
  <1>3. root \in [Launches -> Config]
    BY ShippedType DEF Init
  <1>4. drawn \in 0..MaxIds /\ edits \in 0..MaxEdits /\ shown \subseteq 0..MaxIds
    BY EngineAssumption DEF Init
  <1> QED
    BY <1>1, <1>2, <1>3, <1>4 DEF Init, TypeOK

(* Every step keeps the types. *)
LEMMA TypeStep == TypeOK /\ [Next]_vars => TypeOK'
  <1> SUFFICES ASSUME TypeOK, [Next]_vars
               PROVE  TypeOK'
    OBVIOUS
  <1> USE EngineAssumption
  <1>1. ASSUME NEW p \in Launches, LoadConfig(p) PROVE TypeOK'
    <2>1. overlap' \in BOOLEAN
      BY <1>1 DEF LoadConfig, TypeOK, Unsettled, Starting
    <2> QED
      BY <1>1, <2>1 DEF LoadConfig, TypeOK, Steps, Goto
  <1>2. ASSUME NEW p \in Launches, Exits(p) PROVE TypeOK'
    <2>1. damaged' \in BOOLEAN
      BY <1>2 DEF Exits, TypeOK, Owes
    <2> QED
      BY <1>2, <2>1, ShippedType DEF Exits, TypeOK, Steps, Goto
  <1>3. ASSUME NEW p \in Launches, MakeTransport(p) PROVE TypeOK'
    BY <1>3 DEF MakeTransport, TypeOK, Steps, Goto
  <1>4. ASSUME NEW p \in Launches, GetUniqueId(p) PROVE TypeOK'
    <2>1. CASE root[p].id # NoId
      BY <1>4, <2>1 DEF GetUniqueId, TypeOK, Steps, Goto
    <2>2. CASE root[p].id = NoId
      <3>1. drawn' = drawn + 1 /\ drawn < MaxIds /\ root' = [root EXCEPT ![p].id = drawn']
        BY <1>4, <2>2 DEF GetUniqueId
      <3>2. drawn' \in 0..MaxIds
        BY <3>1 DEF TypeOK
      <3>3. root' \in [Launches -> Config]
        BY <3>1, <3>2 DEF TypeOK, Config
      <3> QED
        BY <1>4, <2>2, <3>2, <3>3 DEF GetUniqueId, TypeOK, Steps, Goto, DirtyWithNewId
    <2> QED
      BY <2>1, <2>2
  <1>5. ASSUME NEW p \in Launches, OpenFile(p) PROVE TypeOK'
    <2>1. Content(root[p], 0) \in [root : Config, whole : BOOLEAN]
      BY SectionsType DEF TypeOK, NumSections
    <2>2. pc' \in [Launches -> Steps]
      BY <1>5 DEF OpenFile, TypeOK, Steps, Goto
    <2>3. file' \in [root : Config, whole : BOOLEAN]
      BY <1>5, <2>1 DEF OpenFile, TypeOK
    <2>4. dirty' \in [Launches -> BOOLEAN] /\ damaged' \in BOOLEAN
      BY <1>5 DEF OpenFile, TypeOK
    <2> QED
      BY <1>5, <2>2, <2>3, <2>4 DEF OpenFile, TypeOK
  <1>6. ASSUME NEW p \in Launches, WriteFile(p) PROVE TypeOK'
    <2>1. \A n \in 0..NumSections : Content(root[p], n) \in [root : Config, whole : BOOLEAN]
      BY SectionsType DEF TypeOK
    <2>2. \E n \in 0..NumSections : file' = Content(root[p], n)
      BY <1>6 DEF WriteFile, NumSections
    <2>4. damaged' \in BOOLEAN
      BY <1>6 DEF WriteFile, TypeOK
    <2>3. pc' \in [Launches -> Steps]
      BY <1>6 DEF WriteFile, TypeOK, Steps, Goto
    <2>5. dirty' \in [Launches -> BOOLEAN]
      BY <1>6 DEF WriteFile, TypeOK
    <2> QED
      BY <1>6, <2>1, <2>2, <2>3, <2>4, <2>5 DEF WriteFile, TypeOK
  <1>7. ASSUME NEW p \in Launches, SetUniqueId(p) PROVE TypeOK'
    <2>1. root[p].id \in 0..MaxIds
      BY DEF TypeOK, Config
    <2>2. pc' \in [Launches -> Steps]
      BY <1>7 DEF SetUniqueId, TypeOK, Steps, Goto
    <2> QED
      BY <1>7, <2>1, <2>2 DEF SetUniqueId, TypeOK
  <1>8. ASSUME NEW p \in Launches, StartIpc(p) \/ Stop(p) PROVE TypeOK'
    BY <1>8 DEF StartIpc, Stop, TypeOK, Steps, Goto
  <1>9. ASSUME NEW p \in Launches, Crash(p) PROVE TypeOK'
    <2>1. \A n \in 0..NumSections : Content(root[p], n) \in [root : Config, whole : BOOLEAN]
      BY SectionsType DEF TypeOK
    <2>2. file' = file \/ \E n \in 0..NumSections : file' = Content(root[p], n)
      BY <1>9 DEF Crash, NumSections
    <2>4. damaged' \in BOOLEAN
      BY <1>9 DEF Crash, TypeOK, Owes
    <2>3. pc' \in [Launches -> Steps] /\ root' \in [Launches -> Config]
          /\ dirty' \in [Launches -> BOOLEAN]
      BY <1>9, ShippedType DEF Crash, TypeOK, Steps, Goto
    <2> QED
      BY <1>9, <2>1, <2>2, <2>3, <2>4 DEF Crash, TypeOK
  <1>10. CASE Edit
    <2>1. edits' \in 0..MaxEdits
      BY <1>10 DEF Edit, TypeOK
    <2>2. [Shipped EXCEPT !.id = file.root.id, !.rest = edits'] \in Config
      BY <2>1, ShippedType DEF TypeOK, Config
    <2>3. file' \in [root : Config, whole : BOOLEAN]
      BY <1>10, <2>2, SectionsType DEF Edit, NumSections
    <2>4. raced' \in BOOLEAN
      BY <1>10 DEF Edit, TypeOK, Unsettled, Starting
    <2> QED
      BY <1>10, <2>1, <2>3, <2>4 DEF Edit, TypeOK
  <1>11. CASE UNCHANGED vars
    BY <1>11 DEF vars, TypeOK
  <1>12. ASSUME NEW p \in Launches, SaveThrows(p) PROVE TypeOK'
    BY <1>2, <1>12 DEF SaveThrows, TypeOK, Steps, Goto
  <1> QED
    BY <1>1, <1>2, <1>3, <1>4, <1>5, <1>6, <1>7, <1>8, <1>9, <1>10, <1>11, <1>12
    DEF Next, LoadConfigFails, MakeTransportFails, StartIpcFails, Exit

(* Type correctness of the configuration file and of every process's copy  *)
(* of it: a save cut short anywhere still leaves a configuration that      *)
(* loadConfig can meet.                                                    *)
THEOREM EngineTypeCorrect == Spec => []TypeOK
  BY TypeInit, TypeStep, PTL DEF Spec
---------------------------------------------------------------------------
Named == {"named", "ipc", "run", "exit"}

(* Only a process that has drawn an id has something to save, from then on *)
(* until the file is written: at once, or at its end if save() threw.      *)
DirtyInv ==
  \A p \in Launches :
    /\ dirty[p] => pc[p] \in {"save", "write", "lastWrite"} \cup Named
    /\ pc[p] \in {"save", "write", "lastWrite"} => dirty[p]

(* As long as no two starts overlapped and every save went through, a      *)
(* process that may still write the file is alone with it: what it loaded  *)
(* is still there, or it has drawn an id and the file has none.  A process *)
(* past that point has the file's id, and so has every node ever shown, or *)
(* it has the id of the one process that is still to save it.              *)
IdInv ==
  overlap \/ damaged \/
    /\ \A p, q \in Launches : Unsettled(p) /\ Unsettled(q) => p = q
    /\ \A p \in Launches :
         /\ pc[p] \in {"init", "node"} => root[p].id = file.root.id
         /\ dirty[p] => root[p].id # NoId /\ file.root.id = NoId
         /\ pc[p] \in Named /\ ~dirty[p] => root[p].id # NoId /\ root[p].id = file.root.id
    /\ \A i \in shown :
         /\ i # NoId
         /\ i = file.root.id \/ \E p \in Launches : dirty[p] /\ i = root[p].id

(* As long as nobody edited the file under an unsettled process and every  *)
(* save went through, the edits are in the file, or the file is being      *)
(* written and whoever loads it finds no interfaces and gives up; every    *)
(* process that will write the file has them too.                          *)
EditInv ==
  raced \/ damaged \/
    /\ file.root.interfaces => file.root.rest = edits
    /\ (\A p \in Launches : ~Writing(p)) => file.root.rest = edits
    /\ \A p \in Launches :
         /\ pc[p] = "init" /\ root[p].interfaces => root[p].rest = edits
         /\ pc[p] = "node" \/ dirty[p] => root[p].rest = edits

(* What is in a file that has just been emptied. *)
LEMMA EmptyFile ==
  ASSUME NEW r \in Config
  PROVE  Content(r, 0).root.id = NoId /\ ~Content(r, 0).root.interfaces
  <1>1. Content(r, 0).root.id = NoId
    BY DEF Content, Sections, Config
  <1>2. Content(r, 0).root.interfaces = (0 >= 2 /\ r.interfaces)
    BY Zenon DEF Content, Sections
  <1>3. ~(0 >= 2)
    OBVIOUS
  <1> QED
    BY <1>1, <1>2, <1>3

(* What the operator's edit leaves in the file. *)
LEMMA EditedFile ==
  ASSUME TypeOK, Edit
  PROVE  /\ file'.root.id = file.root.id
         /\ file'.root.rest = edits'
  BY DEF Edit, TypeOK, Config, Content, Sections, NumSections, Shipped

(* A step of any process or of the operator leaves DirtyInv intact. *)
LEMMA DirtyStep == TypeOK /\ DirtyInv /\ [Next]_vars => DirtyInv'
  <1> SUFFICES ASSUME TypeOK, DirtyInv, [Next]_vars
               PROVE  DirtyInv'
    OBVIOUS
  <1> USE DEF DirtyInv, TypeOK, Goto, Named
  <1>1. ASSUME NEW p \in Launches, LoadConfig(p) PROVE DirtyInv'
    BY <1>1 DEF LoadConfig
  <1>2. ASSUME NEW p \in Launches, Exits(p) PROVE DirtyInv'
    BY <1>2 DEF Exits
  <1>3. ASSUME NEW p \in Launches, MakeTransport(p) \/ SetUniqueId(p) \/ StartIpc(p) \/ Stop(p)
        PROVE  DirtyInv'
    BY <1>3 DEF MakeTransport, SetUniqueId, StartIpc, Stop
  <1>4. ASSUME NEW p \in Launches, GetUniqueId(p) PROVE DirtyInv'
    BY <1>4 DEF GetUniqueId, DirtyWithNewId
  <1>5. ASSUME NEW p \in Launches, OpenFile(p) PROVE DirtyInv'
    BY <1>5 DEF OpenFile, NeedsSaving
  <1>6. ASSUME NEW p \in Launches, WriteFile(p) PROVE DirtyInv'
    BY <1>6 DEF WriteFile, Writing
  <1>7. ASSUME NEW p \in Launches, Crash(p) PROVE DirtyInv'
    BY <1>7 DEF Crash
  <1>8. CASE Edit
    BY <1>8 DEF Edit
  <1>9. CASE UNCHANGED vars
    BY <1>9 DEF vars
  <1>10. ASSUME NEW p \in Launches, SaveThrows(p) PROVE DirtyInv'
    BY <1>2, <1>10 DEF SaveThrows
  <1> QED
    BY <1>1, <1>2, <1>3, <1>4, <1>5, <1>6, <1>7, <1>8, <1>9, <1>10
    DEF Next, LoadConfigFails, MakeTransportFails, StartIpcFails, Exit

(* A process that ends without writing the file, and without owing it the  *)
(* id of a node ever shown, leaves IdInv intact.                           *)
LEMMA IdEnds ==
  ASSUME TypeOK, DirtyInv, IdInv, NEW p \in Launches, ~overlap, ~damaged, ~Owes(p),
         pc' = [pc EXCEPT ![p] = "off"],
         root' = [root EXCEPT ![p] = Shipped],
         dirty' = [dirty EXCEPT ![p] = FALSE],
         file' = file, shown' = shown
  PROVE  IdInv'
  <1> USE DEF IdInv, TypeOK, Named, Starting, Unsettled
  <1>1. \A q \in Launches : q # p => pc'[q] = pc[q] /\ root'[q] = root[q] /\ dirty'[q] = dirty[q]
    OBVIOUS
  <1>2. pc'[p] = "off" /\ dirty'[p] = FALSE
    OBVIOUS
  <1>3. \A q1, q2 \in Launches : Unsettled(q1)' /\ Unsettled(q2)' => q1 = q2
    BY <1>1, <1>2
  <1>4. ASSUME NEW i \in shown
        PROVE  i # NoId /\ (i = file.root.id \/ \E q \in Launches : dirty'[q] /\ i = root'[q].id)
    BY <1>1, <1>2 DEF Owes
  <1>5. \A q \in Launches :
          /\ pc'[q] \in {"init", "node"} => root'[q].id = file'.root.id
          /\ dirty'[q] => root'[q].id # NoId /\ file'.root.id = NoId
          /\ pc'[q] \in Named /\ ~dirty'[q] => root'[q].id # NoId /\ root'[q].id = file'.root.id
    BY <1>1, <1>2
  <1> QED
    BY <1>3, <1>4, <1>5

(* A step of any process or of the operator leaves IdInv intact. *)
LEMMA IdStep == TypeOK /\ DirtyInv /\ IdInv /\ [Next]_vars => IdInv'
  <1> SUFFICES ASSUME TypeOK, DirtyInv, IdInv, [Next]_vars, ~overlap', ~damaged'
               PROVE  IdInv'
    BY DEF IdInv
  <1> USE DEF IdInv, TypeOK, Goto, Named, Starting, Unsettled
  <1>1. ASSUME NEW p \in Launches, LoadConfig(p) PROVE IdInv'
    <2>1. /\ ~overlap /\ ~damaged /\ UNCHANGED <<file, shown>>
          /\ pc' = [pc EXCEPT ![p] = "init"] /\ root' = [root EXCEPT ![p] = file.root]
          /\ dirty' = [dirty EXCEPT ![p] = FALSE] /\ \A q \in Launches : ~Unsettled(q)
      BY <1>1 DEF LoadConfig
    <2>2. \A q \in Launches : ~dirty[q] /\ ~dirty'[q]
      BY <2>1
    <2>3. \A q \in Launches : q # p => pc'[q] = pc[q] /\ root'[q] = root[q]
      BY <2>1
    <2>4. pc'[p] = "init" /\ root'[p].id = file.root.id
      BY <2>1
    <2>5. \A i \in shown : i # NoId /\ i = file.root.id
      BY <2>1, <2>2
    <2> QED
      BY <2>1, <2>2, <2>3, <2>4, <2>5
  <1>2. ASSUME NEW p \in Launches, Exits(p) PROVE IdInv'
    <2>1. ~overlap /\ ~damaged /\ ~Owes(p)
      BY <1>2 DEF Exits
    <2> QED
      BY <1>2, <2>1, IdEnds DEF Exits
  <1>3. ASSUME NEW p \in Launches, MakeTransport(p) \/ StartIpc(p) \/ Stop(p)
        PROVE  IdInv'
    <2>1. CASE MakeTransport(p)
      BY <2>1 DEF MakeTransport
    <2>2. CASE StartIpc(p)
      BY <2>2 DEF StartIpc
    <2>3. CASE Stop(p)
      BY <2>3 DEF Stop
    <2> QED
      BY <1>3, <2>1, <2>2, <2>3
  <1>4. ASSUME NEW p \in Launches, GetUniqueId(p) PROVE IdInv'
    <2>0. ~dirty[p] /\ Unsettled(p)
      BY <1>4 DEF GetUniqueId, DirtyInv
    <2>1. CASE root[p].id # NoId
      BY <1>4, <2>0, <2>1 DEF GetUniqueId
    <2>2. CASE root[p].id = NoId
      <3>1. /\ ~overlap /\ ~damaged /\ pc[p] = "node" /\ pc' = [pc EXCEPT ![p] = "save"]
            /\ file' = file /\ shown' = shown /\ dirty' = [dirty EXCEPT ![p] = TRUE]
            /\ drawn' = drawn + 1 /\ root' = [root EXCEPT ![p].id = drawn + 1]
        BY <1>4, <2>2 DEF GetUniqueId, DirtyWithNewId
      <3>2. root'[p].id = drawn + 1 /\ drawn + 1 # NoId
        BY <3>1 DEF Config, NoId
      <3>3. \A q \in Launches : q # p => root'[q] = root[q] /\ dirty'[q] = dirty[q] /\ pc'[q] = pc[q]
        BY <3>1
      <3>4. pc'[p] = "save" /\ dirty'[p] /\ file.root.id = NoId
        BY <2>2, <3>1
      <3>5. \A q \in Launches : q # p => ~Unsettled(q) /\ ~dirty[q]
        BY <2>0, <3>1
      <3>6. \A i \in shown : i # NoId /\ i = file.root.id
        BY <2>0, <3>1, <3>5
      <3> QED
        BY <3>1, <3>2, <3>3, <3>4, <3>5, <3>6
    <2> QED
      BY <2>1, <2>2
  <1>5. ASSUME NEW p \in Launches, OpenFile(p) PROVE IdInv'
    <2>1. /\ ~overlap /\ ~damaged /\ dirty[p] /\ file' = Content(root[p], 0)
          /\ pc' = [pc EXCEPT ![p] = IF pc[p] = "save" THEN "write" ELSE "lastWrite"]
          /\ UNCHANGED <<dirty, root, shown>>
      BY <1>5 DEF OpenFile, NeedsSaving
    <2>2. file'.root.id = NoId /\ file.root.id = NoId
      BY <2>1, EmptyFile
    <2>3. \A q \in Launches : q # p => pc'[q] = pc[q]
      BY <2>1
    <2>4. pc'[p] \in {"write", "lastWrite"} /\ Unsettled(p)
      BY <2>1
    <2> QED
      BY <2>1, <2>2, <2>3, <2>4
  <1>6. ASSUME NEW p \in Launches, WriteFile(p) PROVE IdInv'
    <2>1. /\ ~overlap /\ ~damaged /\ file' = Content(root[p], NumSections)
          /\ Writing(p) /\ pc' = [pc EXCEPT ![p] = IF pc[p] = "write" THEN "named" ELSE "off"]
          /\ dirty' = [dirty EXCEPT ![p] = FALSE] /\ UNCHANGED <<root, shown>>
      BY <1>6 DEF WriteFile
    <2>2. file'.root = root[p]
      BY <2>1, WholeSave
    <2>3. dirty[p] /\ file.root.id = NoId /\ root[p].id # NoId
      BY <2>1 DEF Writing, DirtyInv
    <2>4. \A q \in Launches : q # p => ~Unsettled(q) /\ pc[q] \notin Named
      BY <2>1, <2>3
    <2>5. \A q \in Launches : q # p => pc'[q] = pc[q] /\ dirty'[q] = dirty[q]
      BY <2>1
    <2>6. pc'[p] \in {"named", "off"} /\ ~dirty'[p]
      BY <2>1
    <2>7. \A i \in shown : i # NoId /\ i = root[p].id
      BY <2>1, <2>3, <2>4
    <2> QED
      BY <2>1, <2>2, <2>3, <2>4, <2>5, <2>6, <2>7
  <1>7. ASSUME NEW p \in Launches, SetUniqueId(p) PROVE IdInv'
    BY <1>7 DEF SetUniqueId
  <1>8. ASSUME NEW p \in Launches, Crash(p) PROVE IdInv'
    <2>1. ~overlap /\ ~damaged /\ ~Owes(p) /\ file' = file
      BY <1>8 DEF Crash
    <2> QED
      BY <1>8, <2>1, IdEnds DEF Crash
  <1>9. CASE Edit
    BY <1>9, EditedFile DEF Edit
  <1>10. CASE UNCHANGED vars
    BY <1>10 DEF vars
  <1>11. ASSUME NEW p \in Launches, SaveThrows(p) PROVE IdInv'
    <2>1. CASE pc[p] = "save"
      <3>1. /\ dirty[p] /\ pc' = [pc EXCEPT ![p] = "named"]
            /\ UNCHANGED <<file, root, dirty, shown, overlap, damaged>>
        BY <1>11, <2>1 DEF SaveThrows, NeedsSaving
      <3> QED
        BY <3>1
    <2>2. CASE Exits(p)
      BY <1>2, <2>2
    <2> QED
      BY <1>11, <2>1, <2>2 DEF SaveThrows
  <1> QED
    BY <1>1, <1>2, <1>3, <1>4, <1>5, <1>6, <1>7, <1>8, <1>9, <1>10, <1>11
    DEF Next, LoadConfigFails, MakeTransportFails, StartIpcFails, Exit

(* A step of any process or of the operator leaves EditInv intact. *)
LEMMA EditStep == TypeOK /\ DirtyInv /\ EditInv /\ [Next]_vars => EditInv'
  <1> SUFFICES ASSUME TypeOK, DirtyInv, EditInv, [Next]_vars, ~raced', ~damaged'
               PROVE  EditInv'
    BY DEF EditInv
  <1> USE DEF EditInv, TypeOK, Goto, Writing
  <1>1. ASSUME NEW p \in Launches, LoadConfig(p) PROVE EditInv'
    BY <1>1 DEF LoadConfig
  <1>2. ASSUME NEW p \in Launches, Exits(p), ~Writing(p) PROVE EditInv'
    BY <1>2 DEF Exits
  <1>3. ASSUME NEW p \in Launches, MakeTransport(p) \/ SetUniqueId(p) \/ StartIpc(p) \/ Stop(p)
        PROVE  EditInv'
    BY <1>3 DEF MakeTransport, SetUniqueId, StartIpc, Stop
  <1>4. ASSUME NEW p \in Launches, GetUniqueId(p) PROVE EditInv'
    <2>1. CASE root[p].id # NoId
      BY <1>4, <2>1 DEF GetUniqueId
    <2>2. CASE root[p].id = NoId
      <3>1. /\ ~raced /\ ~damaged /\ pc[p] = "node" /\ pc' = [pc EXCEPT ![p] = "save"]
            /\ file' = file /\ edits' = edits /\ root' = [root EXCEPT ![p].id = drawn']
            /\ dirty' = [dirty EXCEPT ![p] = TRUE]
        BY <1>4, <2>2 DEF GetUniqueId, DirtyWithNewId
      <3>2. \A q \in Launches : root'[q].rest = root[q].rest /\ root'[q].interfaces = root[q].interfaces
        BY <3>1 DEF Config
      <3> QED
        BY <3>1, <3>2
    <2> QED
      BY <2>1, <2>2
  <1>5. ASSUME NEW p \in Launches, OpenFile(p) PROVE EditInv'
    <2>1. /\ dirty[p] /\ pc' = [pc EXCEPT ![p] = IF pc[p] = "save" THEN "write" ELSE "lastWrite"]
          /\ file' = Content(root[p], 0)
      BY <1>5 DEF OpenFile, NeedsSaving
    <2>2. ~file'.root.interfaces
      BY <2>1, EmptyFile
    <2> QED
      BY <1>5, <2>1, <2>2 DEF OpenFile
  <1>6. ASSUME NEW p \in Launches, WriteFile(p) PROVE EditInv'
    <2>1. /\ dirty[p] /\ pc' = [pc EXCEPT ![p] = IF pc[p] = "write" THEN "named" ELSE "off"]
          /\ file' = Content(root[p], NumSections)
      BY <1>6 DEF WriteFile, DirtyInv
    <2>2. file'.root = root[p]
      BY <2>1, WholeSave
    <2> QED
      BY <1>6, <2>1, <2>2 DEF WriteFile
  <1>7. ASSUME NEW p \in Launches, Crash(p) PROVE EditInv'
    BY <1>7 DEF Crash
  <1>8. CASE Edit
    BY <1>8, EditedFile DEF Edit, Starting, Unsettled
  <1>9. CASE UNCHANGED vars
    BY <1>9 DEF vars
  <1>10. ASSUME NEW p \in Launches, SaveThrows(p) PROVE EditInv'
    <2>1. CASE Exits(p)
      BY <1>2, <1>10, <2>1 DEF SaveThrows
    <2>2. CASE pc[p] = "save"
      BY <1>10, <2>2 DEF SaveThrows
    <2> QED
      BY <1>10, <2>1, <2>2 DEF SaveThrows
  <1> QED
    BY <1>1, <1>2, <1>3, <1>4, <1>5, <1>6, <1>7, <1>8, <1>9, <1>10
    DEF Next, LoadConfigFails, MakeTransportFails, StartIpcFails, Exit

(* Nothing is dirty, written or shown at first. *)
LEMMA EngineInit == Init => DirtyInv /\ IdInv /\ EditInv
  <1> SUFFICES ASSUME Init PROVE DirtyInv /\ IdInv /\ EditInv
    OBVIOUS
  <1>1. file.root.rest = edits
    BY ShippedType, WholeSave DEF Init, Shipped
  <1> QED
    BY <1>1 DEF Init, DirtyInv, IdInv, EditInv, Starting, Unsettled, Named, Writing

(* The node has the same unique id in all its runs, however often a start  *)
(* fails, a process dies or save() throws, unless a daemon was launched    *)
(* beside an unsettled one, a save was cut short or refused, or one that   *)
(* threw was not made up for (getUniqueId, Config::save, main).            *)
THEOREM UniqueIdIsStable == Spec => []SameIdInEveryRun
  <1>1. TypeOK /\ IdInv /\ DirtyInv => SameIdInEveryRun
    <2> SUFFICES ASSUME TypeOK, IdInv, ~overlap, ~damaged
                 PROVE  Cardinality(shown) <= 1
      BY DEF SameIdInEveryRun
    <2>1. \E id : shown \subseteq {id}
      <3>1. CASE \E p \in Launches : dirty[p]
        <4>1. PICK p \in Launches : dirty[p]
          BY <3>1
        <4>2. \A q \in Launches : dirty[q] => q = p
          BY <4>1 DEF IdInv, Unsettled
        <4>3. \A i \in shown : i = root[p].id
          BY <4>1, <4>2 DEF IdInv
        <4> QED
          BY <4>3
      <3>2. CASE \A p \in Launches : ~dirty[p]
        <4>1. \A i \in shown : i = file.root.id
          BY <3>2 DEF IdInv
        <4> QED
          BY <4>1
      <3> QED
        BY <3>1, <3>2
    <2>2. PICK id : shown \subseteq {id}
      BY <2>1
    <2>3. IsFiniteSet({id}) /\ Cardinality({id}) = 1
      BY FS_Singleton
    <2> QED
      BY <2>2, <2>3, FS_Subset
  <1> QED
    BY <1>1, EngineInit, IdStep, DirtyStep, EngineTypeCorrect, PTL DEF Spec

(* What the operator wrote stays in the file, unless he wrote while a      *)
(* process could still save its copy, or a save was cut short or refused.  *)
THEOREM OperatorsEditsSurvive == Spec => []EditsSurvive
  <1>1. EditInv => EditsSurvive
    BY DEF EditInv, EditsSurvive
  <1> QED
    BY <1>1, EngineInit, EditStep, DirtyStep, EngineTypeCorrect, PTL DEF Spec

=============================================================================
