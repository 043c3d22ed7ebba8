--------------------------- MODULE GymHeroProofs ----------------------------
(***************************************************************************)
(* Proofs about GymHero, for any tables, names and requests.               *)
(***************************************************************************)
EXTENDS GymHero, FiniteSetTheorems, TLAPS

-----------------------------------------------------------------------------
(* The tables *)

\* An id belongs to one table.
LEMMA TablesApart ==
    /\ Users \cap Plans = {} /\ Users \cap Units = {} /\ Users \cap Exercises = {}
    /\ Users \cap Lookups = {} /\ Plans \cap Units = {} /\ Plans \cap Exercises = {}
    /\ Plans \cap Lookups = {} /\ Units \cap Exercises = {} /\ Units \cap Lookups = {}
    /\ Exercises \cap Lookups = {}
<1> DEFINE T == <<Users, Plans, Units, Exercises, BodyParts, Types, Levels>>
<1>1. \A i, k \in 1..7 : i # k => T[i] \cap T[k] = {}
  BY ConstantsAssumption
<1>2. /\ T[1] = Users /\ T[2] = Plans /\ T[3] = Units /\ T[4] = Exercises
      /\ T[5] = BodyParts /\ T[6] = Types /\ T[7] = Levels
  OBVIOUS
<1> HIDE DEF T
<1>3. /\ T[1] \cap T[2] = {} /\ T[1] \cap T[3] = {} /\ T[1] \cap T[4] = {}
      /\ T[1] \cap T[5] = {} /\ T[1] \cap T[6] = {} /\ T[1] \cap T[7] = {}
  BY <1>1
<1>4. /\ T[2] \cap T[3] = {} /\ T[2] \cap T[4] = {}
      /\ T[2] \cap T[5] = {} /\ T[2] \cap T[6] = {} /\ T[2] \cap T[7] = {}
  BY <1>1
<1>5. /\ T[3] \cap T[4] = {}
      /\ T[3] \cap T[5] = {} /\ T[3] \cap T[6] = {} /\ T[3] \cap T[7] = {}
      /\ T[4] \cap T[5] = {} /\ T[4] \cap T[6] = {} /\ T[4] \cap T[7] = {}
  BY <1>1
<1>6. QED
  BY <1>2, <1>3, <1>4, <1>5 DEF Lookups

LEMMA ItemsAre == Items = Users \cup Owned \cup Lookups
BY DEF Items, Tables, Owned, Lookups

-----------------------------------------------------------------------------
(* The invariant *)

\* The request of each operation is about a row of the right table.
Asked ==
    \A r \in Requests : Open(r) =>
      LET q == req[r] IN
      /\ q.op = "create" => q.n \in Names \cup Terms /\ (q.i \in Owned => q.by \in Users)
      /\ q.op # "create" => q.by \in Users
      /\ q.op = "delete" /\ q.i \in Users => q.by # q.i

\* A pair that is to be linked is not in its table, unless requests to link
\* it met.
Overlaps ==
    \A r \in Requests, p \in Pairs : Linking(r, p) =>
      \/ p \in met
      \/ links[p] = 0 /\ \A s \in Requests \ {r} : ~Linking(s, p)

\* Links are between items.
Linked == \A r \in Requests : Open(r) /\ req[r].op = "link" => <<req[r].i, req[r].j>> \in Pairs

\* The unique constraints hold of the rows there are.
Unique ==
    \A T \in Tables : \A i, k \in Rows(T) :
      /\ table[i].name = table[k].name
      /\ T \in {Plans, Units} => table[i].owner # None /\ table[i].owner = table[k].owner
      => i = k

\* Only exercises refer to lookup rows.
OnlyExercisesRefer == \A i \in Rows(Items) : table[i].refs # {} => i \in Exercises

\* Plans and units lose their owner with a user.
Orphaned ==
    \A i \in Rows(Plans \cup Units) : table[i].owner = None => \E v \in Users : table[v] = Gone

\* Whoever asked for a change may make it, active or not.
Entitled(u, i) ==
    /\ CurrentUser(u)
    /\ i \in Owned => Exists(i)
    /\ u \in super \/ (i \in Plans \cup Units /\ Owns(u, i))
    /\ i \in Exercises => Owns(u, i)

\* Nothing but deletion and demotion takes a right away; an inactive user
\* may become active again.
Held ==
    \A r \in Requests : LET q == req[r] IN Open(r) /\ q.op # "create" =>
      \/ Entitled(q.by, q.i)
      \/ table[q.i] = Gone \/ table[q.by] = Gone
      \/ q.by \in demoted

Inv ==
    /\ TypeOK /\ Asked /\ Linked /\ Overlaps /\ Held
    /\ Unique /\ OnlyExercisesRefer /\ ReferencesExist /\ Orphaned /\ SuperuserRemains
    /\ DoublesComeFromOverlap

\* A row that is there has the columns of its table.
LEMMA RowTyped ==
    ASSUME TypeOK, NEW i \in Items
    PROVE  Exists(i) <=> table[i] \in Row
BY ConstantsAssumption DEF TypeOK, Exists

-----------------------------------------------------------------------------
(* The database as it is created *)

LEMMA InitTable ==
    ASSUME Init
    PROVE  /\ table \in [Items -> Row \cup {New}]
           /\ \A i \in Items : Exists(i) <=> i \in Seeded \cup {Root}
           /\ \A i \in Items : Exists(i) =>
                /\ table[i].name = SeedName(i)
                /\ i \in Owned => table[i].owner = Root
                /\ i \notin Exercises => table[i].refs = {}
                /\ table[i].refs \subseteq Seeded
<1> DEFINE rows == Seeded \cup {Root}
           R == CHOOSE R \in RefSets : Whole(R) /\ R \subseteq Seeded
           row(i) == [name |-> SeedName(i),
                      owner |-> IF i \in Owned THEN Root ELSE None,
                      refs |-> IF i \in Exercises THEN R ELSE {}]
<1>1. table = [i \in Items |-> IF i \in rows THEN row(i) ELSE New]
  BY DEF Init
<1>2. \A i \in rows \cap Exercises : R \in RefSets /\ R \subseteq Seeded
  BY SeedAssumption
<1>3. rows \subseteq Items
  BY ConstantsAssumption, ItemsAre
<1>4. \A i \in rows : SeedName(i) \in Names \cup Terms
  BY SeedAssumption
<1>5. Root \in Users
  BY ConstantsAssumption
<1> HIDE DEF R
<1>6. ASSUME NEW i \in rows PROVE row(i) \in Row
  <2>1. {} \in RefSets
    BY DEF RefSets
  <2>2. QED
    BY <1>2, <1>4, <1>5, <2>1 DEF Row
<1>7. \A i \in rows : row(i) \in Row /\ row(i) # New /\ row(i) # Gone
  BY <1>6, ConstantsAssumption
<1>8. \A i \in rows : /\ row(i).name = SeedName(i)
                      /\ i \in Owned => row(i).owner = Root
                      /\ i \notin Exercises => row(i).refs = {}
                      /\ row(i).refs \subseteq Seeded
  BY <1>2
<1> HIDE DEF row, rows
<1>9. QED
  BY <1>1, <1>3, <1>7, <1>8 DEF Exists, rows

LEMMA InvInit == Init => Inv
<1> SUFFICES ASSUME Init PROVE Inv
  OBVIOUS
<1> USE InitTable
<1>1. Root \in Users /\ Seeded \subseteq Items /\ Root \in Items
  BY ConstantsAssumption, ItemsAre
<1>2. TypeOK
  <2>1. super \subseteq Rows(Users) /\ inactive \subseteq Rows(Users)
    <3>1. Root \in Rows(Users)
      BY <1>1 DEF Rows
    <3>2. super = {Root} /\ inactive = {}
      BY DEF Init
    <3>3. QED
      BY <3>1, <3>2
  <2>2. links \in [Pairs -> Nat] /\ req \in [Requests -> Request \cup {New, None}]
    BY DEF Init
  <2>3. demoted \subseteq Users /\ crossed \in BOOLEAN /\ met \subseteq Pairs
    BY DEF Init
  <2>4. QED
    BY <2>1, <2>2, <2>3 DEF TypeOK
<1>3. Asked /\ Linked /\ Overlaps /\ Held /\ DoublesComeFromOverlap
  BY DEF Init, Asked, Linked, Overlaps, Held, DoublesComeFromOverlap, Open, Linking
<1>4. Unique
  <2> SUFFICES ASSUME NEW T \in Tables, NEW i \in Rows(T), NEW k \in Rows(T),
                      table[i].name = table[k].name
               PROVE  i = k
    BY DEF Unique
  <2>1. i \in (Seeded \cup {Root}) \cap T /\ k \in (Seeded \cup {Root}) \cap T
    BY DEF Rows, Items
  <2>2. SeedName(i) = SeedName(k)
    BY DEF Rows, Items
  <2>3. QED
    BY <2>1, <2>2, SeedAssumption
<1>5. OnlyExercisesRefer
  BY DEF OnlyExercisesRefer, Rows
<1>6. ReferencesExist
  <2>1. \A p \in Pairs : ~(links[p] > 0)
    BY DEF Init
  <2>2. \A i \in Rows(Owned) : table[i].owner = Root /\ table[i].refs \subseteq Seeded
    BY ItemsAre DEF Rows
  <2>3. Exists(Root) /\ \A k \in Seeded : Exists(k)
    BY <1>1
  <2>4. QED
    BY <2>1, <2>2, <2>3 DEF ReferencesExist
<1>7. Orphaned
  <2>1. \A i \in Rows(Plans \cup Units) : table[i].owner = Root
    BY ItemsAre DEF Rows, Owned
  <2>2. Root # None
    BY <1>1, ConstantsAssumption
  <2>3. QED
    BY <2>1, <2>2 DEF Orphaned
<1>8. SuperuserRemains
  BY DEF Init, SuperuserRemains
<1>9. QED
  BY <1>2, <1>3, <1>4, <1>5, <1>6, <1>7, <1>8 DEF Inv

-----------------------------------------------------------------------------
(* Requests that pass their checks *)

Ops == {"create", "update", "delete", "link", "unlink"}

\* What every route makes sure of before it writes.
Sound(op, u, i, j, n) ==
    /\ op \in Ops /\ u \in Users \cup {None} /\ i \in Items
    /\ j \in Items \cup {None} /\ n \in Names \cup Terms \cup {None}
    /\ op = "create" => n \in Names \cup Terms /\ (i \in Owned => u \in Users)
    /\ op # "create" => u \in Users /\ Permitted(u, i)
    /\ op = "delete" /\ i \in Users => u # i
    /\ op = "link" => <<i, j>> \in Pairs /\ ~(links[<<i, j>>] > 0)

AskSound(r) ==
    \E op \in Ops, u \in Users \cup {None}, i \in Items, j \in Items \cup {None},
       n \in Names \cup Terms \cup {None} : Ask(r, op, u, i, j, n) /\ Sound(op, u, i, j, n)

\* Who passes the check of a table's routes is permitted.
LEMMA PermittedIs ==
    /\ \A u, i : i \in Plans \cup Units => (Permitted(u, i) <=> MayChange(u, i))
    /\ \A u, i : i \in Exercises => (Permitted(u, i) <=> MayChangeExercise(u, i))
    /\ \A u, i : i \in Users \cup Lookups => (Permitted(u, i) <=> CurrentSuperuser(u))
BY TablesApart DEF Permitted

LEMMA CreateSound ==
    ASSUME NEW r, NEW u \in Users \cup {None}, NEW T \in Tables, NEW n \in Names \cup Terms,
           T \subseteq Owned => u \in Users, T \subseteq Owned \/ T \cap Owned = {},
           Insert(r, u, T, n)
    PROVE  AskSound(r)
<1>1. PICK i \in T : Ask(r, "create", u, i, None, n)
  BY DEF Insert
<1>2. Sound("create", u, i, None, n)
  BY DEF Sound, Ops, Items
<1>3. QED
  BY <1>1, <1>2 DEF AskSound, Ops, Items

LEMMA ChangeSound ==
    ASSUME NEW r, NEW u \in Users, NEW i \in Items, Permitted(u, i), Change(r, u, i)
    PROVE  AskSound(r)
<1>1. Sound("update", u, i, None, None)
  BY DEF Sound, Ops
<1>2. QED
  BY <1>1 DEF AskSound, Ops, Change

LEMMA RemoveSound ==
    ASSUME NEW r, NEW u \in Users, NEW i \in Items, Permitted(u, i), i \in Users => u # i,
           Remove(r, u, i)
    PROVE  AskSound(r)
<1>1. Sound("delete", u, i, None, None)
  BY DEF Sound, Ops
<1>2. QED
  BY <1>1 DEF AskSound, Ops, Remove

LEMMA LinkSound ==
    ASSUME NEW r, NEW u \in Users, NEW i \in Items, NEW j \in Items, Permitted(u, i),
           <<i, j>> \in Pairs,
           \/ j \notin Members(i) /\ Ask(r, "link", u, i, j, None)
           \/ Ask(r, "unlink", u, i, j, None)
    PROVE  AskSound(r)
<1>1. CASE j \notin Members(i) /\ Ask(r, "link", u, i, j, None)
  <2> DEFINE p == <<i, j>>
  <2>1. p \in Pairs /\ p[1] = i /\ p[2] = j
    OBVIOUS
  <2> HIDE DEF p
  <2>2. ~(links[p] > 0)
    BY <1>1, <2>1 DEF Members
  <2>3. Sound("link", u, i, j, None)
    BY <2>1, <2>2 DEF Sound, Ops, p
  <2>4. QED
    BY <1>1, <2>3 DEF AskSound, Ops
<1>2. CASE Ask(r, "unlink", u, i, j, None)
  <2>1. Sound("unlink", u, i, j, None)
    BY DEF Sound, Ops
  <2>2. QED
    BY <1>2, <2>1 DEF AskSound, Ops
<1>3. QED
  BY <1>1, <1>2

LEMMA TablesListed ==
    /\ Users \in Tables /\ Plans \in Tables /\ Units \in Tables /\ Exercises \in Tables
    /\ BodyParts \in Tables /\ Types \in Tables /\ Levels \in Tables
BY DEF Tables

LEMMA PlanSound ==
    ASSUME NEW r, NEW u \in Users, PlanRequest(r, u)
    PROVE  AskSound(r)
<1> USE ItemsAre, TablesApart DEF Owned
<1>1. ASSUME NEW n \in Names, CreatePlan(r, u, n) PROVE AskSound(r)
  BY <1>1, CreateSound, TablesListed DEF CreatePlan
<1>2. ASSUME NEW p \in Plans, UpdatePlan(r, u, p) PROVE AskSound(r)
  BY <1>2, ChangeSound, PermittedIs DEF UpdatePlan
<1>3. ASSUME NEW p \in Plans, DeletePlan(r, u, p) PROVE AskSound(r)
  BY <1>3, RemoveSound, PermittedIs DEF DeletePlan
<1>4. ASSUME NEW p \in Plans, NEW w \in Units, AddUnit(r, u, p, w) \/ RemoveUnit(r, u, p, w)
      PROVE  AskSound(r)
  <2>1. <<p, w>> \in Pairs
    BY DEF Pairs
  <2>2. QED
    BY <1>4, <2>1, LinkSound, PermittedIs DEF AddUnit, RemoveUnit
<1>5. QED
  BY <1>1, <1>2, <1>3, <1>4 DEF PlanRequest

LEMMA UnitSound ==
    ASSUME NEW r, NEW u \in Users, UnitRequest(r, u)
    PROVE  AskSound(r)
<1> USE ItemsAre, TablesApart DEF Owned
<1>1. ASSUME NEW n \in Names, CreateUnit(r, u, n) PROVE AskSound(r)
  BY <1>1, CreateSound, TablesListed DEF CreateUnit
<1>2. ASSUME NEW w \in Units, UpdateUnit(r, u, w) PROVE AskSound(r)
  BY <1>2, ChangeSound, PermittedIs DEF UpdateUnit
<1>3. ASSUME NEW w \in Units, DeleteUnit(r, u, w) PROVE AskSound(r)
  BY <1>3, RemoveSound, PermittedIs DEF DeleteUnit
<1>4. ASSUME NEW w \in Units, NEW x \in Exercises,
             AddExercise(r, u, w, x) \/ RemoveExercise(r, u, w, x)
      PROVE  AskSound(r)
  <2>1. <<w, x>> \in Pairs
    BY DEF Pairs
  <2>2. QED
    BY <1>4, <2>1, LinkSound, PermittedIs DEF AddExercise, RemoveExercise
<1>5. QED
  BY <1>1, <1>2, <1>3, <1>4 DEF UnitRequest

LEMMA ExerciseSound ==
    ASSUME NEW r, NEW u \in Users, ExerciseRequest(r, u)
    PROVE  AskSound(r)
<1> USE ItemsAre, TablesApart DEF Owned
<1>1. ASSUME NEW n \in Terms, CreateExercise(r, u, n) PROVE AskSound(r)
  BY <1>1, CreateSound, TablesListed DEF CreateExercise
<1>2. ASSUME NEW x \in Exercises, UpdateExercise(r, u, x) PROVE AskSound(r)
  BY <1>2, ChangeSound, PermittedIs DEF UpdateExercise
<1>3. ASSUME NEW x \in Exercises, DeleteExercise(r, u, x) PROVE AskSound(r)
  BY <1>3, RemoveSound, PermittedIs DEF DeleteExercise
<1>4. QED
  BY <1>1, <1>2, <1>3 DEF ExerciseRequest

LEMMA LookupSound ==
    ASSUME NEW r, NEW u \in Users, LookupRequest(r, u)
    PROVE  AskSound(r)
<1> USE ItemsAre, TablesApart DEF Owned, Lookups
<1>1. ASSUME NEW n \in Terms, CreateBodyPart(r, u, n) \/ CreateType(r, u, n) \/ CreateLevel(r, u, n)
      PROVE  AskSound(r)
  BY <1>1, CreateSound, TablesListed DEF CreateBodyPart, CreateType, CreateLevel
<1>2. ASSUME NEW i \in Lookups,
             UpdateBodyPart(r, u, i) \/ UpdateType(r, u, i) \/ UpdateLevel(r, u, i)
      PROVE  AskSound(r)
  <2>1. Permitted(u, i) /\ Change(r, u, i)
    BY <1>2, PermittedIs DEF UpdateBodyPart, UpdateType, UpdateLevel
  <2>2. QED
    BY <2>1, ChangeSound
<1>3. ASSUME NEW i \in Lookups,
             DeleteBodyPart(r, u, i) \/ DeleteType(r, u, i) \/ DeleteLevel(r, u, i)
      PROVE  AskSound(r)
  <2>1. Permitted(u, i) /\ Remove(r, u, i)
    BY <1>3, PermittedIs DEF DeleteBodyPart, DeleteType, DeleteLevel
  <2>2. QED
    BY <2>1, RemoveSound
<1>4. QED
  BY <1>1, <1>2, <1>3 DEF LookupRequest

LEMMA UserSound ==
    ASSUME NEW r, NEW u \in Users, UserRequest(r, u)
    PROVE  AskSound(r)
<1> USE ItemsAre, TablesApart DEF Owned
<1>1. ASSUME NEW n \in Names, Register(r, n) \/ CreateUser(r, u, n) PROVE AskSound(r)
  BY <1>1, CreateSound, TablesListed, ConstantsAssumption DEF Register, CreateUser
<1>2. ASSUME NEW v \in Users, DeleteUser(r, u, v) PROVE AskSound(r)
  BY <1>2, RemoveSound, PermittedIs DEF DeleteUser
<1>3. ASSUME NEW v \in Users, UpdateUser(r, u, v) PROVE AskSound(r)
  BY <1>3, ChangeSound, PermittedIs DEF UpdateUser
<1>4. QED
  BY <1>1, <1>2, <1>3 DEF UserRequest

\* A request that is made leaves the database alone and is sound.
LEMMA AskStep ==
    ASSUME Inv, NEW r \in Requests, AskSound(r)
    PROVE  Inv'
<1> PICK op \in Ops, u \in Users \cup {None}, i \in Items, j \in Items \cup {None},
         n \in Names \cup Terms \cup {None} : Ask(r, op, u, i, j, n) /\ Sound(op, u, i, j, n)
  BY DEF AskSound
<1> DEFINE q == [op |-> op, by |-> u, i |-> i, j |-> j, n |-> n]
<1>1. /\ req[r] = New /\ req' = [req EXCEPT ![r] = q] /\ UNCHANGED <<db, demoted, crossed>>
      /\ met' = IF op = "link" /\ \E s \in Requests : Linking(s, <<i, j>>)
                THEN met \cup {<<i, j>>} ELSE met
  BY DEF Ask
<1>2. UNCHANGED <<table, super, inactive, links, demoted, crossed>>
  BY <1>1 DEF db
<1>3. q \in Request
  BY DEF Sound, Request, Ops
<1>4. q.op = op /\ q.by = u /\ q.i = i /\ q.j = j /\ q.n = n
  OBVIOUS
<1>5. req'[r] = q /\ \A s \in Requests \ {r} : req'[s] = req[s]
  BY <1>1 DEF Inv, TypeOK
<1> HIDE DEF q
<1>6. TypeOK'
  <2>1. met' \subseteq Pairs
    BY <1>1 DEF Inv, TypeOK, Sound
  <2>2. QED
    BY <1>1, <1>2, <1>3, <2>1 DEF Inv, TypeOK, Rows, Exists
<1>7. Asked'
  <2> SUFFICES ASSUME NEW s \in Requests, Open(s)'
               PROVE  /\ req'[s].op = "create" => /\ req'[s].n \in Names \cup Terms
                                                  /\ req'[s].i \in Owned => req'[s].by \in Users
                      /\ req'[s].op # "create" => req'[s].by \in Users
                      /\ req'[s].op = "delete" /\ req'[s].i \in Users => req'[s].by # req'[s].i
    BY DEF Asked
  <2>1. CASE s = r
    BY <2>1, <1>4, <1>5 DEF Sound
  <2>2. CASE s # r
    BY <2>2, <1>5 DEF Inv, Asked, Open
  <2>3. QED
    BY <2>1, <2>2
<1>8. Linked'
  <2> SUFFICES ASSUME NEW s \in Requests, Open(s)', req'[s].op = "link"
               PROVE  <<req'[s].i, req'[s].j>> \in Pairs
    BY DEF Linked
  <2>1. CASE s = r
    BY <2>1, <1>4, <1>5 DEF Sound
  <2>2. CASE s # r
    BY <2>2, <1>5 DEF Inv, Linked, Open
  <2>3. QED
    BY <2>1, <2>2
<1>9. Overlaps'
  <2> SUFFICES ASSUME NEW s \in Requests, NEW p \in Pairs, Linking(s, p)', p \notin met'
               PROVE  links'[p] = 0 /\ \A t \in Requests \ {s} : ~Linking(t, p)'
    BY DEF Overlaps
  <2>1. p \notin met /\ links[p] \in Nat /\ links'[p] = links[p]
    BY <1>1, <1>2 DEF Inv, TypeOK
  <2>2. ASSUME NEW t \in Requests \ {r} PROVE Linking(t, p)' <=> Linking(t, p)
    BY <1>5 DEF Linking, Open
  <2>3. Linking(r, p)' => op = "link" /\ p = <<i, j>>
    BY <1>4, <1>5 DEF Linking
  <2>4. ~Linking(r, p)
    BY <1>1 DEF Linking, Open
  <2>5. Linking(r, p)' => ~\E t \in Requests : Linking(t, p)
    BY <1>1, <2>3
  <2>6. CASE s = r
    <3>1. ~(links[p] > 0)
      BY <2>3, <2>6 DEF Sound
    <3>2. QED
      BY <2>1, <2>2, <2>5, <2>6, <3>1
  <2>7. CASE s # r
    <3>1. Linking(s, p)
      BY <2>2, <2>7
    <3>2. ~Linking(r, p)'
      BY <2>5, <3>1
    <3>3. links[p] = 0 /\ \A t \in Requests \ {s} : ~Linking(t, p)
      BY <2>1, <3>1 DEF Inv, Overlaps
    <3>4. QED
      BY <2>1, <2>2, <3>2, <3>3
  <2>8. QED
    BY <2>6, <2>7
<1>10. Held'
  <2>1. \A v, k : Entitled(v, k)' <=> Entitled(v, k)
    BY <1>2 DEF Entitled, CurrentUser, Owns, Rows, Exists
  <2> SUFFICES ASSUME NEW s \in Requests, Open(s)', req'[s].op # "create"
               PROVE  (\/ Entitled(req[s].by, req[s].i)
                       \/ table[req[s].i] = Gone \/ table[req[s].by] = Gone
                       \/ req[s].by \in demoted)'
    BY DEF Held
  <2>2. CASE s = r
    <3>1. Permitted(u, i) /\ u \in Users
      BY <2>2, <1>4, <1>5 DEF Sound
    <3>2. Entitled(u, i)
      BY <3>1, PermittedIs, ItemsAre, TablesApart
         DEF Entitled, MayChange, MayChangeExercise, CurrentActiveUser, CurrentSuperuser,
             CurrentUser, Owns, Owned
    <3>3. QED
      BY <2>1, <2>2, <3>2, <1>4, <1>5
  <2>3. CASE s # r
    <3>1. req'[s] = req[s] /\ Open(s) /\ req[s].op # "create"
      BY <1>5, <2>3 DEF Open
    <3>2. QED
      BY <1>2, <2>1, <3>1 DEF Inv, Held
  <2>4. QED
    BY <2>2, <2>3
<1>11. DoublesComeFromOverlap'
  BY <1>1, <1>2 DEF Inv, DoublesComeFromOverlap
<1>12. Unique' /\ OnlyExercisesRefer' /\ ReferencesExist' /\ Orphaned' /\ SuperuserRemains'
  BY <1>2 DEF Inv, Unique, OnlyExercisesRefer, ReferencesExist, Orphaned, SuperuserRemains,
              Rows, Exists
<1>13. QED
  BY <1>6, <1>7, <1>8, <1>9, <1>10, <1>11, <1>12 DEF Inv

-----------------------------------------------------------------------------
(* Commits *)

\* What a commit finds: a request that is sound.
LEMMA Committed ==
    ASSUME Inv, NEW r \in Requests, Open(r)
    PROVE  req[r] \in Request
BY DEF Inv, TypeOK, Open

\* The request is over, the others wait on.
LEMMA DoneStep ==
    ASSUME Inv, NEW r \in Requests, Done(r)
    PROVE  /\ req' \in [Requests -> Request \cup {New, None}]
           /\ Asked' /\ Linked'
           /\ \A s \in Requests : Open(s)' => s # r /\ Open(s) /\ req'[s] = req[s]
           /\ \A s \in Requests, p \in Pairs : Linking(s, p)' => s # r /\ Linking(s, p)
<1>1. req' = [req EXCEPT ![r] = None]
  BY DEF Done
<1>2. req' \in [Requests -> Request \cup {New, None}]
  BY <1>1 DEF Inv, TypeOK
<1>3. \A s \in Requests : Open(s)' => s # r /\ Open(s) /\ req'[s] = req[s]
  BY <1>1 DEF Open, Inv, TypeOK
<1>4. Asked' /\ Linked'
  BY <1>3 DEF Inv, Asked, Linked
<1>5. \A s \in Requests, p \in Pairs : Linking(s, p)' => s # r /\ Linking(s, p)
  BY <1>3 DEF Linking
<1>6. QED
  BY <1>2, <1>3, <1>4, <1>5

\* Nobody's request loses its right while users keep their flag, are demoted
\* or are deleted, and rows keep their owner or lose it with the user.
LEMMA HeldStep ==
    ASSUME Inv, NEW r \in Requests, Done(r), demoted \subseteq demoted',
           \A u \in super \ super' : u \in demoted' \/ table'[u] = Gone,
           \A i \in Items : table[i] = Gone => table'[i] = Gone,
           \A i \in Items : Exists(i) => table'[i] = Gone \/ Exists(i)',
           \A i \in Owned : Exists(i) =>
             \/ table'[i] = Gone \/ table'[i].owner = table[i].owner
             \/ table[i].owner \in Users /\ table'[table[i].owner] = Gone
    PROVE  Held'
<1> SUFFICES ASSUME NEW s \in Requests, Open(s)', req'[s].op # "create"
             PROVE  (\/ Entitled(req[s].by, req[s].i)
                     \/ table[req[s].i] = Gone \/ table[req[s].by] = Gone
                     \/ req[s].by \in demoted)'
  BY DEF Held
<1>1. Open(s) /\ req'[s] = req[s] /\ req[s].op # "create"
  BY DoneStep
<1>2. PICK u \in Users \cap Items, i \in Items : u = req[s].by /\ i = req[s].i
  BY <1>1, Committed, ItemsAre DEF Inv, Asked, Request
<1>3. SUFFICES ASSUME table'[i] # Gone, table'[u] # Gone, u \notin demoted'
               PROVE  Entitled(u, i)'
  BY <1>1, <1>2
<1>4. Entitled(u, i)
  BY <1>1, <1>2, <1>3 DEF Inv, Held
<1>5. u \in super => u \in super'
  BY <1>3
<1>6. CurrentUser(u)' /\ (Exists(i) => Exists(i)')
  BY <1>2, <1>3, <1>4 DEF Entitled, CurrentUser, Rows
<1>7. i \in Owned /\ Owns(u, i) => Owns(u, i)'
  BY <1>3, <1>6 DEF Owns
<1>8. QED
  BY <1>4, <1>5, <1>6, <1>7 DEF Entitled, Owned

\* Links go away or stay, and nothing new is asked for.
LEMMA LinksStay ==
    ASSUME Inv, NEW r \in Requests, Done(r), met' = met,
           \A p \in Pairs : links'[p] = 0 \/ links'[p] = links[p]
    PROVE  Overlaps' /\ DoublesComeFromOverlap'
<1>1. \A s \in Requests, p \in Pairs : Linking(s, p)' => Linking(s, p)
  BY DoneStep
<1>2. Overlaps'
  <2> SUFFICES ASSUME NEW s \in Requests, NEW p \in Pairs, Linking(s, p)', p \notin met'
               PROVE  links'[p] = 0 /\ \A t \in Requests \ {s} : ~Linking(t, p)'
    BY DEF Overlaps
  <2>1. links[p] = 0 /\ \A t \in Requests \ {s} : ~Linking(t, p)
    BY <1>1 DEF Inv, Overlaps
  <2>2. QED
    BY <1>1, <2>1
<1>3. DoublesComeFromOverlap'
  BY DEF Inv, DoublesComeFromOverlap
<1>4. QED
  BY <1>2, <1>3

\* A row comes to be or gets another name, and no constraint is hurt.
LEMMA UniqueStep ==
    ASSUME Inv, NEW i \in Items, NEW row \in Row, ~Clash(i, row.name, row.owner),
           table' = [table EXCEPT ![i] = row]
    PROVE  Unique'
<1> SUFFICES ASSUME NEW T \in Tables, NEW a \in Rows(T)', NEW b \in Rows(T)',
                    table'[a].name = table'[b].name,
                    T \in {Plans, Units} =>
                      table'[a].owner # None /\ table'[a].owner = table'[b].owner
             PROVE  a = b
  BY DEF Unique
<1>1. a \in Items /\ b \in Items
  BY DEF Rows, Items
<1>2. table'[i] = row /\ \A k \in Items \ {i} : table'[k] = table[k]
  BY DEF Inv, TypeOK
<1>3. CASE a # i /\ b # i
  BY <1>1, <1>2, <1>3 DEF Inv, Unique, Rows, Exists
<1>4. CASE a = i /\ b # i
  <2>1. b \in Rows(T) \ {i} /\ i \in T /\ table'[b] = table[b]
    BY <1>1, <1>2, <1>4 DEF Rows, Exists
  <2>2. QED
    BY <1>2, <1>4, <2>1 DEF Clash
<1>5. CASE a # i /\ b = i
  <2>1. a \in Rows(T) \ {i} /\ i \in T /\ table'[a] = table[a]
    BY <1>1, <1>2, <1>5 DEF Rows, Exists
  <2>2. QED
    BY <1>2, <1>5, <2>1 DEF Clash
<1>6. QED
  BY <1>3, <1>4, <1>5

\* A commit that puts a row in place of a new or an old one: the constraints
\* of the tables hold on.
LEMMA RowStep ==
    ASSUME Inv, NEW r \in Requests, Done(r), NEW i \in Items, NEW row \in Row,
           table' = [table EXCEPT ![i] = row], ~Clash(i, row.name, row.owner),
           \/ table[i] = New /\ (i \in Owned => row.owner \in Users /\ Exists(row.owner))
           \/ Exists(i) /\ row.owner = table[i].owner,
           row.refs # {} => i \in Exercises,
           \A k \in row.refs : Exists(k),
           UNCHANGED <<links, crossed, met>>
    PROVE  /\ table' \in [Items -> Row \cup {New, Gone}]
           /\ \A k \in Items : Exists(k)' <=> Exists(k) \/ k = i
           /\ \A k \in Items : table[k] = Gone => table'[k] = Gone
           /\ \A k \in Items : Exists(k) => table'[k].owner = table[k].owner
           /\ Unique' /\ OnlyExercisesRefer' /\ ReferencesExist' /\ Orphaned'
           /\ Overlaps' /\ DoublesComeFromOverlap'
<1>1. /\ table' \in [Items -> Row \cup {New, Gone}]
      /\ table'[i] = row /\ \A k \in Items \ {i} : table'[k] = table[k]
  BY DEF Inv, TypeOK
<1>2. \A k \in Items : Exists(k)' <=> Exists(k) \/ k = i
  BY <1>1, ConstantsAssumption DEF Exists
<1>3. \A k \in Items : table[k] = Gone => table'[k] = Gone
  BY <1>1, ConstantsAssumption DEF Exists
<1>4. \A k \in Items : Exists(k) => table'[k].owner = table[k].owner
  BY <1>1 DEF Exists
<1>5. Unique'
  BY UniqueStep
<1>6. OnlyExercisesRefer'
  BY <1>1, <1>2 DEF Inv, OnlyExercisesRefer, Rows
<1>7. ReferencesExist'
  <2>1. \A p \in Pairs : p[1] \in Items /\ p[2] \in Items
    BY ItemsAre DEF Pairs, Owned
  <2>2. ASSUME NEW p \in Pairs, links'[p] > 0 PROVE Exists(p[1])' /\ Exists(p[2])'
    BY <1>2, <2>1, <2>2 DEF Inv, ReferencesExist
  <2>3. ASSUME NEW k \in Rows(Owned)'
        PROVE  /\ table'[k].owner = None \/ Exists(table[k].owner)'
               /\ \A l \in table'[k].refs : Exists(l)'
    <3>1. k \in Items /\ k \in Owned
      BY ItemsAre DEF Rows
    <3>2. ASSUME NEW l \in Items, Exists(l) PROVE Exists(l)'
      BY <1>2, <3>2
    <3>3. CASE k = i
      <4>1. row.owner \in Items \cup {None} /\ \A l \in row.refs : l \in Items
        BY ItemsAre DEF Row, RefSets
      <4>2. row.owner = None \/ Exists(row.owner)
        BY <3>1, <3>3 DEF Inv, ReferencesExist, Rows
      <4>3. QED
        BY <1>1, <3>2, <3>3, <4>1, <4>2
    <3>4. CASE k # i
      <4>1. k \in Rows(Owned) /\ table'[k] = table[k] /\ table[k] \in Row
        BY <1>1, <1>2, <3>1, <3>4, RowTyped DEF Rows, Inv
      <4>2. table[k].owner \in Items \cup {None} /\ \A l \in table[k].refs : l \in Items
        BY <4>1, ItemsAre DEF Row, RefSets
      <4>3. QED
        BY <3>2, <4>1, <4>2 DEF Inv, ReferencesExist
    <3>5. QED
      BY <3>3, <3>4
  <2>4. QED
    BY <2>2, <2>3 DEF ReferencesExist
<1>8. Orphaned'
  <2>1. ASSUME NEW k \in Rows(Plans \cup Units)', table'[k].owner = None
        PROVE  \E v \in Users : table[v] = Gone
    <3>1. k \in Items /\ k \in Owned
      BY ItemsAre DEF Rows, Owned
    <3>2. k = i => Exists(i)
      BY <1>1, <2>1, <3>1, ItemsAre, ConstantsAssumption
    <3>3. k \in Rows(Plans \cup Units) /\ table[k].owner = None
      BY <1>2, <1>4, <2>1, <3>1, <3>2 DEF Rows
    <3>4. QED
      BY <3>3 DEF Inv, Orphaned
  <2>2. \A v \in Users : table[v] = Gone => table'[v] = Gone
    BY <1>3, ItemsAre
  <2>3. QED
    BY <2>1, <2>2 DEF Orphaned
<1>9. Overlaps' /\ DoublesComeFromOverlap'
  BY LinksStay
<1>10. QED
  BY <1>1, <1>2, <1>3, <1>4, <1>5, <1>6, <1>7, <1>8, <1>9

LEMMA InsertRowStep ==
    ASSUME Inv, NEW r \in Requests, InsertRow(r)
    PROVE  Inv'
<1> DEFINE i == req[r].i
           owner == IF i \in Owned THEN req[r].by ELSE None
<1>1. /\ Open(r) /\ req[r].op = "create" /\ table[i] = New /\ Done(r)
      /\ ~Clash(i, req[r].n, owner) /\ (owner # None => Exists(owner))
      /\ UNCHANGED <<links, demoted, crossed, met>>
  BY DEF InsertRow, history
<1>2. PICK refs \in RefsFor(i) :
        /\ \A k \in refs : Exists(k)
        /\ table' = [table EXCEPT ![i] = [name |-> req[r].n, owner |-> owner, refs |-> refs]]
  BY DEF InsertRow
<1>3. PICK flags \in SUBSET Flags : (flags # {} => i \in Users) /\ SetFlags(i, flags)
  BY DEF InsertRow
<1> DEFINE row == [name |-> req[r].n, owner |-> owner, refs |-> refs]
<1>4. i \in Items /\ req[r].n \in Names \cup Terms
  BY <1>1, Committed DEF Request, Inv, Asked
<1>5. (i \in Owned => owner \in Users /\ Exists(owner)) /\ (i \notin Owned => owner = None)
  <2>1. i \in Owned => owner \in Users
    BY <1>1 DEF Inv, Asked
  <2>2. QED
    BY <1>1, <2>1, ItemsAre, ConstantsAssumption
<1>6. refs \in RefSets /\ (refs # {} => i \in Exercises)
  BY DEF RefsFor, RefSets
<1>7. row \in Row /\ row.name = req[r].n /\ row.owner = owner /\ row.refs = refs
  BY <1>4, <1>5, <1>6 DEF Row
<1> HIDE DEF i, owner
<1>8. /\ table' \in [Items -> Row \cup {New, Gone}]
      /\ \A k \in Items : Exists(k)' <=> Exists(k) \/ k = i
      /\ \A k \in Items : table[k] = Gone => table'[k] = Gone
      /\ \A k \in Items : Exists(k) => table'[k].owner = table[k].owner
      /\ Unique' /\ OnlyExercisesRefer' /\ ReferencesExist' /\ Orphaned'
      /\ Overlaps' /\ DoublesComeFromOverlap'
  <2> HIDE DEF row
  <2>1. table' = [table EXCEPT ![i] = row]
    BY <1>2 DEF row
  <2>2. QED
    BY <1>1, <1>2, <1>4, <1>5, <1>6, <1>7, <2>1, RowStep
<1>9. /\ super' = super \/ (super' = super \cup {i} /\ i \in Users)
      /\ inactive' = inactive \/ (inactive' = inactive \cup {i} /\ i \in Users)
  <2>1. i \notin super /\ i \notin inactive
    BY <1>1 DEF Inv, TypeOK, Rows, Exists
  <2>2. QED
    BY <1>3, <2>1 DEF SetFlags
<1>10. TypeOK'
  <2>1. Rows(Users) \subseteq Rows(Users)' /\ (i \in Users => i \in Rows(Users)')
    BY <1>4, <1>8, ItemsAre DEF Rows
  <2>2. super' \subseteq Rows(Users)' /\ inactive' \subseteq Rows(Users)'
    BY <1>9, <2>1 DEF Inv, TypeOK
  <2>3. QED
    BY <1>1, <1>8, <2>2, DoneStep DEF Inv, TypeOK
<1>11. Held'
  <2>1. super \ super' = {}
    BY <1>9
  <2>2. QED
    BY <1>1, <1>8, <2>1, HeldStep, ItemsAre
<1>12. SuperuserRemains'
  BY <1>1, <1>9 DEF Inv, SuperuserRemains
<1>13. QED
  BY <1>1, <1>8, <1>10, <1>11, <1>12, DoneStep DEF Inv

\* An update leaves the row its owner, and what an exercise newly refers to
\* is there.
LEMMA UpdateRowStep ==
    ASSUME Inv, NEW r \in Requests, UpdateRow(r)
    PROVE  Inv'
<1> DEFINE i == req[r].i
<1>1. /\ Open(r) /\ req[r].op = "update" /\ Exists(i) /\ Done(r)
      /\ UNCHANGED <<super, inactive, links, demoted, crossed, met>>
  BY DEF UpdateRow, history
<1>2. PICK n \in NamesFor(i), refs \in RefsFor(i) :
        /\ ~Clash(i, n, table[i].owner)
        /\ \A k \in refs \ table[i].refs : Exists(k)
        /\ table' = [table EXCEPT ![i].name = n, ![i].refs = refs]
  BY DEF UpdateRow
<1> DEFINE row == [table[i] EXCEPT !.name = n, !.refs = refs]
<1>3. i \in Items /\ n \in Names \cup Terms
  BY <1>1, Committed DEF Request, NamesFor
<1>4. table[i] \in Row
  BY <1>1, <1>3, RowTyped DEF Inv
<1>5. refs \in RefSets /\ (refs # {} => i \in Exercises)
  BY DEF RefsFor, RefSets
<1>6. row \in Row /\ row.name = n /\ row.owner = table[i].owner /\ row.refs = refs
  BY <1>3, <1>4, <1>5 DEF Row
<1>7. table' = [table EXCEPT ![i] = row]
  <2>1. table \in [Items -> Row \cup {New, Gone}]
    BY DEF Inv, TypeOK
  <2>2. QED
    BY <1>2, <1>3, <1>4, <2>1
<1> HIDE DEF i, row
<1>8. \A k \in refs : Exists(k)
  <2>1. refs # {} => i \in Rows(Owned)
    BY <1>1, <1>3, <1>5 DEF Rows, Owned
  <2>2. \A k \in refs \cap table[i].refs : Exists(k)
    BY <2>1 DEF Inv, ReferencesExist
  <2>3. QED
    BY <1>2, <2>2
<1>9. /\ table' \in [Items -> Row \cup {New, Gone}]
      /\ \A k \in Items : Exists(k)' <=> Exists(k) \/ k = i
      /\ \A k \in Items : table[k] = Gone => table'[k] = Gone
      /\ \A k \in Items : Exists(k) => table'[k].owner = table[k].owner
      /\ Unique' /\ OnlyExercisesRefer' /\ ReferencesExist' /\ Orphaned'
      /\ Overlaps' /\ DoublesComeFromOverlap'
  BY <1>1, <1>2, <1>3, <1>5, <1>6, <1>7, <1>8, RowStep
<1>10. TypeOK'
  <2>1. Rows(Users)' = Rows(Users)
    BY <1>1, <1>9, ItemsAre DEF Rows
  <2>2. QED
    BY <1>1, <1>9, <2>1, DoneStep DEF Inv, TypeOK
<1>11. Held'
  BY <1>1, <1>9, HeldStep, ItemsAre
<1>12. SuperuserRemains'
  BY <1>1 DEF Inv, SuperuserRemains
<1>13. QED
  BY <1>1, <1>9, <1>10, <1>11, <1>12, DoneStep DEF Inv

\* Whoever is no superuser any more was demoted.
LEMMA UpdateUserRowStep ==
    ASSUME Inv, NEW r \in Requests, UpdateUserRow(r)
    PROVE  Inv'
<1> DEFINE i == req[r].i
<1>1. /\ Open(r) /\ i \in Users /\ Exists(i) /\ Done(r)
      /\ demoted' = demoted \cup (super \ super')
      /\ UNCHANGED <<links, crossed, met>>
  BY DEF UpdateUserRow
<1>2. PICK n \in Names : ~Clash(i, n, None) /\ table' = [table EXCEPT ![i].name = n]
  BY DEF UpdateUserRow
<1>3. PICK flags \in SUBSET Flags : SetFlags(i, flags)
  BY DEF UpdateUserRow
<1> DEFINE row == [table[i] EXCEPT !.name = n]
<1>4. i \in Items /\ table[i] \in Row
  BY <1>1, RowTyped, ItemsAre DEF Inv
<1>5. row \in Row /\ row.name = n /\ row.owner = table[i].owner /\ row.refs = table[i].refs
  BY <1>4 DEF Row
<1>6. table' = [table EXCEPT ![i] = row]
  BY <1>2
<1> HIDE DEF i, row
<1>7. row.refs = {}
  BY <1>1, <1>4, <1>5, TablesApart DEF Inv, OnlyExercisesRefer, Rows
<1>8. ~Clash(i, row.name, row.owner)
  BY <1>1, <1>2, <1>5, TablesApart DEF Clash
<1>9. /\ table' \in [Items -> Row \cup {New, Gone}]
      /\ \A k \in Items : Exists(k)' <=> Exists(k) \/ k = i
      /\ \A k \in Items : table[k] = Gone => table'[k] = Gone
      /\ \A k \in Items : Exists(k) => table'[k].owner = table[k].owner
      /\ Unique' /\ OnlyExercisesRefer' /\ ReferencesExist' /\ Orphaned'
      /\ Overlaps' /\ DoublesComeFromOverlap'
  BY <1>1, <1>4, <1>5, <1>6, <1>7, <1>8, RowStep
<1>10. super' \subseteq super \cup {i} /\ inactive' \subseteq inactive \cup {i}
  BY <1>3 DEF SetFlags
<1>11. TypeOK'
  <2>1. Rows(Users)' = Rows(Users) /\ i \in Rows(Users)
    BY <1>1, <1>9, ItemsAre DEF Rows
  <2>2. super' \subseteq Rows(Users)' /\ inactive' \subseteq Rows(Users)'
    BY <1>10, <2>1 DEF Inv, TypeOK
  <2>3. demoted' \subseteq Users
    BY <1>1 DEF Inv, TypeOK, Rows
  <2>4. QED
    BY <1>1, <1>9, <2>2, <2>3, DoneStep DEF Inv, TypeOK
<1>12. Held'
  <2>1. \A u \in super \ super' : u \in demoted'
    BY <1>1
  <2>2. demoted \subseteq demoted'
    BY <1>1
  <2>3. QED
    BY <1>1, <1>9, <2>1, <2>2, HeldStep, ItemsAre
<1>13. SuperuserRemains'
  BY <1>1 DEF Inv, SuperuserRemains
<1>14. QED
  BY <1>1, <1>9, <1>11, <1>12, <1>13, DoneStep DEF Inv

\* Deleting a row takes along what would be left hanging, or is refused.
LEMMA DeleteRowStep ==
    ASSUME Inv, NEW r \in Requests, DeleteRow(r)
    PROVE  Inv'
<1> DEFINE i == req[r].i
           cut(k) == k \in Plans \cup Units /\ i \in Users /\ Owns(i, k)
<1>1. /\ Open(r) /\ req[r].op = "delete" /\ Exists(i) /\ ~Referenced(i) /\ Done(r)
      /\ table' = [k \in Items |-> IF k = i THEN Gone
                                   ELSE IF cut(k) THEN [table[k] EXCEPT !.owner = None] ELSE table[k]]
      /\ links' = [p \in Pairs |-> IF p[1] = i THEN 0 ELSE links[p]]
      /\ super' = super \ {i} /\ inactive' = inactive \ {i}
      /\ crossed' = (crossed \/ (i \in Users /\ ~Exists(req[r].by)))
      /\ UNCHANGED <<demoted, met>>
  BY DEF DeleteRow
<1>2. i \in Items
  BY <1>1, Committed DEF Request
<1>3. /\ table'[i] = Gone
      /\ \A k \in Items \ {i} : table'[k] = IF cut(k) THEN [table[k] EXCEPT !.owner = None]
                                            ELSE table[k]
  BY <1>1, <1>2
<1>4. ASSUME NEW k \in Items, cut(k)
      PROVE  /\ [table[k] EXCEPT !.owner = None] \in Row
             /\ [table[k] EXCEPT !.owner = None].name = table[k].name
             /\ [table[k] EXCEPT !.owner = None].owner = None
             /\ [table[k] EXCEPT !.owner = None].refs = table[k].refs
  <2>1. table[k] \in Row
    BY <1>4, RowTyped DEF Inv, Owns
  <2>2. QED
    BY <2>1 DEF Row
<1>5. \A k \in Items : cut(k) => Exists(k)
  BY DEF Owns
<1>6. \A k \in Items \ {i} : cut(k) => i \in Users /\ k \in Plans \cup Units /\ table[k].owner = i
  BY DEF Owns
<1>7. \A k \in Items \ {i} : i \in Users /\ k \in Plans \cup Units /\ Exists(k) /\ table[k].owner = i
                             => cut(k)
  BY DEF Owns
<1> HIDE DEF cut, i
<1>8. table' \in [Items -> Row \cup {New, Gone}]
  <2>1. table \in [Items -> Row \cup {New, Gone}]
    BY DEF Inv, TypeOK
  <2>2. QED
    BY <1>1, <1>4, <2>1
<1>9. \A k \in Items : Exists(k)' <=> Exists(k) /\ k # i
  BY <1>2, <1>3, <1>4, <1>5, ConstantsAssumption DEF Exists
<1>10. \A k \in Items : Exists(k)' =>
         /\ table'[k].name = table[k].name /\ table'[k].refs = table[k].refs
         /\ table'[k].owner = IF cut(k) THEN None ELSE table[k].owner
  BY <1>3, <1>4, <1>9
<1>11. \A u \in Users : table[u] = Gone => table'[u] = Gone
  BY <1>1, <1>3, <1>5, ItemsAre DEF Exists
<1>12. TypeOK'
  <2>1. super' \subseteq Rows(Users)' /\ inactive' \subseteq Rows(Users)'
    BY <1>1, <1>9, ItemsAre DEF Inv, TypeOK, Rows
  <2>2. links' \in [Pairs -> Nat]
    BY <1>1 DEF Inv, TypeOK
  <2>3. demoted' \subseteq Users /\ crossed' \in BOOLEAN /\ met' \subseteq Pairs
    BY <1>1 DEF Inv, TypeOK
  <2>4. QED
    BY <1>1, <1>8, <2>1, <2>2, <2>3, DoneStep DEF TypeOK
<1>13. Held' /\ Overlaps' /\ DoublesComeFromOverlap'
  <2>1. \A u \in super \ super' : table'[u] = Gone
    BY <1>1, <1>3
  <2>2. \A k \in Items : table[k] = Gone => table'[k] = Gone
    BY <1>2, <1>3, <1>5 DEF Exists
  <2>3. \A k \in Items : Exists(k) => table'[k] = Gone \/ Exists(k)'
    BY <1>3, <1>9
  <2>4. ASSUME NEW k \in Owned, Exists(k)
        PROVE  \/ table'[k] = Gone \/ table'[k].owner = table[k].owner
               \/ table[k].owner \in Users /\ table'[table[k].owner] = Gone
    BY <1>2, <1>3, <1>6, <2>4, ItemsAre
  <2>5. demoted \subseteq demoted'
    BY <1>1
  <2>6. Held'
    BY <1>1, <2>1, <2>2, <2>3, <2>4, <2>5, HeldStep
  <2>7. \A p \in Pairs : links'[p] = 0 \/ links'[p] = links[p]
    BY <1>1
  <2>8. QED
    BY <1>1, <2>6, <2>7, LinksStay
<1>14. Unique'
  <2> SUFFICES ASSUME NEW T \in Tables, NEW a \in Rows(T)', NEW b \in Rows(T)',
                      table'[a].name = table'[b].name,
                      T \in {Plans, Units} =>
                        table'[a].owner # None /\ table'[a].owner = table'[b].owner
               PROVE  a = b
    BY DEF Unique
  <2>1. a \in Items /\ b \in Items /\ a \in Rows(T) /\ b \in Rows(T) /\ Exists(a)' /\ Exists(b)'
    BY <1>9 DEF Rows, Items
  <2>2. table[a].name = table[b].name
    BY <1>10, <2>1
  <2>3. T \in {Plans, Units} => table[a].owner # None /\ table[a].owner = table[b].owner
    BY <1>10, <2>1
  <2>4. QED
    BY <2>1, <2>2, <2>3 DEF Inv, Unique
<1>15. OnlyExercisesRefer'
  BY <1>9, <1>10 DEF Inv, OnlyExercisesRefer, Rows
<1>16. ReferencesExist'
  <2>1. ASSUME NEW p \in Pairs, links'[p] > 0 PROVE Exists(p[1])' /\ Exists(p[2])'
    <3>1. p[1] \in Items /\ p[2] \in Items
      BY ItemsAre DEF Pairs, Owned
    <3>2. p[1] # i /\ links[p] > 0
      BY <1>1, <2>1
    <3>3. p[2] # i
      BY <1>1, <3>2 DEF Referenced
    <3>4. QED
      BY <1>9, <3>1, <3>2, <3>3 DEF Inv, ReferencesExist
  <2>2. ASSUME NEW k \in Rows(Owned)'
        PROVE  /\ table'[k].owner = None \/ Exists(table[k].owner)'
               /\ \A l \in table'[k].refs : Exists(l)'
    <3>1. k \in Items /\ k \in Rows(Owned) /\ table[k] \in Row /\ k # i /\ Exists(k)'
      BY <1>9, RowTyped, ItemsAre DEF Rows, Inv
    <3>2. table[k].owner \in Users \cup {None} /\ \A l \in table[k].refs : l \in Items
      BY <3>1, ItemsAre DEF Row, RefSets, Lookups
    <3>3. ASSUME NEW l \in table'[k].refs PROVE Exists(l)'
      <4>1. l \in table[k].refs /\ k \in Rows(Exercises)
        BY <1>10, <3>1, <3>3 DEF Inv, OnlyExercisesRefer, Rows
      <4>2. l # i /\ Exists(l) /\ l \in Items
        BY <1>1, <3>1, <3>2, <4>1 DEF Referenced, Inv, ReferencesExist
      <4>3. QED
        BY <1>9, <4>2
    <3>4. ASSUME table'[k].owner # None PROVE Exists(table[k].owner)'
      <4>1. ~cut(k) /\ table'[k].owner = table[k].owner /\ table[k].owner \in Users
        BY <1>10, <3>1, <3>2, <3>4
      <4>2. Exists(table[k].owner)
        BY <3>1, <3>4, <4>1 DEF Inv, ReferencesExist
      <4>3. table[k].owner # i
        <5>1. CASE k \in Plans \cup Units
          BY <1>7, <3>1, <4>1, <5>1 DEF Rows
        <5>2. CASE k \in Exercises
          BY <1>1, <3>1, <5>2 DEF Referenced, Rows
        <5>3. QED
          BY <3>1, <5>1, <5>2 DEF Rows, Owned
      <4>4. \A j \in Items : Exists(j) /\ j # i => Exists(j)'
        BY <1>9
      <4>5. table'[k].owner \in Items /\ Exists(table[k].owner)
        BY <4>1, <4>2, ItemsAre
      <4>6. QED
        BY <4>1, <4>3, <4>4, <4>5 DEF Exists
    <3>5. QED
      BY <3>3, <3>4
  <2>3. QED
    BY <2>1, <2>2 DEF ReferencesExist
<1>17. Orphaned'
  <2> SUFFICES ASSUME NEW k \in Rows(Plans \cup Units)', table'[k].owner = None
               PROVE  \E v \in Users : table'[v] = Gone
    BY DEF Orphaned
  <2>1. k \in Items /\ Exists(k)' /\ k \in Rows(Plans \cup Units) /\ k # i
    BY <1>9, ItemsAre DEF Rows, Owned
  <2>2. CASE cut(k)
    BY <1>3, <1>6, <2>1, <2>2
  <2>3. CASE ~cut(k)
    BY <1>10, <1>11, <2>1, <2>3 DEF Inv, Orphaned
  <2>4. QED
    BY <2>2, <2>3
<1>18. SuperuserRemains'
  <2>1. CASE i \in Users
    <3>1. req[r].op = "delete" /\ req[r].by \in Users /\ req[r].by # i
      BY <1>1, <2>1 DEF DeleteRow, Inv, Asked, i
    <3>2. CASE Exists(req[r].by)
      <4>1. Entitled(req[r].by, i) \/ req[r].by \in demoted
        BY <1>1, <3>1, <3>2 DEF Inv, Held, Exists, i
      <4>2. Entitled(req[r].by, i) => req[r].by \in super
        BY <2>1, TablesApart DEF Entitled
      <4>3. QED
        BY <1>1, <3>1, <4>1, <4>2 DEF SuperuserRemains
    <3>3. CASE ~Exists(req[r].by)
      BY <1>1, <2>1, <3>3 DEF SuperuserRemains
    <3>4. QED
      BY <3>2, <3>3
  <2>2. CASE i \notin Users
    <3>1. super' = super
      BY <1>1, <2>2 DEF Inv, TypeOK, Rows
    <3>2. QED
      BY <1>1, <3>1 DEF Inv, SuperuserRemains
  <2>3. QED
    BY <2>1, <2>2
<1>19. QED
  BY <1>1, <1>12, <1>13, <1>14, <1>15, <1>16, <1>17, <1>18, DoneStep DEF Inv

\* A step that leaves the rows and the superusers alone keeps what is said of
\* them.
LEMMA RowsStay ==
    ASSUME Inv, UNCHANGED <<table, super, demoted, crossed>>
    PROVE  /\ Unique' /\ OnlyExercisesRefer' /\ Orphaned' /\ SuperuserRemains'
           /\ \A i \in Items : Exists(i)' <=> Exists(i)
           /\ Rows(Users)' = Rows(Users)
BY DEF Inv, Unique, OnlyExercisesRefer, Orphaned, SuperuserRemains, Rows, Exists

\* The second request to link a pair met the first.
LEMMA InsertLinkStep ==
    ASSUME Inv, NEW r \in Requests, InsertLink(r)
    PROVE  Inv'
<1> DEFINE p == <<req[r].i, req[r].j>>
<1>1. /\ Open(r) /\ req[r].op = "link" /\ Exists(req[r].i) /\ Exists(req[r].j) /\ Done(r)
      /\ links' = [links EXCEPT ![p] = @ + 1]
      /\ UNCHANGED <<table, super, inactive, demoted, crossed, met>>
  BY DEF InsertLink, history
<1>2. p \in Pairs /\ p[1] = req[r].i /\ p[2] = req[r].j /\ Linking(r, p)
  BY <1>1 DEF Inv, Linked, Linking
<1> HIDE DEF p
<1>3. /\ links \in [Pairs -> Nat] /\ links' \in [Pairs -> Nat]
      /\ links'[p] = links[p] + 1 /\ \A a \in Pairs \ {p} : links'[a] = links[a]
  BY <1>1, <1>2 DEF Inv, TypeOK
<1>4. TypeOK'
  BY <1>1, <1>3, RowsStay, DoneStep DEF Inv, TypeOK
<1>5. Held'
  BY <1>1, RowsStay, HeldStep, ItemsAre
<1>6. ReferencesExist'
  <2>1. ASSUME NEW a \in Pairs, links'[a] > 0 PROVE Exists(a[1]) /\ Exists(a[2])
    BY <1>1, <1>2, <1>3, <2>1 DEF Inv, ReferencesExist
  <2>2. QED
    BY <1>1, <2>1 DEF Inv, ReferencesExist, Rows, Exists
<1>7. Overlaps'
  <2> SUFFICES ASSUME NEW s \in Requests, NEW a \in Pairs, Linking(s, a)', a \notin met'
               PROVE  links'[a] = 0 /\ \A t \in Requests \ {s} : ~Linking(t, a)'
    BY DEF Overlaps
  <2>1. s # r /\ Linking(s, a) /\ a \notin met
    BY <1>1, DoneStep
  <2>2. links[a] = 0 /\ \A t \in Requests \ {s} : ~Linking(t, a)
    BY <2>1 DEF Inv, Overlaps
  <2>3. a # p
    BY <1>2, <2>1, <2>2
  <2>4. QED
    BY <1>1, <1>3, <2>2, <2>3, DoneStep
<1>8. DoublesComeFromOverlap'
  <2> SUFFICES ASSUME NEW a \in Pairs, links'[a] > 1 PROVE a \in met'
    BY DEF DoublesComeFromOverlap
  <2>1. CASE a = p
    BY <1>1, <1>2, <1>3, <2>1 DEF Inv, Overlaps
  <2>2. CASE a # p
    BY <1>1, <1>3, <2>2 DEF Inv, DoublesComeFromOverlap
  <2>3. QED
    BY <2>1, <2>2
<1>9. QED
  BY <1>1, <1>4, <1>5, <1>6, <1>7, <1>8, RowsStay, DoneStep DEF Inv

LEMMA DeleteLinkStep ==
    ASSUME Inv, NEW r \in Requests, DeleteLink(r)
    PROVE  Inv'
<1> DEFINE p == <<req[r].i, req[r].j>>
<1>1. /\ Open(r) /\ Done(r) /\ links' = [links EXCEPT ![p] = 0]
      /\ UNCHANGED <<table, super, inactive, demoted, crossed, met>>
  BY DEF DeleteLink, history
<1>2. /\ links' \in [Pairs -> Nat]
      /\ \A a \in Pairs : links'[a] = 0 \/ links'[a] = links[a]
  <2>1. links \in [Pairs -> Nat]
    BY DEF Inv, TypeOK
  <2> HIDE DEF p
  <2>2. QED
    BY <1>1, <2>1
<1>3. TypeOK'
  BY <1>1, <1>2, RowsStay, DoneStep DEF Inv, TypeOK
<1>4. Held'
  BY <1>1, RowsStay, HeldStep, ItemsAre
<1>5. ReferencesExist'
  <2>1. \A a \in Pairs : links'[a] > 0 => links[a] > 0
    BY <1>2
  <2>2. QED
    BY <1>1, <2>1 DEF Inv, ReferencesExist, Rows, Exists
<1>6. Overlaps' /\ DoublesComeFromOverlap'
  BY <1>1, <1>2, LinksStay
<1>7. QED
  BY <1>1, <1>3, <1>4, <1>5, <1>6, RowsStay, DoneStep DEF Inv

LEMMA RefuseStep ==
    ASSUME Inv, NEW r \in Requests, Refuse(r)
    PROVE  Inv'
<1>1. Done(r) /\ UNCHANGED <<table, super, inactive, links, demoted, crossed, met>>
  BY DEF Refuse, db, history
<1>2. TypeOK'
  BY <1>1, RowsStay, DoneStep DEF Inv, TypeOK
<1>3. Held' /\ Overlaps' /\ DoublesComeFromOverlap'
  BY <1>1, RowsStay, HeldStep, LinksStay, ItemsAre
<1>4. ReferencesExist'
  BY <1>1 DEF Inv, ReferencesExist, Rows, Exists
<1>5. QED
  BY <1>1, <1>2, <1>3, <1>4, RowsStay, DoneStep DEF Inv

LEMMA InvStep == Inv /\ [Next]_vars => Inv'
<1> SUFFICES ASSUME Inv, [Next]_vars PROVE Inv'
  OBVIOUS
<1>1. ASSUME NEW r \in Requests, NEW u \in Users,
             PlanRequest(r, u) \/ UnitRequest(r, u) \/ ExerciseRequest(r, u)
               \/ LookupRequest(r, u) \/ UserRequest(r, u)
      PROVE  Inv'
  BY <1>1, PlanSound, UnitSound, ExerciseSound, LookupSound, UserSound, AskStep
<1>2. ASSUME NEW r \in Requests,
             \/ InsertRow(r) \/ UpdateRow(r) \/ UpdateUserRow(r) \/ DeleteRow(r)
             \/ InsertLink(r) \/ DeleteLink(r) \/ Refuse(r)
      PROVE  Inv'
  BY <1>2, InsertRowStep, UpdateRowStep, UpdateUserRowStep, DeleteRowStep, InsertLinkStep,
     DeleteLinkStep, RefuseStep
<1>3. CASE UNCHANGED vars
  BY <1>3 DEF vars, db, history, Inv, TypeOK, Asked, Linked, Overlaps, Held, Unique,
              OnlyExercisesRefer, ReferencesExist, Orphaned, SuperuserRemains,
              DoublesComeFromOverlap, Rows, Exists, Open, Linking, Entitled, CurrentUser, Owns
<1>4. QED
  BY <1>1, <1>2, <1>3 DEF Next

LEMMA InvHolds == Spec => []Inv
BY InvInit, InvStep, PTL DEF Spec

-----------------------------------------------------------------------------
(* What the database promises *)

\* Every table holds rows of its columns and every request is about a row of
\* the service, whatever overlaps (models/*.py).
THEOREM TypeCorrect == Spec => []TypeOK
<1>1. Inv => TypeOK
  BY DEF Inv
<1>2. QED
  BY <1>1, InvHolds, PTL

\* The links of a plan or unit, the owners and the lookup rows of exercises
\* exist, however creates, links and deletes overlap (models/exercise.py:15).
THEOREM ReferencesExistHolds == Spec => []ReferencesExist
<1>1. Inv => ReferencesExist
  BY DEF Inv
<1>2. QED
  BY <1>1, InvHolds, PTL

\* The last superuser goes only by demotion or when two delete each other at
\* once (routes/user.py:152).
THEOREM SuperuserRemainsHolds == Spec => []SuperuserRemains
<1>1. Inv => SuperuserRemains
  BY DEF Inv
<1>2. QED
  BY <1>1, InvHolds, PTL

LEMMA AtMostOne ==
    ASSUME NEW S, \A a, b \in S : a = b
    PROVE  Cardinality(S) <= 1
<1>1. CASE S = {}
  BY <1>1, FS_EmptySet
<1>2. CASE S # {}
  <2>1. PICK a : a \in S
    BY <1>2
  <2>2. S = {a}
    BY <2>1
  <2>3. QED
    BY <2>2, FS_Singleton
<1>3. QED
  BY <1>1, <1>2

\* Names, and emails, find one row at most although their check precedes the
\* commit (routes/training_plan.py:213, crud/base.py:49).
THEOREM NamesFindOneHolds == Spec => []NamesFindOne
<1>1. ASSUME Inv PROVE NamesFindOne
  <2>1. Unique
    BY <1>1 DEF Inv
  <2>2. ASSUME NEW n, NEW u \in Users
        PROVE  Cardinality(PlanNamed(u, n)) <= 1 /\ Cardinality(UnitNamed(u, n)) <= 1
    <3>1. u # None
      BY ConstantsAssumption, ItemsAre
    <3>2. \A a, b \in PlanNamed(u, n) : a = b
      BY <2>1, <3>1, TablesListed DEF Unique, PlanNamed, Named, Owns
    <3>3. \A a, b \in UnitNamed(u, n) : a = b
      BY <2>1, <3>1, TablesListed DEF Unique, UnitNamed, Named, Owns
    <3>4. QED
      BY <3>2, <3>3, AtMostOne
  <2>3. ASSUME NEW n, NEW T \in Tables \ {Plans, Units}
        PROVE  Cardinality(Named(T, n)) <= 1
    <3>1. \A a, b \in Named(T, n) : a = b
      BY <2>1 DEF Unique, Named
    <3>2. QED
      BY <3>1, AtMostOne
  <2>4. ASSUME NEW T \in Tables, T \in {Plans, Units}, T \cap (Users \cup Exercises \cup Lookups) # {}
        PROVE  FALSE
    BY <2>4, TablesApart
  <2>5. ASSUME NEW n, NEW T \in {Users, Exercises, BodyParts, Types, Levels}
        PROVE  Cardinality(Named(T, n)) <= 1
    <3>1. CASE T = {}
      BY <3>1, FS_EmptySet DEF Named, Rows
    <3>2. CASE T # {}
      BY <2>3, <2>4, <3>2, TablesListed DEF Lookups
    <3>3. QED
      BY <3>1, <3>2
  <2>6. QED
    BY <2>2, <2>5 DEF NamesFindOne, ExerciseNamed, BodyPartNamed, TypeNamed, LevelNamed, UserByEmail
<1>2. QED
  BY <1>1, InvHolds, PTL

\* While nobody was deleted, the lists of plans and units fit their response
\* models (schemas/training_plan.py:27, models/user.py:17).
THEOREM ListsAnswerHolds == Spec => []ListsAnswer
<1>1. ASSUME Inv PROVE ListsAnswer
  <2> SUFFICES ASSUME \A v \in Users : table[v] # Gone
               PROVE  AllPlansAnswer /\ AllUnitsAnswer
    BY DEF ListsAnswer
  <2>1. \A i \in Rows(Plans \cup Units) : table[i].owner # None
    BY <1>1 DEF Inv, Orphaned
  <2>2. AllUnitsAnswer
    BY <2>1 DEF AllUnitsAnswer, UnitFits, Rows
  <2>3. ASSUME NEW p \in Rows(Plans), NEW w \in Members(p) PROVE UnitFits(w)
    <3>1. PICK q \in Pairs : q[1] = p /\ links[q] > 0 /\ q[2] = w
      BY DEF Members
    <3>2. w \in Units /\ Exists(w)
      BY <1>1, <3>1, TablesApart DEF Pairs, Rows, Inv, ReferencesExist
    <3>3. QED
      BY <2>1, <3>2 DEF UnitFits, Rows
  <2>4. QED
    BY <2>1, <2>2, <2>3 DEF AllPlansAnswer, PlanFits, Rows
<1>2. QED
  BY <1>1, InvHolds, PTL

\* A request that waits keeps its right, unless row or actor are deleted or the
\* actor is demoted or deactivated (routes/training_plan.py:301).
THEOREM RightsLastUntilCommitHolds == Spec => []RightsLastUntilCommit
<1>1. ASSUME Inv PROVE RightsLastUntilCommit
  <2> SUFFICES ASSUME NEW r \in Requests, Open(r), req[r].op # "create",
                      table[req[r].i] # Gone, table[req[r].by] # Gone,
                      req[r].by \notin demoted, ~(req[r].by \in inactive /\ req[r].i \in Owned)
               PROVE  Permitted(req[r].by, req[r].i)
    BY DEF RightsLastUntilCommit
  <2>1. PICK u, i : u = req[r].by /\ i = req[r].i
    OBVIOUS
  <2>2. Entitled(u, i) /\ i \in Items
    BY <1>1, <2>1, Committed DEF Inv, Held, Request
  <2>3. i \in Owned => u \notin inactive
    BY <2>1
  <2> SUFFICES Permitted(u, i)
    BY <2>1
  <2>4. CASE i \in Plans \cup Units
    BY <2>2, <2>3, <2>4, PermittedIs DEF Entitled, MayChange, CurrentActiveUser, Owned
  <2>5. CASE i \in Exercises
    BY <2>2, <2>3, <2>5, PermittedIs, TablesApart
       DEF Entitled, MayChangeExercise, CurrentActiveUser, Owned
  <2>6. CASE i \in Users \cup Lookups
    BY <2>2, <2>6, PermittedIs, TablesApart DEF Entitled, CurrentSuperuser
  <2>7. QED
    BY <2>2, <2>4, <2>5, <2>6, ItemsAre DEF Owned
<1>2. QED
  BY <1>1, InvHolds, PTL

\* Links that are there twice come from requests that overlapped
\* (models/training_plan.py:15, crud/training_plan.py:25).
THEOREM DoublesComeFromOverlapHolds == Spec => []DoublesComeFromOverlap
<1>1. Inv => DoublesComeFromOverlap
  BY DEF Inv
<1>2. QED
  BY <1>1, InvHolds, PTL
=============================================================================
