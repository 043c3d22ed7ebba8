------------------------------ MODULE GymHero -------------------------------
(***************************************************************************)
(* The application the repository ships as its code base to search         *)
(* (data/codebase/gymhero): a REST service over a PostgreSQL database of   *)
(* users, training plans, training units, exercises and three lookup       *)
(* tables.                                                                 *)
(*                                                                         *)
(* A request reads in its session, passes the checks of its route and then *)
(* commits; other requests commit in between.  A request that fails a      *)
(* check changes nothing and is left out.  An item is the id of a row, and *)
(* ids are not used twice.  Text columns other than the name (of a user:   *)
(* the email) are left out, as are tokens and passwords.                   *)
(***************************************************************************)
EXTENDS Naturals, FiniteSets

CONSTANTS
    Users, Plans, Units, Exercises, BodyParts, Types, Levels,
    Names,      \* of users, plans and units
    Terms,      \* names of exercises and lookup rows
    Requests,   \* bound: each is made once
    Root,       \* the superuser the database is created with
    Seeded,     \* bound: other rows that exist at the start, owned by Root,
    SeedName(_), \* and their names
    None, New, Gone

Tables == {Users, Plans, Units, Exercises, BodyParts, Types, Levels}
Items == UNION Tables
Owned == Plans \cup Units \cup Exercises
Lookups == BodyParts \cup Types \cup Levels

\* The link tables training_plan_training_unit and training_unit_exercise.
Pairs == (Plans \X Units) \cup (Units \X Exercises)

\* The lookup rows an exercise refers to, at most one of each table.
RefSets ==
    {R \in SUBSET Lookups : \A T \in {BodyParts, Types, Levels} : \A k, l \in R \cap T : k = l}

\* One of each table: what a new exercise has to name.
Whole(R) == \A T \in {BodyParts, Types, Levels} : R \cap T # {}

Row == [name : Names \cup Terms, owner : Users \cup {None}, refs : RefSets]

\* What a request can carry for a row: a name, the lookup rows of an exercise
\* and the flags of a user.
NamesFor(i) == IF i \in Exercises \cup Lookups THEN Terms ELSE Names
RefsFor(i) == IF i \in Exercises THEN RefSets ELSE {{}}
Flags == {"super", "inactive"}

ASSUME ConstantsAssumption ==
    /\ LET T == <<Users, Plans, Units, Exercises, BodyParts, Types, Levels>>
       IN  \A i, k \in DOMAIN T : i # k => T[i] \cap T[k] = {}
    /\ Root \in Users /\ Seeded \subseteq Items
    /\ None \notin Items /\ New # Gone /\ {New, Gone} \cap Row = {}

\* What is there at the start keeps the constraints of its tables.
ASSUME SeedAssumption ==
    LET rows == Seeded \cup {Root} IN
    /\ \A i \in rows : SeedName(i) \in Names \cup Terms
    /\ \A T \in Tables : \A i, k \in rows \cap T : SeedName(i) = SeedName(k) => i = k
    /\ rows \cap Exercises # {} => \E R \in RefSets : Whole(R) /\ R \subseteq Seeded

VARIABLES
    table,      \* the row of each item: its name, owner and lookup rows
    super,      \* users with is_superuser
    inactive,   \* users without is_active
    links,      \* how often each pair is in its link table
    req,        \* New, None once it has ended, else what is to be committed
    demoted,    \* history: superusers that were made ordinary users
    crossed,    \* history: a user was deleted on behalf of a deleted user
    met         \* history: pairs that two open requests were to link

db == <<table, super, inactive, links>>
history == <<demoted, crossed, met>>
vars == <<db, req, history>>

Exists(i) == table[i] \notin {New, Gone}
Rows(T) == {i \in T : Exists(i)}

Init ==
    /\ table = [i \in Items |->
         IF i \in Seeded \cup {Root}
         THEN [name |-> SeedName(i),
               owner |-> IF i \in Owned THEN Root ELSE None,
               refs |-> IF i \in Exercises
                        THEN CHOOSE R \in RefSets : Whole(R) /\ R \subseteq Seeded
                        ELSE {}]
         ELSE New]
    /\ super = {Root} /\ inactive = {}
    /\ links = [p \in Pairs |-> 0]
    /\ req = [r \in Requests |-> New]
    /\ demoted = {} /\ crossed = FALSE /\ met = {}

-----------------------------------------------------------------------------
(* Who may do what: api/dependencies.py *)

CurrentUser(u) == u \in Rows(Users)
CurrentActiveUser(u) == CurrentUser(u) /\ u \notin inactive
CurrentSuperuser(u) == CurrentUser(u) /\ u \in super

Owns(u, i) == Exists(i) /\ table[i].owner = u

\* The check of the routes of plans and units.
MayChange(u, i) == CurrentActiveUser(u) /\ Exists(i) /\ (Owns(u, i) \/ u \in super)

\* Exercises: their owner, and only when it is a superuser too.
MayChangeExercise(u, x) == CurrentActiveUser(u) /\ Owns(u, x) /\ u \in super

\* Who may change or delete a row of any table.
Permitted(u, i) ==
    CASE i \in Plans \cup Units -> MayChange(u, i)
      [] i \in Exercises -> MayChangeExercise(u, i)
      [] OTHER -> CurrentSuperuser(u)

\* get_one(name = n, owner_id = u).
Taken(T, n, u) == \E i \in Rows(T) : table[i].name = n /\ table[i].owner = u

-----------------------------------------------------------------------------
(* Reading routes.  A row without owner does not fit the response model of *)
(* plans and units, and the request ends with an error.                    *)

UnitFits(w) == table[w].owner # None
Members(i) == {p[2] : p \in {q \in Pairs : q[1] = i /\ links[q] > 0}}
PlanFits(p) == table[p].owner # None /\ \A w \in Members(p) : UnitFits(w)

\* By name.
Named(T, n) == {i \in Rows(T) : table[i].name = n}
PlanNamed(u, n) == {p \in Named(Plans, n) : Owns(u, p)}
UnitNamed(u, n) == {w \in Named(Units, n) : Owns(u, w)}
ExerciseNamed(n) == Named(Exercises, n)
BodyPartNamed(n) == Named(BodyParts, n)
TypeNamed(n) == Named(Types, n)
LevelNamed(n) == Named(Levels, n)
UserByEmail(n) == Named(Users, n)

\* All of them, for a superuser: the list is an answer only if all rows fit.
AllPlansAnswer == \A p \in Rows(Plans) : PlanFits(p)
AllUnitsAnswer == \A w \in Rows(Units) : UnitFits(w)

-----------------------------------------------------------------------------
(* Writing routes: the checks, after which the request waits to commit *)

Open(r) == req[r] \notin {New, None}
Linking(r, p) == Open(r) /\ req[r].op = "link" /\ <<req[r].i, req[r].j>> = p

Ask(r, op, u, i, j, n) ==
    /\ req[r] = New
    /\ req' = [req EXCEPT ![r] = [op |-> op, by |-> u, i |-> i, j |-> j, n |-> n]]
    /\ met' = IF op = "link" /\ \E s \in Requests : Linking(s, <<i, j>>)
               THEN met \cup {<<i, j>>} ELSE met
    /\ UNCHANGED <<db, demoted, crossed>>

Insert(r, u, T, n) == \E i \in T : table[i] = New /\ Ask(r, "create", u, i, None, n)
Change(r, u, i) == Ask(r, "update", u, i, None, None)
Remove(r, u, i) == Ask(r, "delete", u, i, None, None)

CreatePlan(r, u, n) == CurrentActiveUser(u) /\ ~Taken(Plans, n, u) /\ Insert(r, u, Plans, n)
UpdatePlan(r, u, p) == MayChange(u, p) /\ Change(r, u, p)
DeletePlan(r, u, p) == MayChange(u, p) /\ Remove(r, u, p)

\* Mutation of AddUnit: the unit may be there already.
AddAnyUnit(r, u, p, w) == MayChange(u, p) /\ Exists(w) /\ Ask(r, "link", u, p, w, None)

AddUnit(r, u, p, w) ==
    MayChange(u, p) /\ Exists(w) /\ w \notin Members(p) /\ Ask(r, "link", u, p, w, None)
RemoveUnit(r, u, p, w) ==
    MayChange(u, p) /\ Exists(w) /\ w \in Members(p) /\ Ask(r, "unlink", u, p, w, None)

CreateUnit(r, u, n) == CurrentActiveUser(u) /\ ~Taken(Units, n, u) /\ Insert(r, u, Units, n)
UpdateUnit(r, u, w) == MayChange(u, w) /\ Change(r, u, w)
DeleteUnit(r, u, w) == MayChange(u, w) /\ Remove(r, u, w)
AddExercise(r, u, w, x) ==
    MayChange(u, w) /\ Exists(x) /\ x \notin Members(w) /\ Ask(r, "link", u, w, x, None)
RemoveExercise(r, u, w, x) ==
    MayChange(u, w) /\ Exists(x) /\ x \in Members(w) /\ Ask(r, "unlink", u, w, x, None)

CreateExercise(r, u, n) == CurrentActiveUser(u) /\ Insert(r, u, Exercises, n)
UpdateExercise(r, u, x) == MayChangeExercise(u, x) /\ Change(r, u, x)
DeleteExercise(r, u, x) == MayChangeExercise(u, x) /\ Remove(r, u, x)

CreateBodyPart(r, u, n) == CurrentSuperuser(u) /\ Insert(r, u, BodyParts, n)
UpdateBodyPart(r, u, b) == CurrentSuperuser(u) /\ Exists(b) /\ Change(r, u, b)
DeleteBodyPart(r, u, b) == CurrentSuperuser(u) /\ Exists(b) /\ Remove(r, u, b)
CreateType(r, u, n) == CurrentSuperuser(u) /\ Insert(r, u, Types, n)
UpdateType(r, u, t) == CurrentSuperuser(u) /\ Exists(t) /\ Change(r, u, t)
DeleteType(r, u, t) == CurrentSuperuser(u) /\ Exists(t) /\ Remove(r, u, t)
CreateLevel(r, u, n) == CurrentSuperuser(u) /\ Insert(r, u, Levels, n)
UpdateLevel(r, u, l) == CurrentSuperuser(u) /\ Exists(l) /\ Change(r, u, l)
DeleteLevel(r, u, l) == CurrentSuperuser(u) /\ Exists(l) /\ Remove(r, u, l)

\* Emails are unique and users have no owner.
Register(r, n) == ~Taken(Users, n, None) /\ Insert(r, None, Users, n)
CreateUser(r, u, n) == CurrentSuperuser(u) /\ ~Taken(Users, n, None) /\ Insert(r, u, Users, n)
UpdateUser(r, u, v) == CurrentSuperuser(u) /\ Exists(v) /\ Change(r, u, v)

\* Mutation of DeleteUser: no check that the user is another one.
DeleteAnyUser(r, u, v) == CurrentSuperuser(u) /\ Exists(v) /\ Remove(r, u, v)

DeleteUser(r, u, v) == CurrentSuperuser(u) /\ Exists(v) /\ u # v /\ Remove(r, u, v)

-----------------------------------------------------------------------------
(* The commit *)

\* Mutation of Clash: no constraint, the checks of the routes only.
NoClash(i, n, u) == FALSE

\* A unique constraint: (name, owner_id) of plans and units, where NULL
\* differs from NULL, and the name of every other table.
Clash(i, n, u) ==
    \E T \in Tables : i \in T /\ \E k \in Rows(T) \ {i} :
      /\ table[k].name = n
      /\ T \in {Plans, Units} => u # None /\ table[k].owner = u

\* Mutation of Referenced: the foreign key of exercises only.
ReferencedByExercise(i) == \E x \in Rows(Exercises) : i = table[x].owner \/ i \in table[x].refs

\* A foreign key keeps the row: no delete of the ORM goes on to these.
Referenced(i) ==
    \/ \E x \in Rows(Exercises) : i = table[x].owner \/ i \in table[x].refs
    \/ \E p \in Pairs : p[2] = i /\ links[p] > 0

Doubled(i) == \E p \in Pairs : p[1] = i /\ links[p] > 1

Done(r) == req' = [req EXCEPT ![r] = None]

\* The flags of a user become these.
SetFlags(i, flags) ==
    /\ super' = IF "super" \in flags THEN super \cup {i} ELSE super \ {i}
    /\ inactive' = IF "inactive" \in flags THEN inactive \cup {i} ELSE inactive \ {i}

\* Only a superuser creates users with flags.
InsertRow(r) ==
    LET q == req[r]  owner == IF q.i \in Owned THEN q.by ELSE None IN
    /\ Open(r) /\ q.op = "create"
    /\ ~Clash(q.i, q.n, owner)
    /\ owner # None => Exists(owner)
    /\ table[q.i] = New
    /\ \E refs \in RefsFor(q.i) :
         /\ q.i \in Exercises => Whole(refs)
         /\ \A k \in refs : Exists(k)
         /\ table' = [table EXCEPT ![q.i] = [name |-> q.n, owner |-> owner, refs |-> refs]]
    /\ \E flags \in SUBSET Flags :
         /\ flags # {} => q.i \in Users /\ q.by # None
         /\ SetFlags(q.i, flags)
    /\ Done(r)
    /\ UNCHANGED <<links, history>>

\* Mutation of UpdateRow: an update keeps only what the request holds.
UpdateWhole(r) ==
    LET q == req[r] IN
    /\ Open(r) /\ q.op = "update" /\ q.i \notin Users
    /\ Exists(q.i)
    /\ \E n \in NamesFor(q.i) :
         /\ ~Clash(q.i, n, table[q.i].owner)
         /\ table' = [table EXCEPT ![q.i] = [name |-> n, owner |-> None, refs |-> {}]]
    /\ Done(r)
    /\ UNCHANGED <<super, inactive, links, history>>

\* The columns the request holds get its values, the others keep theirs: both
\* are values the row may end with.  A column that changes must refer to a
\* row; it may become NULL.  An UPDATE that matches no row raises.
UpdateRow(r) ==
    LET q == req[r] IN
    /\ Open(r) /\ q.op = "update" /\ q.i \notin Users
    /\ Exists(q.i)
    /\ \E n \in NamesFor(q.i), refs \in RefsFor(q.i) :
         /\ ~Clash(q.i, n, table[q.i].owner)
         /\ \A k \in refs \ table[q.i].refs : Exists(k)
         /\ table' = [table EXCEPT ![q.i].name = n, ![q.i].refs = refs]
    /\ Done(r)
    /\ UNCHANGED <<super, inactive, links, history>>

\* Mutation of UpdateUserRow: the row need not be there any more.
UpdateAnyUserRow(r) ==
    LET q == req[r] IN
    /\ Open(r) /\ q.op = "update" /\ q.i \in Users
    /\ \E flags \in SUBSET Flags : SetFlags(q.i, flags)
    /\ Done(r)
    /\ UNCHANGED <<table, links, history>>

\* One UPDATE for the email and both flags.
UpdateUserRow(r) ==
    LET q == req[r] IN
    /\ Open(r) /\ q.op = "update" /\ q.i \in Users
    /\ Exists(q.i)
    /\ \E n \in Names : /\ ~Clash(q.i, n, None)
                        /\ table' = [table EXCEPT ![q.i].name = n]
    /\ \E flags \in SUBSET Flags : SetFlags(q.i, flags)
    /\ demoted' = demoted \cup (super \ super')
    /\ Done(r)
    /\ UNCHANGED <<links, crossed, met>>

\* The ORM deletes the row's own links, each DELETE expecting one match,
\* and takes the owner off the plans and units of a user.
DeleteRow(r) ==
    LET q == req[r] IN
    /\ Open(r) /\ q.op = "delete"
    /\ Exists(q.i) /\ ~Referenced(q.i) /\ ~Doubled(q.i)
    /\ table' = [k \in Items |->
         IF k = q.i THEN Gone
         ELSE IF k \in Plans \cup Units /\ q.i \in Users /\ Owns(q.i, k)
              THEN [table[k] EXCEPT !.owner = None] ELSE table[k]]
    /\ links' = [p \in Pairs |-> IF p[1] = q.i THEN 0 ELSE links[p]]
    /\ super' = super \ {q.i} /\ inactive' = inactive \ {q.i}
    /\ crossed' = (crossed \/ (q.i \in Users /\ ~Exists(q.by)))
    /\ Done(r)
    /\ UNCHANGED <<demoted, met>>

\* training_unit_exercise has a primary key, training_plan_training_unit none.
InsertLink(r) ==
    LET q == req[r]  p == <<q.i, q.j>> IN
    /\ Open(r) /\ q.op = "link"
    /\ Exists(q.i) /\ Exists(q.j) /\ (q.i \in Units => links[p] = 0)
    /\ links' = [links EXCEPT ![p] = @ + 1]
    /\ Done(r)
    /\ UNCHANGED <<table, super, inactive, history>>

\* The DELETE of one link has to match one row.
DeleteLink(r) ==
    LET q == req[r]  p == <<q.i, q.j>> IN
    /\ Open(r) /\ q.op = "unlink" /\ links[p] = 1
    /\ links' = [links EXCEPT ![p] = 0]
    /\ Done(r)
    /\ UNCHANGED <<table, super, inactive, history>>

\* The commit raises, for a row that is in the way or gone by now or for
\* want of a connection, and the session is closed.
Refuse(r) ==
    /\ Open(r)
    /\ Done(r)
    /\ UNCHANGED <<db, history>>

-----------------------------------------------------------------------------
PlanRequest(r, u) ==
    \/ \E n \in Names : CreatePlan(r, u, n)
    \/ \E p \in Plans : UpdatePlan(r, u, p) \/ DeletePlan(r, u, p)
    \/ \E p \in Plans, w \in Units : AddUnit(r, u, p, w) \/ RemoveUnit(r, u, p, w)

UnitRequest(r, u) ==
    \/ \E n \in Names : CreateUnit(r, u, n)
    \/ \E w \in Units : UpdateUnit(r, u, w) \/ DeleteUnit(r, u, w)
    \/ \E w \in Units, x \in Exercises : AddExercise(r, u, w, x) \/ RemoveExercise(r, u, w, x)

ExerciseRequest(r, u) ==
    \/ \E n \in Terms : CreateExercise(r, u, n)
    \/ \E x \in Exercises : UpdateExercise(r, u, x) \/ DeleteExercise(r, u, x)

LookupRequest(r, u) ==
    \/ \E n \in Terms : CreateBodyPart(r, u, n) \/ CreateType(r, u, n) \/ CreateLevel(r, u, n)
    \/ \E b \in BodyParts : UpdateBodyPart(r, u, b) \/ DeleteBodyPart(r, u, b)
    \/ \E t \in Types : UpdateType(r, u, t) \/ DeleteType(r, u, t)
    \/ \E l \in Levels : UpdateLevel(r, u, l) \/ DeleteLevel(r, u, l)

UserRequest(r, u) ==
    \/ \E n \in Names : Register(r, n) \/ CreateUser(r, u, n)
    \/ \E v \in Users : UpdateUser(r, u, v) \/ DeleteUser(r, u, v)

Next ==
    \E r \in Requests :
      \/ \E u \in Users : PlanRequest(r, u) \/ UnitRequest(r, u) \/ ExerciseRequest(r, u)
                            \/ LookupRequest(r, u) \/ UserRequest(r, u)
      \/ InsertRow(r) \/ UpdateRow(r) \/ UpdateUserRow(r) \/ DeleteRow(r)
      \/ InsertLink(r) \/ DeleteLink(r) \/ Refuse(r)

Spec == Init /\ [][Next]_vars

-----------------------------------------------------------------------------
Request ==
    [op : {"create", "update", "delete", "link", "unlink"},
     by : Users \cup {None}, i : Items,
     j : Items \cup {None}, n : Names \cup Terms \cup {None}]

TypeOK ==
    /\ table \in [Items -> Row \cup {New, Gone}]
    /\ super \subseteq Rows(Users) /\ inactive \subseteq Rows(Users)
    /\ links \in [Pairs -> Nat]
    /\ req \in [Requests -> Request \cup {New, None}]
    /\ demoted \subseteq Users /\ crossed \in BOOLEAN /\ met \subseteq Pairs

\* However creates, renames and changes of emails overlap, a name finds one row
\* at most, so that first() leaves nothing to chance; the checks before the
\* inserts are not enough for that, and updates make none
\* (routes/training_plan.py:213, routes/user.py:204, crud/base.py:49).
NamesFindOne ==
    \A n \in Names \cup Terms :
      /\ \A u \in Users : /\ Cardinality(PlanNamed(u, n)) <= 1
                          /\ Cardinality(UnitNamed(u, n)) <= 1
      /\ \A S \in {ExerciseNamed(n), BodyPartNamed(n), TypeNamed(n), LevelNamed(n),
                   UserByEmail(n)} : Cardinality(S) <= 1

\* However deletes overlap with links, creates and with updates that move an
\* exercise to other lookup rows, every link, owner and lookup row that is
\* referred to exists (models/exercise.py:15, schemas/exercise.py:32).
ReferencesExist ==
    /\ \A p \in Pairs : links[p] > 0 => Exists(p[1]) /\ Exists(p[2])
    /\ \A i \in Rows(Owned) :
         /\ table[i].owner = None \/ Exists(table[i].owner)
         /\ \A k \in table[i].refs : Exists(k)

\* The service loses its last superuser only by demoting it, or when two
\* of them delete each other at once: the route checks no more than that
\* the other is not the caller (routes/user.py:152).
SuperuserRemains == super # {} \/ demoted # {} \/ crossed

\* The lists of plans and units answer until a user is deleted: then its
\* units take the plans of other owners that hold them with them
\* (schemas/training_plan.py:27, models/user.py:17).
ListsAnswer ==
    (AllPlansAnswer /\ AllUnitsAnswer) \/ (\E v \in Users : table[v] = Gone)

\* Who may change a row is checked before the commit and not again: a request
\* that waits has an actor that may still make the change, unless the row or
\* the actor is gone, or the actor was demoted, or deactivated and the route
\* minds; no other request takes the right away (routes/training_plan.py:301).
RightsLastUntilCommit ==
    \A r \in Requests : LET q == req[r] IN Open(r) /\ q.op # "create" =>
      \/ Permitted(q.by, q.i)
      \/ table[q.i] = Gone \/ table[q.by] = Gone
      \/ q.by \in demoted
      \/ q.by \in inactive /\ q.i \in Owned

\* A unit or an exercise is listed twice only if two requests that overlapped
\* added it: the look into the collection stops every later one, although
\* the table of units has no key (models/training_plan.py:15,
\* crud/training_plan.py:25).
DoublesComeFromOverlap == \A p \in Pairs : links[p] > 1 => p \in met
=============================================================================
