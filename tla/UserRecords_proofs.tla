------------------------- MODULE UserRecords_proofs -------------------------
(***************************************************************************)
(* Proofs about UserRecords, for any number of requests.                   *)
(*                                                                         *)
(* Few defaults: a request about to make a profile the default clears the  *)
(* others it saw.  That there are no more defaults than requests does not  *)
(* follow step by step; what does is that any set of such requests leaves  *)
(* room for itself (RoomForDefaults): the defaults none of them will clear,*)
(* and the requests themselves, are together no more than the requests     *)
(* there are.  For collections the requests that saw an empty table play   *)
(* that part (RoomForFounders).                                            *)
(*                                                                         *)
(* Popular decks: a name is only ever shown for a commander the cache      *)
(* keeps (NamesAreKept), and rows are told apart by the sync that wrote    *)
(* them.  Answers are paid once because what a sync still looks up is      *)
(* neither known nor pending (AnswersTyped).                               *)
(*                                                                         *)
(* Imports: the records are well formed (TypeCorrect), and rows enter as   *)
(* their import's status says but for requests that overtake each other    *)
(* (ImportsEnterOnce).  What carries that is RowsHaveRoom: a row has       *)
(* entered, and can still enter by the requests that are confirming its    *)
(* import, together no more often than there are requests; and none has of *)
(* an import that is still a preview.                                      *)
(***************************************************************************)
EXTENDS UserRecords, FiniteSetTheorems, SequenceTheorems, NaturalsInduction, TLAPS

-----------------------------------------------------------------------------
(* The invariant *)

ProfileRequests ==
    [op : {"profile"}, phase : {"clear", "write"}, id : Nat \cup {None},
     name : ProfileNames \cup {None}, default : {TRUE, FALSE, None}, cleared : SUBSET Nat]

CollectionRequests ==
    [op : {"collection"}, phase : {"look", "write"}, name : CollectionNames, default : BOOLEAN]

ProfilesTyped ==
    /\ \A r \in Requests : request[r].op = "profile" =>
            /\ request[r] \in ProfileRequests
            /\ request[r].id = None => request[r].name # None /\ request[r].default = TRUE
            /\ request[r].phase = "clear" => request[r].default = TRUE
    /\ nextProfile \in Nat \ {0}
    /\ DOMAIN profiles \subseteq 1..(nextProfile - 1)
    /\ \A id \in DOMAIN profiles : profiles[id] \in [name : ProfileNames, default : BOOLEAN]

CollectionsTyped ==
    /\ \A r \in Requests : request[r].op = "collection" => request[r] \in CollectionRequests
    /\ IsFiniteSet(DOMAIN collections)
    /\ \A name \in DOMAIN collections : collections[name] \in BOOLEAN

\* The requests about to make a profile the default, and what each replaces
Makers == {r \in Requests : Runs(r, "profile", "write") /\ request[r].default = TRUE}
Replaces(r) == request[r].cleared \cup {request[r].id}
Cleared(S) == UNION {Replaces(r) : r \in S}

RoomForDefaults ==
    \A S \in SUBSET Makers : Cardinality(Defaults \ Cleared(S)) + Cardinality(S) <= Cardinality(Requests)

\* The requests about to create a collection that saw no other
Founders == {r \in Requests : Runs(r, "collection", "write") /\ request[r].default = TRUE}

RoomForFounders == Cardinality(DefaultCollections) + Cardinality(Founders) <= Cardinality(Requests)

OneIsFirst ==
    /\ DOMAIN collections # {} => DefaultCollections # {}
    /\ DOMAIN collections = {} =>
            \A r \in Requests : Runs(r, "collection", "write") => request[r].default = TRUE

NamesAreKept ==
    \A d \in DOMAIN decks :
        /\ {"row", "main", "name", "price"} \subseteq DOMAIN decks[d]
        /\ decks[d].price \in {None, decks[d].row}
        /\ decks[d].name # None => decks[d].name = decks[d].main /\ decks[d].name \in commanders

ProfilesInv == ProfilesTyped /\ RoomForDefaults
CollectionsInv == CollectionsTyped /\ RoomForFounders /\ OneIsFirst
IInv == DOMAIN request = Requests /\ ProfilesInv /\ CollectionsInv /\ NamesAreKept

-----------------------------------------------------------------------------
(* Counting *)

(* There is a number of requests, and a set of some of them has one too. *)
LEMMA SomeRequests ==
    ASSUME NEW S \in SUBSET Requests
    PROVE  /\ IsFiniteSet(S) /\ Cardinality(S) \in Nat
           /\ Cardinality(Requests) \in Nat /\ Cardinality(S) <= Cardinality(Requests)
BY RequestsAssumption, FS_CardinalityType, FS_Subset

(* A set within a finite one is finite and no larger. *)
LEMMA Smaller ==
    ASSUME NEW T, IsFiniteSet(T), NEW S \in SUBSET T
    PROVE  /\ IsFiniteSet(S) /\ Cardinality(S) \in Nat /\ Cardinality(T) \in Nat
           /\ Cardinality(S) <= Cardinality(T)
BY FS_CardinalityType, FS_Subset

(* One more element adds at most one, exactly one when it is new. *)
LEMMA OneMore ==
    ASSUME NEW T, IsFiniteSet(T), NEW x
    PROVE  /\ IsFiniteSet(T \cup {x}) /\ Cardinality(T) \in Nat /\ Cardinality(T \cup {x}) \in Nat
           /\ Cardinality(T \cup {x}) <= Cardinality(T) + 1
           /\ x \notin T => Cardinality(T \cup {x}) = Cardinality(T) + 1
<1>1. IsFiniteSet(T \cup {x}) /\ Cardinality(T \cup {x}) = IF x \in T THEN Cardinality(T) ELSE Cardinality(T) + 1
  BY FS_AddElement
<1>2. Cardinality(T) \in Nat /\ Cardinality(T \cup {x}) \in Nat
  BY <1>1, FS_CardinalityType
<1> QED
  BY <1>1, <1>2

(* The default profiles are finitely many. *)
LEMMA FiniteDefaults ==
    ASSUME ProfilesTyped
    PROVE  IsFiniteSet(Defaults)
<1>1. IsFiniteSet(1..(nextProfile - 1))
  BY FS_Interval DEF ProfilesTyped
<1>2. Defaults \subseteq 1..(nextProfile - 1)
  BY DEF Defaults, ProfilesTyped
<1> QED
  BY <1>1, <1>2, FS_Subset

-----------------------------------------------------------------------------
(* Profiles *)

(* Steps of other requests, and steps that take defaults and makers away,  *)
(* leave the room there is.                                                *)
LEMMA RoomIsLeft ==
    ASSUME RoomForDefaults, ProfilesTyped, Defaults' \subseteq Defaults,
           Makers' \subseteq Makers, \A r \in Makers' : request'[r] = request[r]
    PROVE  RoomForDefaults'
<1> SUFFICES ASSUME NEW S \in SUBSET Makers'
             PROVE  Cardinality(Defaults' \ Cleared(S)') + Cardinality(S) <= Cardinality(Requests)
  BY DEF RoomForDefaults
<1>1. Cleared(S)' = Cleared(S)
  BY DEF Cleared, Replaces
<1>2. S \in SUBSET Makers /\ S \in SUBSET Requests
  BY DEF Makers
<1>3. /\ Cardinality(Defaults' \ Cleared(S)) \in Nat /\ Cardinality(Defaults \ Cleared(S)) \in Nat
      /\ Cardinality(Defaults' \ Cleared(S)) <= Cardinality(Defaults \ Cleared(S))
  <2>1. IsFiniteSet(Defaults \ Cleared(S))
    BY FiniteDefaults, FS_Subset
  <2> QED
    BY <2>1, Smaller
<1>4. Cardinality(Defaults \ Cleared(S)) + Cardinality(S) <= Cardinality(Requests)
  BY <1>2 DEF RoomForDefaults
<1> QED
  BY <1>1, <1>2, <1>3, <1>4, SomeRequests

(* A request begins, goes on or ends: the others keep what they have. *)
LEMMA OneRequestMoves ==
    ASSUME DOMAIN request = Requests, NEW r \in Requests, NEW what,
           Begin(r, what) \/ Proceed(r, what)
    PROVE  /\ DOMAIN request' = Requests
           /\ request'[r] = what
           /\ \A q \in Requests \ {r} : request'[q] = request[q]
BY DEF Begin, Proceed

LEMMA OneRequestEnds ==
    ASSUME DOMAIN request = Requests, NEW r \in Requests, End(r)
    PROVE  /\ DOMAIN request' = Requests
           /\ request'[r] = Idle
           /\ \A q \in Requests \ {r} : request'[q] = request[q]
BY DEF End

(* An idle request is of no operation. *)
LEMMA IdleIsNothing == Idle.op = "idle"
BY DEF Idle

(* Steps that touch neither profiles nor the requests about them. *)
LEMMA ProfilesUntouched ==
    ASSUME ProfilesInv, UNCHANGED profileVars,
           \A r \in Requests : \/ request'[r] = request[r]
                               \/ request[r].op # "profile" /\ request'[r].op # "profile"
    PROVE  ProfilesInv'
<1>1. ProfilesTyped'
  BY DEF ProfilesInv, ProfilesTyped, profileVars
<1>2. Defaults' = Defaults
  BY DEF Defaults, profileVars
<1>3. Makers' \subseteq Makers /\ \A r \in Makers' : request'[r] = request[r]
  BY DEF Makers, Runs
<1> QED
  BY <1>1, <1>2, <1>3, RoomIsLeft DEF ProfilesInv

(* A row that is inserted or updated: the defaults after it. *)
LEMMA InsertKeepsTypes ==
    ASSUME ProfilesTyped, NEW others, DOMAIN others = DOMAIN profiles,
           \A id \in DOMAIN others : others[id] \in [name : ProfileNames, default : BOOLEAN],
           NEW name \in ProfileNames, NEW default \in BOOLEAN, Insert(name, default, others)
    PROVE  /\ nextProfile' = nextProfile + 1 /\ nextProfile \in Nat \ {0} /\ nextProfile' \in Nat \ {0}
           /\ nextProfile \notin DOMAIN others
           /\ DOMAIN profiles' = DOMAIN others \cup {nextProfile}
           /\ DOMAIN profiles' \subseteq 1..(nextProfile' - 1)
           /\ profiles'[nextProfile] = [name |-> name, default |-> default]
           /\ \A id \in DOMAIN others : profiles'[id] = others[id]
           /\ \A id \in DOMAIN profiles' : profiles'[id] \in [name : ProfileNames, default : BOOLEAN]
<1>1. /\ nextProfile' = nextProfile + 1 /\ nextProfile \in Nat \ {0}
      /\ DOMAIN profiles \subseteq 1..(nextProfile - 1)
  BY DEF Insert, ProfilesTyped
<1>2. nextProfile \notin DOMAIN others /\ nextProfile' \in Nat \ {0}
  BY <1>1
<1>3. /\ DOMAIN profiles' = DOMAIN others \cup {nextProfile}
      /\ profiles'[nextProfile] = [name |-> name, default |-> default]
      /\ \A id \in DOMAIN others : profiles'[id] = others[id]
  BY <1>2 DEF Insert
<1>4. DOMAIN profiles' \subseteq 1..(nextProfile' - 1)
  <2>1. \A id \in 1..(nextProfile - 1) : id \in 1..(nextProfile' - 1)
    BY <1>1
  <2>2. nextProfile \in 1..(nextProfile' - 1)
    BY <1>1
  <2> QED
    BY <1>1, <1>3, <2>1, <2>2
<1> QED
  BY <1>1, <1>2, <1>3, <1>4

(* A profile that is created is not the default. *)
LEMMA CreateKeepsInv ==
    ASSUME ProfilesInv, NEW name \in ProfileNames, CreateProfile(name)
    PROVE  ProfilesInv'
<1>1. ProfilesTyped /\ RoomForDefaults /\ UNCHANGED request /\ Insert(name, FALSE, profiles)
  BY DEF ProfilesInv, CreateProfile
<1>2. \A id \in DOMAIN profiles : profiles[id] \in [name : ProfileNames, default : BOOLEAN]
  BY <1>1 DEF ProfilesTyped
<1>3. /\ nextProfile' \in Nat \ {0}
      /\ DOMAIN profiles' = DOMAIN profiles \cup {nextProfile}
      /\ DOMAIN profiles' \subseteq 1..(nextProfile' - 1)
      /\ profiles'[nextProfile] = [name |-> name, default |-> FALSE]
      /\ \A id \in DOMAIN profiles : profiles'[id] = profiles[id]
      /\ \A id \in DOMAIN profiles' : profiles'[id] \in [name : ProfileNames, default : BOOLEAN]
  BY <1>1, <1>2, InsertKeepsTypes
<1>4. ProfilesTyped'
  BY <1>1, <1>3 DEF ProfilesTyped
<1>5. Defaults' \subseteq Defaults
  BY <1>3 DEF Defaults
<1>6. Makers' = Makers
  BY <1>1 DEF Makers, Runs
<1> QED
  BY <1>1, <1>4, <1>5, <1>6, RoomIsLeft DEF ProfilesInv, Makers

(* A profile that is deleted may have been a default. *)
LEMMA DeleteKeepsInv ==
    ASSUME ProfilesInv, NEW id \in DOMAIN profiles, DeleteProfile(id)
    PROVE  ProfilesInv'
<1>1. /\ ProfilesTyped /\ RoomForDefaults /\ UNCHANGED <<nextProfile, request>>
      /\ DOMAIN profiles' = DOMAIN profiles \ {id}
      /\ \A p \in DOMAIN profiles' : profiles'[p] = profiles[p]
  BY DEF ProfilesInv, DeleteProfile
<1>2. ProfilesTyped'
  BY <1>1 DEF ProfilesTyped
<1>3. Defaults' \subseteq Defaults
  BY <1>1 DEF Defaults
<1>4. Makers' = Makers
  BY <1>1 DEF Makers, Runs
<1> QED
  BY <1>1, <1>2, <1>3, <1>4, RoomIsLeft DEF ProfilesInv, Makers

(* A request that begins to make or change a profile, or that fails. *)
LEMMA BeginKeepsInv ==
    ASSUME ProfilesInv, DOMAIN request = Requests, NEW r \in Requests,
           \/ GetDefaultProfile(r)
           \/ \E id \in DOMAIN profiles, name \in ProfileNames, default \in BOOLEAN :
                    UpdateProfile(r, id, name, default)
           \/ RejectProfile(r)
    PROVE  ProfilesInv' /\ DOMAIN request' = Requests
<1> USE RequestsAssumption, ProfilesAssumption
<1>1. UNCHANGED profileVars
  BY DEF GetDefaultProfile, UpdateProfile, RejectProfile
<1>2. /\ DOMAIN request' = Requests
      /\ \A q \in Requests \ {r} : request'[q] = request[q]
  BY OneRequestMoves, OneRequestEnds DEF GetDefaultProfile, UpdateProfile, RejectProfile
<1>3. \/ request'[r] = Idle
      \/ /\ request'[r] \in ProfileRequests
         /\ request'[r].id = None => request'[r].name # None /\ request'[r].default = TRUE
         /\ request'[r].phase = "clear" => request'[r].default = TRUE
         /\ request'[r].phase = "write" => request'[r].default # TRUE
  <2>1. CASE GetDefaultProfile(r)
    <3> DEFINE what == [op |-> "profile", phase |-> "clear", id |-> None, name |-> DefaultProfileName,
                        default |-> TRUE, cleared |-> {}]
    <3>1. request'[r] = what
      BY <2>1, OneRequestMoves DEF GetDefaultProfile
    <3>2. what.phase = "clear" /\ what.name # None /\ what.default = TRUE
      BY Zenon
    <3>3. what \in ProfileRequests
      BY DEF ProfileRequests
    <3> HIDE DEF what
    <3> QED
      BY <3>1, <3>2, <3>3
  <2>2. ASSUME NEW id \in DOMAIN profiles, NEW name \in ProfileNames, NEW default \in BOOLEAN,
               UpdateProfile(r, id, name, default)
        PROVE  /\ request'[r] \in ProfileRequests
               /\ request'[r].id = None => request'[r].name # None /\ request'[r].default = TRUE
               /\ request'[r].phase = "clear" => request'[r].default = TRUE
               /\ request'[r].phase = "write" => request'[r].default # TRUE
    <3> DEFINE renamed == IF name = profiles[id].name THEN None ELSE name
               changed == IF default = profiles[id].default THEN None ELSE default
               what == [op |-> "profile", phase |-> IF default /\ changed # None THEN "clear" ELSE "write",
                        id |-> id, name |-> renamed, default |-> changed, cleared |-> {}]
    <3>1. request'[r] = what
      BY <2>2, OneRequestMoves DEF UpdateProfile
    <3>2. id \in Nat /\ id # None
      BY DEF ProfilesInv, ProfilesTyped
    <3>3. renamed \in ProfileNames \cup {None} /\ changed \in {TRUE, FALSE, None}
      OBVIOUS
    <3>4. what \in ProfileRequests
      BY <3>2, <3>3 DEF ProfileRequests
    <3>5. what.id = id /\ what.default = changed
      OBVIOUS
    <3>6. /\ what.phase = "clear" => changed = TRUE
          /\ what.phase = "write" => changed # TRUE
      <4>1. CASE default /\ changed # None
        BY <4>1, Zenon
      <4>2. CASE ~(default /\ changed # None)
        <5>1. what.phase = "write"
          BY <4>2, Zenon
        <5>2. changed # TRUE
          BY <4>2, Zenon
        <5> QED
          BY <5>1, <5>2
      <4> QED
        BY <4>1, <4>2, Zenon
    <3> HIDE DEF what, changed, renamed
    <3> QED
      BY <3>1, <3>2, <3>4, <3>5, <3>6
  <2>3. CASE RejectProfile(r)
    BY <2>3, OneRequestEnds DEF RejectProfile
  <2> QED
    BY <2>1, <2>2, <2>3
<1>4. ProfilesTyped'
  BY <1>1, <1>2, <1>3, IdleIsNothing DEF ProfilesInv, ProfilesTyped, profileVars
<1>5. Defaults' = Defaults
  BY <1>1 DEF Defaults, profileVars
<1>6. Makers' \subseteq Makers /\ \A q \in Makers' : request'[q] = request[q]
  <2>1. r \notin Makers'
    BY <1>3, IdleIsNothing DEF Makers, Runs
  <2> QED
    BY <2>1, <1>2 DEF Makers, Runs
<1> QED
  BY <1>2, <1>4, <1>5, <1>6, RoomIsLeft DEF ProfilesInv

(* A request that clears the defaults it sees becomes a maker: a set with  *)
(* it in leaves no default uncleared.                                      *)
LEMMA ClearKeepsInv ==
    ASSUME ProfilesInv, DOMAIN request = Requests, NEW r \in Requests, ClearExistingDefault(r)
    PROVE  ProfilesInv' /\ DOMAIN request' = Requests
<1> DEFINE what == [request[r] EXCEPT !.phase = "write", !.cleared = Defaults \ {request[r].id}]
<1>1. UNCHANGED profileVars /\ Runs(r, "profile", "clear")
  BY DEF ClearExistingDefault
<1>2. /\ DOMAIN request' = Requests /\ request'[r] = what
      /\ \A q \in Requests \ {r} : request'[q] = request[q]
  BY OneRequestMoves DEF ClearExistingDefault
<1>3. request[r] \in ProfileRequests /\ request[r].default = TRUE
  BY <1>1 DEF Runs, ProfilesInv, ProfilesTyped
<1>4. Defaults \subseteq Nat
  BY DEF Defaults, ProfilesInv, ProfilesTyped
<1>5. /\ what \in ProfileRequests /\ what.phase = "write" /\ what.default = request[r].default
      /\ what.id = request[r].id /\ what.name = request[r].name
      /\ what.cleared = Defaults \ {request[r].id}
  BY <1>3, <1>4 DEF ProfileRequests
<1>6. ProfilesTyped'
  <2>1. request[r].id = None => request[r].name # None
    BY <1>1 DEF ProfilesInv, ProfilesTyped, Runs
  <2>2. /\ request'[r] \in ProfileRequests /\ request'[r].default = TRUE /\ request'[r].phase = "write"
        /\ request'[r].id = None => request'[r].name # None
    BY <1>2, <1>3, <1>5, <2>1
  <2> HIDE DEF what
  <2> QED
    BY <1>1, <1>2, <2>2 DEF ProfilesInv, ProfilesTyped, profileVars
<1>7. Defaults' = Defaults
  BY <1>1 DEF Defaults, profileVars
<1>8. \A q \in Makers' \ {r} : q \in Makers /\ request'[q] = request[q]
  BY <1>2 DEF Makers, Runs
<1>9. RoomForDefaults'
  <2> SUFFICES ASSUME NEW S \in SUBSET Makers'
               PROVE  Cardinality(Defaults' \ Cleared(S)') + Cardinality(S) <= Cardinality(Requests)
    BY DEF RoomForDefaults
  <2>0. S \in SUBSET Requests
    BY DEF Makers
  <2>1. CASE r \in S
    <3>1. Defaults \subseteq Replaces(r)'
      BY <1>2, <1>5 DEF Replaces
    <3>2. Replaces(r)' \subseteq Cleared(S)'
      BY <2>1 DEF Cleared
    <3>3. Cardinality(Defaults' \ Cleared(S)') = 0
      BY <3>1, <3>2, <1>7, FS_EmptySet
    <3> QED
      BY <3>3, <2>0, SomeRequests
  <2>2. CASE r \notin S
    <3>1. S \in SUBSET Makers /\ Cleared(S)' = Cleared(S)
      BY <2>2, <1>8 DEF Cleared, Replaces
    <3> QED
      BY <3>1, <1>7 DEF ProfilesInv, RoomForDefaults
  <2> QED
    BY <2>1, <2>2
<1> QED
  BY <1>2, <1>6, <1>9 DEF ProfilesInv

(* What a write does to the defaults: one that does not make a default     *)
(* leaves no new one, one that does adds one and takes those it replaces.  *)
LEMMA WriteEffect ==
    ASSUME ProfilesInv, DOMAIN request = Requests, NEW r \in Requests, WriteProfile(r)
    PROVE  /\ nextProfile' \in Nat \ {0}
           /\ DOMAIN profiles' \subseteq 1..(nextProfile' - 1)
           /\ \A id \in DOMAIN profiles' : profiles'[id] \in [name : ProfileNames, default : BOOLEAN]
           /\ request[r].default # TRUE => Defaults' \subseteq Defaults
           /\ request[r].default = TRUE =>
                  \E id \in Defaults' : Defaults' \subseteq (Defaults \ Replaces(r)) \cup {id}
<1> DEFINE mine == request[r]
           cleared == [id \in DOMAIN profiles |->
                          IF id \in mine.cleared THEN [profiles[id] EXCEPT !.default = FALSE] ELSE profiles[id]]
           update(p) == [name |-> IF mine.name = None THEN p.name ELSE mine.name,
                         default |-> IF mine.default = None THEN p.default ELSE mine.default]
<1> USE RequestsAssumption
<1>1. /\ mine \in ProfileRequests
      /\ mine.id = None => mine.name # None /\ mine.default = TRUE
  BY DEF WriteProfile, Runs, ProfilesInv, ProfilesTyped
<1>2. /\ mine.name \in ProfileNames \cup {None} /\ mine.default \in {TRUE, FALSE, None}
      /\ mine.id \in Nat \cup {None}
  BY <1>1 DEF ProfileRequests
<1>3. \A id \in DOMAIN profiles : profiles[id] \in [name : ProfileNames, default : BOOLEAN]
  BY DEF ProfilesInv, ProfilesTyped
<1>4. /\ DOMAIN cleared = DOMAIN profiles
      /\ \A id \in DOMAIN cleared :
            /\ cleared[id] \in [name : ProfileNames, default : BOOLEAN]
            /\ id \in mine.cleared => ~cleared[id].default
            /\ id \notin mine.cleared => cleared[id] = profiles[id]
  BY <1>3
<1>5. mine.id \in DOMAIN profiles \/ mine.id = None
  BY DEF WriteProfile, Accepts, Written
<1> HIDE DEF cleared
<1>6. CASE mine.id = None
  <2>1. Insert(mine.name, TRUE, cleared) /\ mine.name \in ProfileNames /\ mine.default = TRUE
    BY <1>1, <1>2, <1>6 DEF WriteProfile, cleared
  <2>2. /\ ProfilesTyped /\ DOMAIN cleared = DOMAIN profiles
        /\ \A id \in DOMAIN cleared : cleared[id] \in [name : ProfileNames, default : BOOLEAN]
    BY <1>4 DEF ProfilesInv
  <2>3. /\ nextProfile' \in Nat \ {0} /\ nextProfile \in Nat
        /\ nextProfile \notin DOMAIN cleared
        /\ DOMAIN profiles' = DOMAIN cleared \cup {nextProfile}
        /\ DOMAIN profiles' \subseteq 1..(nextProfile' - 1)
        /\ profiles'[nextProfile] = [name |-> mine.name, default |-> TRUE]
        /\ \A id \in DOMAIN cleared : profiles'[id] = cleared[id]
        /\ \A id \in DOMAIN profiles' : profiles'[id] \in [name : ProfileNames, default : BOOLEAN]
    <3> HIDE DEF mine
    <3> QED
      BY <2>1, <2>2, InsertKeepsTypes
  <2>4. nextProfile \in Defaults'
    BY <2>1, <2>3 DEF Defaults
  <2>5. Defaults' \subseteq (Defaults \ Replaces(r)) \cup {nextProfile}
    <3> SUFFICES ASSUME NEW id \in Defaults', id # nextProfile
                 PROVE  id \in Defaults \ Replaces(r)
      OBVIOUS
    <3>1. id \in DOMAIN cleared /\ cleared[id].default
      BY <2>3 DEF Defaults
    <3>2. id \in Defaults /\ id \notin mine.cleared
      BY <3>1, <1>4 DEF Defaults
    <3>3. id \in Nat
      BY <3>1, <1>4, <2>2 DEF ProfilesTyped
    <3> QED
      BY <3>2, <3>3, <1>6 DEF Replaces
  <2> QED
    BY <2>1, <2>3, <2>4, <2>5
<1>7. CASE mine.id \in DOMAIN profiles
  <2>0. mine.id # None
    BY <1>7 DEF ProfilesInv, ProfilesTyped
  <2>1. profiles' = [cleared EXCEPT ![mine.id] = update(@)] /\ nextProfile' = nextProfile
    BY <2>0 DEF WriteProfile, cleared
  <2>2. /\ DOMAIN profiles' = DOMAIN profiles
        /\ profiles'[mine.id] = update(cleared[mine.id])
        /\ \A id \in DOMAIN profiles \ {mine.id} : profiles'[id] = cleared[id]
    BY <2>1, <1>4, <1>7
  <2>3. /\ update(cleared[mine.id]) \in [name : ProfileNames, default : BOOLEAN]
        /\ mine.default = None => update(cleared[mine.id]).default = cleared[mine.id].default
        /\ mine.default # None => update(cleared[mine.id]).default = mine.default
    BY <1>2, <1>4, <1>7
  <2> HIDE DEF update
  <2>4. /\ nextProfile' \in Nat \ {0}
        /\ DOMAIN profiles' \subseteq 1..(nextProfile' - 1)
        /\ \A id \in DOMAIN profiles' : profiles'[id] \in [name : ProfileNames, default : BOOLEAN]
    BY <2>1, <2>2, <2>3, <1>4 DEF ProfilesInv, ProfilesTyped
  <2>5. Defaults' \ {mine.id} \subseteq Defaults \ Replaces(r)
    <3> SUFFICES ASSUME NEW id \in Defaults', id # mine.id
                 PROVE  id \in Defaults \ Replaces(r)
      OBVIOUS
    <3>1. id \in DOMAIN profiles /\ cleared[id].default
      BY <2>2 DEF Defaults
    <3>2. id \in Defaults /\ id \notin mine.cleared
      BY <3>1, <1>4 DEF Defaults
    <3> QED
      BY <3>2 DEF Replaces
  <2>6. ASSUME mine.default # TRUE, mine.id \in Defaults' PROVE mine.id \in Defaults
    <3>1. profiles'[mine.id].default
      BY <2>6 DEF Defaults
    <3>2. mine.default = None
      BY <3>1, <2>6, <2>2, <2>3, <1>2
    <3>3. cleared[mine.id].default
      BY <3>1, <3>2, <2>2, <2>3
    <3> QED
      BY <3>3, <1>4, <1>7 DEF Defaults
  <2>7. ASSUME mine.default = TRUE PROVE mine.id \in Defaults'
    BY <2>7, <2>2, <2>3, <1>7 DEF Defaults
  <2> QED
    BY <2>4, <2>5, <2>6, <2>7
<1> QED
  BY <1>5, <1>6, <1>7

(* The write of a maker uses the room it had: the set it was in with any   *)
(* others is the set of those others, and one default more.                *)
LEMMA WriteKeepsInv ==
    ASSUME ProfilesInv, DOMAIN request = Requests, NEW r \in Requests, WriteProfile(r)
    PROVE  ProfilesInv' /\ DOMAIN request' = Requests
<1>1. /\ DOMAIN request' = Requests /\ request'[r] = Idle
      /\ \A q \in Requests \ {r} : request'[q] = request[q]
  BY OneRequestEnds DEF WriteProfile
<1>2. ProfilesTyped'
  BY <1>1, WriteEffect, IdleIsNothing DEF ProfilesInv, ProfilesTyped
<1>3. Makers' \subseteq Makers \ {r} /\ \A q \in Makers' : request'[q] = request[q]
  BY <1>1, IdleIsNothing DEF Makers, Runs
<1>4. ProfilesTyped /\ RoomForDefaults
  BY DEF ProfilesInv
<1>5. CASE request[r].default # TRUE
  BY <1>1, <1>2, <1>3, <1>4, <1>5, WriteEffect, RoomIsLeft DEF ProfilesInv
<1>6. CASE request[r].default = TRUE
  <2> SUFFICES ASSUME NEW S \in SUBSET Makers'
               PROVE  Cardinality(Defaults' \ Cleared(S)') + Cardinality(S) <= Cardinality(Requests)
    BY <1>1, <1>2 DEF ProfilesInv, RoomForDefaults
  <2> DEFINE both == S \cup {r}
             uncleared == Defaults \ Cleared(both)
  <2>1. PICK id \in Defaults' : Defaults' \subseteq (Defaults \ Replaces(r)) \cup {id}
    BY <1>6, WriteEffect
  <2>2. r \in Makers /\ r \notin S /\ both \in SUBSET Makers
    BY <1>3, <1>6 DEF WriteProfile, Makers
  <2>3. Cleared(S)' = Cleared(S) /\ Cleared(both) = Cleared(S) \cup Replaces(r)
    BY <1>3 DEF Cleared, Replaces
  <2>4. Defaults' \ Cleared(S)' \subseteq uncleared \cup {id}
    BY <2>1, <2>3
  <2>5. Cardinality(uncleared) + Cardinality(both) <= Cardinality(Requests)
    BY <1>4, <2>2 DEF RoomForDefaults
  <2>6. IsFiniteSet(uncleared)
    BY <1>4, FiniteDefaults, FS_Subset
  <2> HIDE DEF uncleared
  <2>7. /\ Cardinality(Defaults' \ Cleared(S)') <= Cardinality(uncleared) + 1
        /\ Cardinality(Defaults' \ Cleared(S)') \in Nat /\ Cardinality(uncleared) \in Nat
    <3>1. /\ IsFiniteSet(uncleared \cup {id}) /\ Cardinality(uncleared) \in Nat
          /\ Cardinality(uncleared \cup {id}) \in Nat
          /\ Cardinality(uncleared \cup {id}) <= Cardinality(uncleared) + 1
      BY <2>6, OneMore
    <3>2. /\ Cardinality(Defaults' \ Cleared(S)') \in Nat
          /\ Cardinality(Defaults' \ Cleared(S)') <= Cardinality(uncleared \cup {id})
      BY <3>1, <2>4, Smaller
    <3> QED
      BY <3>1, <3>2
  <2>8. Cardinality(both) = Cardinality(S) + 1 /\ Cardinality(S) \in Nat
    <3>1. S \in SUBSET Requests
      BY DEF Makers
    <3> QED
      BY <3>1, <2>2, SomeRequests, OneMore
  <2> QED
    BY <2>5, <2>7, <2>8, SomeRequests
<1> QED
  BY <1>5, <1>6

-----------------------------------------------------------------------------
(* Collections *)

(* Steps that touch neither collections nor the requests about them. *)
LEMMA CollectionsUntouched ==
    ASSUME CollectionsInv, UNCHANGED collections,
           \A r \in Requests : \/ request'[r] = request[r]
                               \/ request[r].op # "collection" /\ request'[r].op # "collection"
    PROVE  CollectionsInv'
<1>1. \A r \in Requests :
        Runs(r, "collection", "write") <=> Runs(r, "collection", "write")'
  BY DEF Runs
<1>2. \A r \in Requests : Runs(r, "collection", "write") => request'[r] = request[r]
  BY DEF Runs
<1>3. DefaultCollections' = DefaultCollections /\ Founders' = Founders
  BY <1>1, <1>2 DEF DefaultCollections, Founders
<1>4. CollectionsTyped'
  BY DEF CollectionsInv, CollectionsTyped
<1>5. RoomForFounders'
  BY <1>3 DEF CollectionsInv, RoomForFounders
<1>6. OneIsFirst'
  BY <1>1, <1>2, <1>3 DEF CollectionsInv, OneIsFirst
<1> QED
  BY <1>4, <1>5, <1>6 DEF CollectionsInv

(* There are finitely many collections that are the default, and founders. *)
LEMMA FiniteCollections ==
    ASSUME CollectionsTyped
    PROVE  /\ IsFiniteSet(DefaultCollections) /\ IsFiniteSet(Founders)
           /\ Cardinality(DefaultCollections) \in Nat /\ Cardinality(Founders) \in Nat
<1>1. DefaultCollections \subseteq DOMAIN collections /\ Founders \subseteq Requests
  BY DEF DefaultCollections, Founders
<1> QED
  BY <1>1, Smaller, SomeRequests DEF CollectionsTyped

(* A request that fails or begins, before it has looked for collections. *)
LEMMA CollectionBeginKeepsInv ==
    ASSUME CollectionsInv, DOMAIN request = Requests, NEW r \in Requests,
           \/ GetDefaultCollection(r)
           \/ \E name \in CollectionNames : CreateCollection(r, name)
           \/ RejectCollection(r)
    PROVE  CollectionsInv'
<1>1. UNCHANGED collections
  BY DEF GetDefaultCollection, CreateCollection, RejectCollection, collectionVars
<1>2. \A q \in Requests \ {r} : request'[q] = request[q]
  BY OneRequestMoves, OneRequestEnds DEF GetDefaultCollection, CreateCollection, RejectCollection
<1>3. \/ request'[r] = Idle
      \/ request'[r] \in CollectionRequests /\ request'[r].phase = "look"
  <2>1. ASSUME NEW name \in CollectionNames,
               request'[r] = [op |-> "collection", phase |-> "look", name |-> name, default |-> FALSE]
        PROVE  request'[r] \in CollectionRequests /\ request'[r].phase = "look"
    BY <2>1 DEF CollectionRequests
  <2>2. CASE GetDefaultCollection(r)
    BY <2>1, <2>2, CollectionsAssumption, OneRequestMoves DEF GetDefaultCollection
  <2>3. ASSUME NEW name \in CollectionNames, CreateCollection(r, name)
        PROVE  request'[r] \in CollectionRequests /\ request'[r].phase = "look"
    BY <2>1, <2>3, OneRequestMoves DEF CreateCollection
  <2>4. CASE RejectCollection(r)
    BY <2>4, OneRequestEnds DEF RejectCollection
  <2> QED
    BY <2>2, <2>3, <2>4
<1>4. ~Runs(r, "collection", "write")'
  BY <1>3 DEF Runs
<1>5. CollectionsTyped'
  BY <1>1, <1>2, <1>3, IdleIsNothing DEF CollectionsInv, CollectionsTyped
<1>6. DefaultCollections' = DefaultCollections /\ Founders' \subseteq Founders
  BY <1>1, <1>2, <1>4 DEF DefaultCollections, Founders, Runs
<1>7. RoomForFounders'
  <2>1. Cardinality(Founders') <= Cardinality(Founders) /\ Cardinality(Founders') \in Nat
    BY <1>6, FiniteCollections, Smaller DEF CollectionsInv
  <2> QED
    BY <2>1, <1>6, FiniteCollections, SomeRequests DEF CollectionsInv, RoomForFounders
<1>8. OneIsFirst'
  BY <1>1, <1>2, <1>4, <1>6 DEF CollectionsInv, OneIsFirst, Runs
<1> QED
  BY <1>5, <1>7, <1>8 DEF CollectionsInv

(* Only a look at an empty table makes a founder. *)
LEMMA LookKeepsInv ==
    ASSUME CollectionsInv, DOMAIN request = Requests, NEW r \in Requests, LookForExisting(r)
    PROVE  CollectionsInv'
<1> DEFINE what == [request[r] EXCEPT !.phase = "write", !.default = DOMAIN collections = {}]
<1>1. UNCHANGED collections /\ Runs(r, "collection", "look")
  BY DEF LookForExisting, collectionVars
<1>2. /\ request'[r] = what
      /\ \A q \in Requests \ {r} : request'[q] = request[q]
  BY OneRequestMoves DEF LookForExisting
<1>3. request[r] \in CollectionRequests
  BY <1>1 DEF Runs, CollectionsInv, CollectionsTyped
<1>4. what \in CollectionRequests /\ what.default = (DOMAIN collections = {})
  BY <1>3 DEF CollectionRequests
<1> HIDE DEF what
<1>5. CollectionsTyped'
  BY <1>1, <1>2, <1>4 DEF CollectionsInv, CollectionsTyped
<1>6. DefaultCollections' = DefaultCollections
  BY <1>1 DEF DefaultCollections
<1>7. RoomForFounders'
  <2>1. CASE DOMAIN collections = {}
    <3>1. Founders' \subseteq Requests /\ DefaultCollections = {}
      BY <2>1 DEF Founders, DefaultCollections
    <3> QED
      BY <3>1, <1>6, SomeRequests, FS_EmptySet DEF RoomForFounders
  <2>2. CASE DOMAIN collections # {}
    <3>1. Founders' \subseteq Founders
      BY <2>2, <1>2, <1>4 DEF Founders, Runs
    <3>2. Cardinality(Founders') <= Cardinality(Founders) /\ Cardinality(Founders') \in Nat
      BY <3>1, FiniteCollections, Smaller DEF CollectionsInv
    <3> QED
      BY <3>2, <1>6, FiniteCollections, SomeRequests DEF CollectionsInv, RoomForFounders
  <2> QED
    BY <2>1, <2>2
<1>8. OneIsFirst'
  BY <1>1, <1>2, <1>4, <1>6 DEF CollectionsInv, OneIsFirst, Runs
<1> QED
  BY <1>5, <1>7, <1>8 DEF CollectionsInv

(* A founder becomes a default collection; others become no default. *)
LEMMA WriteCollectionKeepsInv ==
    ASSUME CollectionsInv, DOMAIN request = Requests, NEW r \in Requests, WriteCollection(r)
    PROVE  CollectionsInv'
<1> DEFINE name == request[r].name
<1>1. /\ request'[r] = Idle
      /\ \A q \in Requests \ {r} : request'[q] = request[q]
  BY OneRequestEnds DEF WriteCollection
<1>2. request[r] \in CollectionRequests /\ Runs(r, "collection", "write")
  BY DEF WriteCollection, Runs, CollectionsInv, CollectionsTyped
<1>3. /\ name \notin DOMAIN collections
      /\ DOMAIN collections' = DOMAIN collections \cup {name}
      /\ collections'[name] = request[r].default /\ request[r].default \in BOOLEAN
      /\ \A n \in DOMAIN collections : collections'[n] = collections[n]
  BY <1>2 DEF WriteCollection, CollectionRequests
<1> HIDE DEF name
<1>4. CollectionsTyped'
  <2>1. IsFiniteSet(DOMAIN collections')
    BY <1>3, OneMore DEF CollectionsInv, CollectionsTyped
  <2> QED
    BY <2>1, <1>1, <1>3, IdleIsNothing DEF CollectionsInv, CollectionsTyped
<1>5. /\ request[r].default = TRUE => DefaultCollections' = DefaultCollections \cup {name}
      /\ request[r].default # TRUE => DefaultCollections' = DefaultCollections
  BY <1>3 DEF DefaultCollections
<1>6. /\ request[r].default = TRUE => r \in Founders
      /\ r \notin Founders' /\ Founders' \subseteq Founders
  BY <1>1, <1>2 DEF Founders, Runs
<1>7. /\ CollectionsTyped /\ RoomForFounders
      /\ Cardinality(Founders') <= Cardinality(Founders) /\ Cardinality(Founders') \in Nat
  BY <1>6, FiniteCollections, Smaller DEF CollectionsInv
<1>8. RoomForFounders'
  <2>1. CASE request[r].default # TRUE
    BY <2>1, <1>5, <1>7, FiniteCollections, SomeRequests DEF RoomForFounders
  <2>2. CASE request[r].default = TRUE
    <3>1. Cardinality(DefaultCollections') <= Cardinality(DefaultCollections) + 1
      BY <2>2, <1>5, <1>7, FiniteCollections, OneMore
    <3>2. Cardinality(DefaultCollections') \in Nat
      BY <2>2, <1>5, <1>7, FiniteCollections, OneMore
    <3>3. Cardinality(Founders') + 1 <= Cardinality(Founders)
      <4>1. Cardinality(Founders' \cup {r}) = Cardinality(Founders') + 1
        <5>1. IsFiniteSet(Founders')
          BY <1>6, <1>7, FiniteCollections, Smaller
        <5> QED
          BY <5>1, <1>6, OneMore
      <4>2. Founders' \cup {r} \subseteq Founders
        BY <2>2, <1>6
      <4> QED
        BY <4>1, <4>2, <1>7, FiniteCollections, Smaller
    <3> QED
      BY <3>1, <3>2, <3>3, <1>7, FiniteCollections, SomeRequests DEF RoomForFounders
  <2> QED
    BY <2>1, <2>2
<1>9. OneIsFirst'
  BY <1>2, <1>3, <1>5 DEF CollectionsInv, OneIsFirst
<1> QED
  BY <1>4, <1>8, <1>9 DEF CollectionsInv

-----------------------------------------------------------------------------
(* The parts together *)

(* A request is about one part at a time. *)
LEMMA RequestsApart ==
    ASSUME DOMAIN request = Requests, NEW r \in Requests
    PROVE  /\ ProfileRequest(r) =>
                /\ DOMAIN request' = Requests
                /\ \A q \in Requests \ {r} : request'[q] = request[q]
                /\ request[r].op # "collection" /\ request'[r].op # "collection"
           /\ CollectionRequest(r) =>
                /\ DOMAIN request' = Requests
                /\ \A q \in Requests \ {r} : request'[q] = request[q]
                /\ request[r].op # "profile" /\ request'[r].op # "profile"
           /\ AskPrice(r) \/ WritePrice(r) \/ PriceFails(r) =>
                /\ DOMAIN request' = Requests
                /\ \A q \in Requests \ {r} : request'[q] = request[q]
                /\ request[r].op \notin {"profile", "collection"}
                /\ request'[r].op \notin {"profile", "collection"}
<1> USE IdleIsNothing
<1>1. ASSUME ProfileRequest(r)
      PROVE  /\ DOMAIN request' = Requests
             /\ \A q \in Requests \ {r} : request'[q] = request[q]
             /\ request[r].op # "collection" /\ request'[r].op # "collection"
  <2>1. CASE GetDefaultProfile(r)
    BY <2>1, OneRequestMoves DEF GetDefaultProfile, Begin
  <2>2. ASSUME NEW id \in DOMAIN profiles, NEW name \in ProfileNames, NEW default \in BOOLEAN,
               UpdateProfile(r, id, name, default)
        PROVE  /\ DOMAIN request' = Requests
               /\ \A q \in Requests \ {r} : request'[q] = request[q]
               /\ request[r].op # "collection" /\ request'[r].op # "collection"
    BY <2>2, OneRequestMoves DEF UpdateProfile, Begin
  <2>3. CASE ClearExistingDefault(r)
    <3> DEFINE what == [request[r] EXCEPT !.phase = "write", !.cleared = Defaults \ {request[r].id}]
    <3>1. request[r].op = "profile" /\ what.op = request[r].op
      BY <2>3 DEF ClearExistingDefault, Runs
    <3>2. Proceed(r, what)
      BY <2>3 DEF ClearExistingDefault
    <3> HIDE DEF what
    <3> QED
      BY <3>1, <3>2, OneRequestMoves
  <2>4. CASE WriteProfile(r) \/ RejectProfile(r)
    BY <2>4, OneRequestEnds DEF WriteProfile, RejectProfile, Runs
  <2> QED
    BY <1>1, <2>1, <2>2, <2>3, <2>4 DEF ProfileRequest
<1>2. ASSUME CollectionRequest(r)
      PROVE  /\ DOMAIN request' = Requests
             /\ \A q \in Requests \ {r} : request'[q] = request[q]
             /\ request[r].op # "profile" /\ request'[r].op # "profile"
  <2>1. CASE GetDefaultCollection(r)
    BY <2>1, OneRequestMoves DEF GetDefaultCollection, Begin
  <2>2. CASE \E name \in CollectionNames : CreateCollection(r, name)
    BY <2>2, OneRequestMoves DEF CreateCollection, Begin
  <2>3. CASE LookForExisting(r)
    <3> DEFINE what == [request[r] EXCEPT !.phase = "write", !.default = DOMAIN collections = {}]
    <3>1. request[r].op = "collection" /\ what.op = request[r].op
      BY <2>3 DEF LookForExisting, Runs
    <3>2. Proceed(r, what)
      BY <2>3 DEF LookForExisting
    <3> HIDE DEF what
    <3> QED
      BY <3>1, <3>2, OneRequestMoves
  <2>4. CASE \/ WriteCollection(r) \/ RejectCollection(r) \/ WritePreview(r)
             \/ WriteConfirm(r) \/ WriteAbort(r)
    BY <2>4, OneRequestEnds
       DEF WriteCollection, RejectCollection, WritePreview, WriteConfirm, WriteAbort, Runs
  <2>5. CASE \E collection \in DOMAIN collections, file \in Files : Preview(r, collection, file)
    BY <2>5, OneRequestMoves DEF Preview, Begin
  <2>6. CASE \/ \E i \in DOMAIN imports, skipBadRows \in BOOLEAN : ConfirmImport(r, i, skipBadRows)
             \/ \E i \in DOMAIN imports : AbortImport(r, i)
    BY <2>6, OneRequestMoves DEF ConfirmImport, AbortImport, Begin
  <2> QED
    BY <1>2, <2>1, <2>2, <2>3, <2>4, <2>5, <2>6 DEF CollectionRequest
<1>3. ASSUME AskPrice(r) \/ WritePrice(r) \/ PriceFails(r)
      PROVE  /\ DOMAIN request' = Requests
             /\ \A q \in Requests \ {r} : request'[q] = request[q]
             /\ request[r].op \notin {"profile", "collection"}
             /\ request'[r].op \notin {"profile", "collection"}
  BY <1>3, OneRequestMoves, OneRequestEnds DEF AskPrice, PriceDeck, WritePrice, PriceFails, Begin, Runs
<1> QED
  BY <1>1, <1>2, <1>3

(* Steps about profiles. *)
LEMMA ProfilesStep ==
    ASSUME IInv, ProfilesNext, UNCHANGED <<collectionVars, deckVars>>
    PROVE  IInv'
<1>1. ProfilesInv' /\ DOMAIN request' = Requests
  <2>1. CASE \E name \in ProfileNames : CreateProfile(name)
    BY <2>1, CreateKeepsInv DEF IInv, CreateProfile
  <2>2. CASE \E id \in DOMAIN profiles : DeleteProfile(id)
    BY <2>2, DeleteKeepsInv DEF IInv, DeleteProfile
  <2>3. CASE \E r \in Requests : ProfileRequest(r)
    BY <2>3, BeginKeepsInv, ClearKeepsInv, WriteKeepsInv DEF IInv, ProfileRequest
  <2> QED
    BY <2>1, <2>2, <2>3 DEF ProfilesNext
<1>2. CollectionsInv'
  <2>1. \A r \in Requests : \/ request'[r] = request[r]
                            \/ request[r].op # "collection" /\ request'[r].op # "collection"
    <3>1. CASE UNCHANGED request
      BY <3>1
    <3>2. ASSUME NEW r \in Requests, ProfileRequest(r)
          PROVE  \A q \in Requests : \/ request'[q] = request[q]
                                     \/ request[q].op # "collection" /\ request'[q].op # "collection"
      BY <3>2, RequestsApart DEF IInv
    <3> QED
      BY <3>1, <3>2 DEF ProfilesNext, CreateProfile, DeleteProfile
  <2> QED
    BY <2>1, CollectionsUntouched DEF IInv, collectionVars
<1>3. NamesAreKept'
  BY DEF IInv, NamesAreKept, deckVars
<1> QED
  BY <1>1, <1>2, <1>3 DEF IInv

(* Steps about collections and imports. *)
LEMMA CollectionsStep ==
    ASSUME IInv, CollectionsNext, UNCHANGED <<profileVars, deckVars>>
    PROVE  IInv'
<1> PICK r \in Requests : CollectionRequest(r)
  BY DEF CollectionsNext
<1>1. /\ DOMAIN request' = Requests
      /\ \A q \in Requests \ {r} : request'[q] = request[q]
      /\ request[r].op # "profile" /\ request'[r].op # "profile"
  BY RequestsApart DEF IInv
<1>2. ProfilesInv'
  BY <1>1, ProfilesUntouched DEF IInv
<1>3. CollectionsInv'
  <2>1. CASE \/ GetDefaultCollection(r)
             \/ \E name \in CollectionNames : CreateCollection(r, name)
             \/ RejectCollection(r)
    BY <2>1, CollectionBeginKeepsInv DEF IInv
  <2>2. CASE LookForExisting(r) \/ WriteCollection(r)
    BY <2>2, LookKeepsInv, WriteCollectionKeepsInv DEF IInv
  <2>3. ASSUME /\ UNCHANGED collections
               /\ request[r].op # "collection" /\ request'[r].op # "collection"
        PROVE  CollectionsInv'
    BY <2>3, <1>1, CollectionsUntouched DEF IInv
  <2>4. CASE WritePreview(r) \/ WriteConfirm(r) \/ WriteAbort(r)
    BY <2>3, <2>4, OneRequestEnds, IdleIsNothing
       DEF IInv, WritePreview, WriteConfirm, WriteAbort, Runs
  <2>5. CASE \E collection \in DOMAIN collections, file \in Files : Preview(r, collection, file)
    BY <2>3, <2>5, OneRequestMoves, IdleIsNothing DEF IInv, Preview, Begin, collectionVars
  <2>6. CASE \/ \E i \in DOMAIN imports, skipBadRows \in BOOLEAN : ConfirmImport(r, i, skipBadRows)
             \/ \E i \in DOMAIN imports : AbortImport(r, i)
    BY <2>3, <2>6, OneRequestMoves, IdleIsNothing
       DEF IInv, ConfirmImport, AbortImport, Begin, collectionVars
  <2> QED
    BY <2>1, <2>2, <2>4, <2>5, <2>6 DEF CollectionRequest
<1>4. NamesAreKept'
  BY DEF IInv, NamesAreKept, deckVars
<1> QED
  BY <1>1, <1>2, <1>3, <1>4 DEF IInv

(* What is shown is for a commander that is kept: the rows of a sync show  *)
(* what the cache has, which only grows, and prices leave names alone.     *)
LEMMA NamesStep ==
    ASSUME NamesAreKept, DecksStep
    PROVE  NamesAreKept'
<1>1. CASE ReplaceRows
  <2> SUFFICES ASSUME NEW d \in DOMAIN decks'
               PROVE  /\ {"row", "main", "name", "price"} \subseteq DOMAIN decks'[d]
                      /\ decks'[d].price \in {None, decks'[d].row}
                      /\ decks'[d].name # None =>
                            decks'[d].name = decks'[d].main /\ decks'[d].name \in commanders'
    BY DEF NamesAreKept
  <2> DEFINE main == sync.listing[d]
             row == [row |-> nextRow, main |-> main, price |-> None,
                     name |-> IF sync.named /\ main \in commanders THEN main ELSE None]
  <2>1. decks'[d] = row /\ commanders \subseteq commanders'
    BY <1>1 DEF ReplaceRows
  <2>2. /\ {"row", "main", "name", "price"} \subseteq DOMAIN row
        /\ row.price = None
        /\ row.name # None => row.name = row.main /\ row.name \in commanders
    OBVIOUS
  <2> HIDE DEF row
  <2> QED
    BY <2>1, <2>2
<1>2. ASSUME NEW r \in Requests, WritePrice(r) PROVE NamesAreKept'
  <2> DEFINE deck == request[r].deck
  <2>1. /\ deck \in DOMAIN decks /\ decks[deck].row = request[r].row
        /\ decks' = [decks EXCEPT ![deck].price = request[r].row]
        /\ commanders' = commanders
    BY <1>2 DEF WritePrice, RowIsThere
  <2> HIDE DEF deck
  <2>2. /\ DOMAIN decks' = DOMAIN decks
        /\ \A d \in DOMAIN decks \ {deck} : decks'[d] = decks[d]
        /\ decks'[deck] = [decks[deck] EXCEPT !.price = request[r].row]
    BY <2>1
  <2>3. /\ DOMAIN decks'[deck] = DOMAIN decks[deck]
        /\ decks'[deck].price = request[r].row
        /\ decks'[deck].row = decks[deck].row /\ decks'[deck].main = decks[deck].main
        /\ decks'[deck].name = decks[deck].name
    BY <2>1, <2>2 DEF NamesAreKept
  <2> QED
    BY <2>1, <2>2, <2>3 DEF NamesAreKept
<1>3. ASSUME UNCHANGED decks, commanders \subseteq commanders' PROVE NamesAreKept'
  BY <1>3 DEF NamesAreKept
<1>4. CASE \E r \in Requests : AskPrice(r) \/ PriceFails(r)
  BY <1>3, <1>4 DEF AskPrice, PriceDeck, PriceFails, deckVars
<1>5. CASE \E D \in SUBSET Decks : \E listing \in [D -> MainCards \cup {None}] : ListDecks(listing)
  BY <1>3, <1>5 DEF ListDecks
<1>6. CASE \E card \in MainCards : LookUp(card) \/ LookUpFindsNothing(card)
  BY <1>3, <1>6 DEF LookUp, LookUpFindsNothing
<1>7. CASE FlushNames \/ EndLookUps \/ LookUpRaises \/ SyncBreaks
  BY <1>3, <1>7 DEF FlushNames, EndLookUps, LookUpRaises, SyncBreaks
<1> QED
  BY <1>1, <1>2, <1>4, <1>5, <1>6, <1>7 DEF DecksStep, DecksNext

(* Steps about the popular decks. *)
LEMMA DecksKeepInv ==
    ASSUME IInv, DecksStep
    PROVE  IInv'
<1>1. UNCHANGED profileVars /\ UNCHANGED collections
  BY DEF DecksStep, collectionVars
<1>2. /\ DOMAIN request' = Requests
      /\ \A r \in Requests : \/ request'[r] = request[r]
                             \/ /\ request[r].op \notin {"profile", "collection"}
                                /\ request'[r].op \notin {"profile", "collection"}
  <2>1. CASE UNCHANGED request
    BY <2>1 DEF IInv
  <2>2. CASE \E r \in Requests : AskPrice(r) \/ WritePrice(r) \/ PriceFails(r)
    BY <2>2, RequestsApart DEF IInv
  <2>3. CASE DecksNext
    BY <2>1, <2>2, <2>3
       DEF DecksNext, ListDecks, LookUp, LookUpFindsNothing, FlushNames, EndLookUps, LookUpRaises,
           ReplaceRows, SyncBreaks
  <2> QED
    BY <2>2, <2>3 DEF DecksStep
<1> QED
  BY <1>1, <1>2, ProfilesUntouched, CollectionsUntouched, NamesStep DEF IInv

(* The state the module starts in. *)
LEMMA InitInv == Init => IInv
<1> SUFFICES ASSUME Init PROVE IInv
  OBVIOUS
<1>1. /\ DOMAIN request = Requests
      /\ \A r \in Requests : request[r] = Idle
  BY DEF Init
<1>2. Makers = {} /\ Founders = {}
  BY <1>1 DEF Makers, Founders, Runs
<1>3. DOMAIN profiles = {} /\ nextProfile = 1
  BY DEF Init, ProfilesInit
<1>4. DOMAIN collections = {}
  BY DEF Init, CollectionsInit
<1>5. Defaults = {} /\ DefaultCollections = {}
  BY <1>3, <1>4 DEF Defaults, DefaultCollections
<1>6. ProfilesInv
  <2>1. ProfilesTyped
    BY <1>1, <1>3, IdleIsNothing DEF ProfilesTyped
  <2>2. RoomForDefaults
    <3>1. \A S \in SUBSET Makers : S = {} /\ Defaults \ Cleared(S) = {}
      BY <1>2, <1>5
    <3> QED
      BY <3>1, FS_EmptySet, SomeRequests DEF RoomForDefaults
  <2> QED
    BY <2>1, <2>2 DEF ProfilesInv
<1>7. CollectionsInv
  <2>1. CollectionsTyped
    BY <1>1, <1>4, IdleIsNothing, FS_EmptySet DEF CollectionsTyped
  <2>2. RoomForFounders
    BY <1>2, <1>5, FS_EmptySet, SomeRequests DEF RoomForFounders
  <2>3. OneIsFirst
    BY <1>1, <1>4 DEF OneIsFirst, Runs
  <2> QED
    BY <2>1, <2>2, <2>3 DEF CollectionsInv
<1>8. NamesAreKept
  BY DEF Init, DecksInit, NamesAreKept
<1> QED
  BY <1>1, <1>6, <1>7, <1>8 DEF IInv

(* Every step preserves the invariant. *)
LEMMA StepInv ==
    ASSUME IInv, [Next]_vars
    PROVE  IInv'
<1>1. CASE RecordsStep
  BY <1>1, ProfilesStep, CollectionsStep DEF RecordsStep
<1>2. CASE DecksStep
  BY <1>2, DecksKeepInv
<1>3. CASE UNCHANGED vars
  <2>1. UNCHANGED profileVars /\ UNCHANGED collections /\ UNCHANGED <<decks, commanders>> /\ UNCHANGED request
    BY <1>3 DEF vars, collectionVars, deckVars
  <2>2. ProfilesInv' /\ CollectionsInv'
    BY <2>1, ProfilesUntouched, CollectionsUntouched DEF IInv
  <2> QED
    BY <2>1, <2>2 DEF IInv, NamesAreKept
<1> QED
  BY <1>1, <1>2, <1>3 DEF Next

LEMMA InvIsInvariant == Spec => []IInv
BY InitInv, StepInv, PTL DEF Spec

-----------------------------------------------------------------------------
(* Theorems *)

(* A maker that has seen all the others leaves one default. *)
LEMMA LastMakerAlone ==
    ASSUME IInv, NEW r \in Requests, WriteProfile(r), SeesAllDefaults(r)
    PROVE  Cardinality(Defaults') = 1
<1>1. PICK id \in Defaults' : Defaults' \subseteq (Defaults \ Replaces(r)) \cup {id}
  BY WriteEffect DEF IInv, SeesAllDefaults
<1>2. Defaults \ Replaces(r) = {}
  BY DEF SeesAllDefaults, Replaces
<1>3. Defaults' = {id}
  BY <1>1, <1>2
<1> QED
  BY <1>3, FS_Singleton

(* However many requests make profiles and first collections the default,  *)
(* and however they overtake each other, there are never more defaults     *)
(* than requests at a time, and the next one that is not overtaken leaves  *)
(* one.                                                                    *)
THEOREM DefaultsFew == Spec => DefaultsStayFew
<1>1. IInv => /\ Cardinality(Defaults) <= Cardinality(Requests)
              /\ Cardinality(DefaultCollections) <= Cardinality(Requests)
              /\ DOMAIN collections # {} => DefaultCollections # {}
  <2> SUFFICES ASSUME IInv
               PROVE  /\ Cardinality(Defaults) <= Cardinality(Requests)
                      /\ Cardinality(DefaultCollections) <= Cardinality(Requests)
                      /\ DOMAIN collections # {} => DefaultCollections # {}
    OBVIOUS
  <2>1. Cardinality(Defaults \ Cleared({})) + Cardinality({}) <= Cardinality(Requests)
    BY DEF IInv, ProfilesInv, RoomForDefaults
  <2>2. Defaults \ Cleared({}) = Defaults
    BY DEF Cleared
  <2>3. Cardinality(Defaults) \in Nat
    BY FiniteDefaults, FS_CardinalityType DEF IInv, ProfilesInv
  <2>4. Cardinality(Defaults) <= Cardinality(Requests)
    BY <2>1, <2>2, <2>3, FS_EmptySet
  <2>5. Cardinality(DefaultCollections) <= Cardinality(Requests)
    BY FiniteCollections, SomeRequests DEF IInv, CollectionsInv, RoomForFounders
  <2> QED
    BY <2>4, <2>5 DEF IInv, CollectionsInv, OneIsFirst
<1>2. IInv /\ [Next]_vars =>
        [\A r \in Requests : WriteProfile(r) /\ SeesAllDefaults(r) => Cardinality(Defaults') = 1]_vars
  BY LastMakerAlone
<1> QED
  BY <1>1, <1>2, InvIsInvariant, PTL DEF Spec, DefaultsStayFew

(* A name that was shown for a commander is shown by a sync that looked    *)
(* its names up.                                                           *)
LEMMA ShownAgain ==
    ASSUME IInv, [Next]_vars, NEW d \in DOMAIN decks \cap DOMAIN decks',
           sync # NoSync, sync.named, decks'[d].main = decks[d].main, decks[d].name # None
    PROVE  decks'[d].name = decks[d].name
<1>1. decks[d].name = decks[d].main /\ decks[d].name \in commanders
  BY DEF IInv, NamesAreKept
<1>2. CASE ReplaceRows
  <2>1. /\ decks'[d].main = sync.listing[d]
        /\ decks'[d].name = IF sync.named /\ sync.listing[d] \in commanders THEN sync.listing[d] ELSE None
    BY <1>2 DEF ReplaceRows
  <2> QED
    BY <1>1, <2>1
<1>3. ASSUME NEW r \in Requests, WritePrice(r) PROVE decks'[d].name = decks[d].name
  <2>1. decks' = [decks EXCEPT ![request[r].deck].price = request[r].row]
    BY <1>3 DEF WritePrice
  <2>2. d = request[r].deck => decks'[d] = [decks[d] EXCEPT !.price = request[r].row]
    BY <2>1
  <2>3. d # request[r].deck => decks'[d] = decks[d]
    BY <2>1
  <2>4. "name" \in DOMAIN decks[d]
    BY DEF IInv, NamesAreKept
  <2> QED
    BY <2>2, <2>3, <2>4
<1>4. CASE UNCHANGED decks
  BY <1>4
<1>5. CASE DecksStep
  BY <1>2, <1>3, <1>4, <1>5
     DEF DecksStep, DecksNext, AskPrice, PriceDeck, PriceFails, ListDecks, LookUp, LookUpFindsNothing,
         FlushNames, EndLookUps, LookUpRaises, SyncBreaks, deckVars
<1> QED
  BY <1>4, <1>5 DEF Next, RecordsStep, vars, deckVars

(* For any number of requests and decks and any size of the batches, a     *)
(* price is only shown on the row it was asked for, and a commander named  *)
(* once is named again unless the lookups raised.                          *)
THEOREM DecksShown == Spec => DecksShowTheirOwn
<1>1. IInv => \A d \in DOMAIN decks : decks[d].price \in {None, decks[d].row}
  BY DEF IInv, NamesAreKept
<1>2. IInv /\ [Next]_vars =>
        [\A d \in DOMAIN decks \cap DOMAIN decks' :
            (sync # NoSync /\ sync.named /\ decks'[d].main = decks[d].main /\ decks[d].name # None)
                => decks'[d].name = decks[d].name]_vars
  BY ShownAgain
<1> QED
  BY <1>1, <1>2, InvIsInvariant, PTL DEF Spec, DecksShowTheirOwn

-----------------------------------------------------------------------------
(* The commanders' names *)

\* The names a sync has got and not committed, and what is known of them
Pending == IF sync = NoSync THEN {} ELSE sync.pending

AnswersTyped ==
    /\ answers \in Nat /\ faults \in Nat
    /\ IsFiniteSet(commanders)
    /\ sync # NoSync =>
            /\ {"pc", "todo", "pending"} \subseteq DOMAIN sync
            /\ IsFiniteSet(sync.pending) /\ Cardinality(sync.pending) <= FlushEvery
            /\ sync.todo \cap (commanders \cup sync.pending) = {}

AnswersInv == AnswersTyped /\ CommanderPaidOnce

LEMMA PaidOnce == CommanderPaidOnce <=> answers <= Cardinality(commanders \cup Pending) + FlushEvery * faults
  BY DEF CommanderPaidOnce, Pending

(* The names known and pending are a finite set. *)
LEMMA FinitePending ==
    ASSUME AnswersTyped
    PROVE  /\ IsFiniteSet(Pending) /\ IsFiniteSet(commanders \cup Pending)
           /\ Cardinality(commanders) \in Nat /\ Cardinality(commanders \cup Pending) \in Nat
           /\ Cardinality(Pending) \in 0..FlushEvery
<1>1. IsFiniteSet(Pending) /\ Cardinality(Pending) <= FlushEvery
  BY FS_EmptySet, DecksAssumption DEF AnswersTyped, Pending
<1>2. IsFiniteSet(commanders \cup Pending)
  BY <1>1, FS_Union DEF AnswersTyped
<1> QED
  BY <1>1, <1>2, FS_CardinalityType, DecksAssumption DEF AnswersTyped

(* A fault may cost as much as a batch. *)
LEMMA OneFaultMore ==
    ASSUME NEW a \in Nat, NEW b \in Nat
    PROVE  a * b \in Nat /\ a * (b + 1) = a * b + a
  OBVIOUS

(* A step that keeps the known and pending names together keeps the bound. *)
LEMMA SameNames ==
    ASSUME AnswersInv, AnswersTyped', commanders' \cup Pending' = commanders \cup Pending,
           UNCHANGED <<answers, faults>>
    PROVE  AnswersInv'
  BY PaidOnce DEF AnswersInv, CommanderPaidOnce, Pending

(* An answer is one name more: what is still to do is neither known nor    *)
(* pending.                                                                *)
LEMMA LookUpKeepsAnswers ==
    ASSUME AnswersInv, NEW card \in MainCards, LookUp(card)
    PROVE  AnswersInv'
<1>1. /\ sync # NoSync /\ sync.pc = "looking" /\ card \in sync.todo
      /\ sync' = [sync EXCEPT !.todo = @ \ {card}, !.pending = @ \cup {card}]
      /\ Cardinality(sync.pending) < FlushEvery
      /\ answers' = answers + 1 /\ UNCHANGED <<commanders, faults>>
  BY DEF LookUp, NoSync
<1>2. /\ {"pc", "todo", "pending"} \subseteq DOMAIN sync
      /\ IsFiniteSet(sync.pending) /\ sync.todo \cap (commanders \cup sync.pending) = {}
  BY <1>1 DEF AnswersInv, AnswersTyped
<1>3. /\ DOMAIN sync' = DOMAIN sync /\ sync'.pc = "looking"
      /\ sync'.todo = sync.todo \ {card} /\ sync'.pending = sync.pending \cup {card}
  BY <1>1, <1>2
<1>4. sync' # NoSync
  BY <1>3 DEF NoSync
<1>5. card \notin commanders \cup sync.pending
  BY <1>1, <1>2
<1>6. Cardinality(sync'.pending) = Cardinality(sync.pending) + 1 /\ IsFiniteSet(sync'.pending)
  BY <1>2, <1>3, <1>5, FS_AddElement
<1>7. AnswersTyped'
  <2>1. Cardinality(sync'.pending) <= FlushEvery
    BY <1>1, <1>2, <1>6, FS_CardinalityType, DecksAssumption
  <2>2. sync'.todo \cap (commanders \cup sync'.pending) = {}
    BY <1>2, <1>3
  <2> QED
    BY <1>1, <1>2, <1>3, <1>6, <2>1, <2>2 DEF AnswersInv, AnswersTyped
<1>8. Pending = sync.pending /\ Pending' = sync.pending \cup {card}
  BY <1>1, <1>3, <1>4 DEF Pending
<1>9. Cardinality(commanders' \cup Pending') = Cardinality(commanders \cup Pending) + 1
  <2>1. commanders' \cup Pending' = (commanders \cup Pending) \cup {card}
    BY <1>1, <1>8
  <2> QED
    BY <2>1, <1>5, <1>8, FinitePending, FS_AddElement DEF AnswersInv
<1>10. answers + 1 <= (Cardinality(commanders \cup Pending) + 1) + FlushEvery * faults
  BY FinitePending, PaidOnce, OneFaultMore, DecksAssumption DEF AnswersInv, AnswersTyped
<1> QED
  BY <1>1, <1>7, <1>9, <1>10 DEF AnswersInv, CommanderPaidOnce, Pending

(* A sync that breaks loses at most the batch that was pending. *)
LEMMA BreakKeepsAnswers ==
    ASSUME AnswersInv, SyncBreaks
    PROVE  AnswersInv'
<1>1. faults' = faults + 1 /\ sync' = NoSync /\ UNCHANGED <<commanders, answers>>
  BY DEF SyncBreaks
<1>2. AnswersTyped'
  BY <1>1 DEF AnswersInv, AnswersTyped
<1>3. Pending' = {} /\ commanders' \cup Pending' = commanders
  BY <1>1 DEF Pending
<1>4. Cardinality(commanders \cup Pending) <= Cardinality(commanders) + FlushEvery
  <2>1. IsFiniteSet(commanders \cap Pending)
    BY FinitePending, FS_Intersection DEF AnswersInv, AnswersTyped
  <2>2. Cardinality(commanders \cup Pending)
            = Cardinality(commanders) + Cardinality(Pending) - Cardinality(commanders \cap Pending)
    BY FinitePending, FS_Union DEF AnswersInv, AnswersTyped
  <2> QED
    BY <2>1, <2>2, FinitePending, FS_CardinalityType, DecksAssumption DEF AnswersInv
<1>5. answers <= Cardinality(commanders) + FlushEvery * (faults + 1)
  BY <1>4, FinitePending, PaidOnce, OneFaultMore, DecksAssumption DEF AnswersInv, AnswersTyped
<1> QED
  BY <1>1, <1>2, <1>3, <1>5 DEF AnswersInv, CommanderPaidOnce, Pending

(* The steps of a sync but these two only move names. *)
LEMMA OthersKeepAnswers ==
    ASSUME AnswersInv,
           \/ \E D \in SUBSET Decks : \E listing \in [D -> MainCards \cup {None}] : ListDecks(listing)
           \/ \E card \in MainCards : LookUpFindsNothing(card)
           \/ FlushNames \/ EndLookUps \/ LookUpRaises \/ ReplaceRows
    PROVE  AnswersInv'
<1> USE DecksAssumption
<1>1. AnswersTyped
  BY DEF AnswersInv
<1>2. CASE \E D \in SUBSET Decks : \E listing \in [D -> MainCards \cup {None}] : ListDecks(listing)
  <2>1. PICK todo, listing :
           /\ sync = NoSync /\ todo = (Range(listing) \ {None}) \ commanders
           /\ sync' = [pc |-> "looking", listing |-> listing, pending |-> {}, named |-> FALSE, todo |-> todo]
           /\ UNCHANGED <<commanders, answers, faults>>
    BY <1>2 DEF ListDecks
  <2>2. Pending = {} /\ Pending' = {}
    BY <2>1 DEF Pending
  <2>3. AnswersTyped'
    BY <1>1, <2>1, FS_EmptySet DEF AnswersTyped
  <2> QED
    BY <2>1, <2>2, <2>3, SameNames
<1>3. CASE \E card \in MainCards : LookUpFindsNothing(card)
  <2>1. PICK card : /\ sync # NoSync /\ sync.pc = "looking" /\ sync' = [sync EXCEPT !.todo = @ \ {card}]
                    /\ UNCHANGED <<commanders, answers, faults>>
    BY <1>3 DEF LookUpFindsNothing, NoSync
  <2>2. /\ DOMAIN sync' = DOMAIN sync /\ sync'.pc = "looking"
        /\ sync'.todo = sync.todo \ {card} /\ sync'.pending = sync.pending
    BY <1>1, <2>1 DEF AnswersTyped
  <2>3. AnswersTyped'
    BY <1>1, <2>1, <2>2 DEF AnswersTyped
  <2>4. sync' # NoSync
    BY <2>2 DEF NoSync
  <2> QED
    BY <2>1, <2>2, <2>3, <2>4, SameNames DEF Pending
<1>4. CASE FlushNames \/ EndLookUps
  <2>1. /\ sync # NoSync /\ commanders' = commanders \cup sync.pending /\ UNCHANGED <<answers, faults>>
        /\ \/ sync' = [sync EXCEPT !.pending = {}] /\ sync.pc = "looking"
           \/ sync' = [sync EXCEPT !.pc = "listed", !.pending = {}, !.named = TRUE]
    BY <1>4 DEF FlushNames, EndLookUps, NoSync
  <2>2. /\ DOMAIN sync' = DOMAIN sync /\ sync'.pc \in {"looking", "listed"}
        /\ sync'.todo = sync.todo /\ sync'.pending = {}
    BY <1>1, <2>1 DEF AnswersTyped
  <2>3. IsFiniteSet(commanders')
    BY <1>1, <2>1, FS_Union DEF AnswersTyped
  <2>4. AnswersTyped'
    BY <1>1, <2>1, <2>2, <2>3, FS_EmptySet DEF AnswersTyped
  <2>5. Pending = sync.pending /\ Pending' = {}
    BY <2>1, <2>2 DEF Pending
  <2> QED
    BY <2>1, <2>4, <2>5, SameNames
<1>5. CASE LookUpRaises
  <2>1. /\ sync # NoSync /\ sync' = [sync EXCEPT !.pc = "listed"] /\ UNCHANGED <<commanders, answers, faults>>
    BY <1>5 DEF LookUpRaises, NoSync
  <2>2. /\ DOMAIN sync' = DOMAIN sync /\ sync'.pc = "listed"
        /\ sync'.todo = sync.todo /\ sync'.pending = sync.pending
    BY <1>1, <2>1 DEF AnswersTyped
  <2>3. AnswersTyped'
    BY <1>1, <2>1, <2>2 DEF AnswersTyped
  <2>4. sync' # NoSync
    BY <2>2 DEF NoSync
  <2> QED
    BY <2>1, <2>2, <2>3, <2>4, SameNames DEF Pending
<1>6. CASE ReplaceRows
  <2>1. /\ sync # NoSync /\ sync' = NoSync /\ commanders' = commanders \cup sync.pending
        /\ UNCHANGED <<answers, faults>>
    BY <1>6 DEF ReplaceRows, NoSync
  <2>2. IsFiniteSet(commanders')
    BY <1>1, <2>1, FS_Union DEF AnswersTyped
  <2>3. AnswersTyped'
    BY <1>1, <2>1, <2>2 DEF AnswersTyped
  <2> QED
    BY <2>1, <2>3, SameNames DEF Pending
<1> QED
  BY <1>2, <1>3, <1>4, <1>5, <1>6

(* Whatever the decks, the size of a batch and the number of syncs, a name *)
(* is asked for again only because of a fault, and each fault costs no     *)
(* more than one batch.                                                    *)
THEOREM NamesPaidOnce == Spec => []CommanderPaidOnce
<1>1. Init => AnswersInv
  <2> SUFFICES ASSUME Init PROVE AnswersInv
    OBVIOUS
  <2>1. answers = 0 /\ faults = 0 /\ commanders = {} /\ sync = NoSync
    BY DEF Init, DecksInit
  <2>2. FlushEvery * 0 = 0 /\ commanders \cup Pending = {}
    BY <2>1, DecksAssumption DEF Pending
  <2> QED
    BY <2>1, <2>2, PaidOnce, FS_EmptySet DEF AnswersInv, AnswersTyped
<1>2. AnswersInv /\ [Next]_vars => AnswersInv'
  <2> SUFFICES ASSUME AnswersInv, [Next]_vars PROVE AnswersInv'
    OBVIOUS
  <2>1. CASE UNCHANGED <<answers, faults, commanders, sync>>
    BY <2>1 DEF AnswersInv, AnswersTyped, CommanderPaidOnce
  <2>2. CASE DecksStep
    <3>1. CASE \E r \in Requests : AskPrice(r) \/ WritePrice(r) \/ PriceFails(r)
      BY <2>1, <3>1 DEF AskPrice, PriceDeck, WritePrice, PriceFails, deckVars
    <3>2. CASE \E card \in MainCards : LookUp(card)
      BY <3>2, LookUpKeepsAnswers
    <3> QED
      BY <2>2, <3>1, <3>2, BreakKeepsAnswers, OthersKeepAnswers DEF DecksStep, DecksNext
  <2> QED
    BY <2>1, <2>2 DEF Next, RecordsStep, vars, deckVars
<1>3. AnswersInv => CommanderPaidOnce
  BY DEF AnswersInv
<1> QED
  BY <1>1, <1>2, <1>3, PTL DEF Spec

-----------------------------------------------------------------------------
(* The invariant of the imports *)

\* No two profiles have one name
NamesUnique ==
    \A i, j \in DOMAIN profiles : profiles[i].name = profiles[j].name => i = j

ImportRecords ==
    [collection : CollectionNames, file : Files, duplicate : Nat \cup {None}, status : Statuses]

PreviewRequests ==
    [op : {"preview"}, phase : {"write"}, collection : CollectionNames, file : Files,
     duplicate : Nat \cup {None}]

\* Requests about to settle an import
Settles(r) == request[r].op \in {"confirm", "abort"}

ImportsTyped ==
    /\ DOMAIN collections \subseteq CollectionNames
    /\ imports \in Seq(ImportRecords)
    /\ \A i \in 1..Len(imports) :
            imports[i].collection \in DOMAIN collections /\ imports[i].duplicate \in {None} \cup 1..(i - 1)
    /\ \A r \in Requests :
            /\ request[r].op = "preview" =>
                    /\ request[r] \in PreviewRequests
                    /\ request[r].collection \in DOMAIN collections
                    /\ request[r].duplicate \in {None} \cup 1..Len(imports)
            /\ Settles(r) => request[r].import \in 1..Len(imports)

Confirmers(i) == {r \in Requests : Runs(r, "confirm", "write") /\ request[r].import = i}

RowsHaveRoom ==
    \A item \in DOMAIN items :
        /\ item.source \in 1..Len(imports)
        /\ imports[item.source].status # "previewed"
        /\ items[item] \in Nat
        /\ items[item] + Cardinality(Confirmers(item.source)) <= Cardinality(Requests)

ImportsInv == ImportsTyped /\ RowsHaveRoom

-----------------------------------------------------------------------------
(* Names of profiles *)

(* The name a profile is written with is nobody else's. *)
LEMMA WriteKeepsNames ==
    ASSUME ProfilesInv, NamesUnique, DOMAIN request = Requests, NEW r \in Requests, WriteProfile(r)
    PROVE  NamesUnique'
<1> DEFINE mine == request[r]
           cleared == [id \in DOMAIN profiles |->
                          IF id \in mine.cleared THEN [profiles[id] EXCEPT !.default = FALSE] ELSE profiles[id]]
           update(p) == [name |-> IF mine.name = None THEN p.name ELSE mine.name,
                         default |-> IF mine.default = None THEN p.default ELSE mine.default]
<1>1. \A id \in DOMAIN profiles : profiles[id] \in [name : ProfileNames, default : BOOLEAN]
  BY DEF ProfilesInv, ProfilesTyped
<1>2. DOMAIN cleared = DOMAIN profiles /\ \A id \in DOMAIN profiles : cleared[id].name = profiles[id].name
  BY <1>1
<1>3. /\ mine.id \in DOMAIN profiles \/ mine.id = None
      /\ mine.name # None => \A id \in DOMAIN profiles : profiles[id].name = mine.name => id = mine.id
  BY DEF WriteProfile, Accepts, Written, Named
<1>4. mine.id = None => mine.name # None
  BY DEF WriteProfile, Runs, ProfilesInv, ProfilesTyped
<1>5. None \notin DOMAIN profiles
  BY RequestsAssumption DEF ProfilesInv, ProfilesTyped
<1> HIDE DEF cleared
<1>6. CASE mine.id = None
  <2>1. /\ profiles' = [id \in DOMAIN cleared \cup {nextProfile} |->
                          IF id = nextProfile THEN [name |-> mine.name, default |-> mine.default] ELSE cleared[id]]
    BY <1>6 DEF WriteProfile, Insert, cleared
  <2>2. \A id \in DOMAIN profiles : profiles[id].name # mine.name
    BY <1>3, <1>4, <1>5, <1>6
  <2>3. /\ DOMAIN profiles' = DOMAIN profiles \cup {nextProfile}
        /\ profiles'[nextProfile].name = mine.name
        /\ \A id \in DOMAIN profiles \ {nextProfile} : profiles'[id].name = profiles[id].name
    BY <2>1, <1>2
  <2> HIDE DEF mine
  <2> QED
    BY <2>2, <2>3 DEF NamesUnique
<1>7. CASE mine.id \in DOMAIN profiles
  <2>1. profiles' = [cleared EXCEPT ![mine.id] = update(@)]
    BY <1>5, <1>7 DEF WriteProfile, cleared
  <2>2. /\ DOMAIN profiles' = DOMAIN profiles
        /\ profiles'[mine.id].name = IF mine.name = None THEN profiles[mine.id].name ELSE mine.name
        /\ \A id \in DOMAIN profiles \ {mine.id} : profiles'[id].name = profiles[id].name
    BY <2>1, <1>2, <1>7
  <2> HIDE DEF mine
  <2> QED
    BY <2>2, <1>3, <1>7 DEF NamesUnique
<1> QED
  BY <1>3, <1>6, <1>7

(* Names stay unique: a new one is looked for before it is written. *)
LEMMA NamesStayUnique ==
    ASSUME IInv, NamesUnique, [Next]_vars
    PROVE  NamesUnique'
<1>1. CASE UNCHANGED profiles
  BY <1>1 DEF NamesUnique
<1>2. ASSUME NEW name \in ProfileNames, CreateProfile(name) PROVE NamesUnique'
  <2>1. /\ profiles' = [id \in DOMAIN profiles \cup {nextProfile} |->
                            IF id = nextProfile THEN [name |-> name, default |-> FALSE] ELSE profiles[id]]
        /\ \A id \in DOMAIN profiles : profiles[id].name # name
    BY <1>2 DEF CreateProfile, Insert, Named
  <2>2. /\ DOMAIN profiles' = DOMAIN profiles \cup {nextProfile}
        /\ profiles'[nextProfile].name = name
        /\ \A id \in DOMAIN profiles \ {nextProfile} : profiles'[id].name = profiles[id].name
    BY <2>1
  <2> QED
    BY <2>1, <2>2 DEF NamesUnique
<1>3. ASSUME NEW id \in DOMAIN profiles, DeleteProfile(id) PROVE NamesUnique'
  BY <1>3 DEF DeleteProfile, NamesUnique
<1>4. ASSUME NEW r \in Requests, ProfileRequest(r) PROVE NamesUnique'
  BY <1>1, <1>4, WriteKeepsNames
     DEF IInv, ProfileRequest, GetDefaultProfile, UpdateProfile, ClearExistingDefault, RejectProfile, profileVars
<1>5. CASE ProfilesNext
  BY <1>2, <1>3, <1>4, <1>5 DEF ProfilesNext
<1> QED
  BY <1>1, <1>5 DEF Next, RecordsStep, DecksStep, vars, profileVars

-----------------------------------------------------------------------------
(* Imports and requests about them *)

(* The greatest of some numbers up to n is one of them. *)
LEMMA MaxIsOne ==
    ASSUME NEW n \in Nat, NEW S \in SUBSET (1..n), S # {}
    PROVE  Max(S) \in S
<1> DEFINE R == OpToRel(<, Nat)
           T == {n - x : x \in S}
<1>1. T \subseteq Nat /\ T # {}
  <2>1. \A x \in S : n - x \in Nat
    OBVIOUS
  <2>2. PICK x : x \in S
    OBVIOUS
  <2>3. n - x \in T
    BY <2>2
  <2> QED
    BY <2>1, <2>3
<1>2. \E m \in T : \A y \in T : ~(<<y, m>> \in R)
  <2>1. IsWellFoundedOn(R, Nat)
    BY NatLessThanWellFounded
  <2> HIDE DEF R, T
  <2> QED
    BY <2>1, <1>1, WFMin
<1>3. PICK m \in T : \A y \in T : ~(<<y, m>> \in R)
  BY <1>2
<1>4. PICK x \in S : m = n - x
  OBVIOUS
<1>5. \A y \in S : x >= y
  <2> SUFFICES ASSUME NEW y \in S PROVE x >= y
    OBVIOUS
  <2>1. n - y \in T /\ ~(<<n - y, m>> \in R)
    BY <1>3
  <2>2. n - y \in Nat /\ m \in Nat
    BY <1>1, <2>1
  <2>3. ~(n - y < m)
    BY <2>1, <2>2 DEF OpToRel
  <2> QED
    BY <2>3, <1>4
<1> QED
  BY <1>5 DEF Max

(* Requests that confirm an import are finitely many. *)
LEMMA ConfirmersCount ==
    ASSUME NEW i, NEW C \in SUBSET Confirmers(i)
    PROVE  /\ IsFiniteSet(Confirmers(i)) /\ IsFiniteSet(C)
           /\ Cardinality(Confirmers(i)) \in Nat /\ Cardinality(C) \in Nat
           /\ Cardinality(C) <= Cardinality(Confirmers(i))
           /\ Cardinality(Confirmers(i)) <= Cardinality(Requests) /\ Cardinality(Requests) \in Nat
<1>1. Confirmers(i) \in SUBSET Requests
  BY DEF Confirmers
<1> QED
  BY <1>1, SomeRequests, Smaller

(* Steps that leave imports and items alone, and let no request begin to   *)
(* preview, confirm or abort.                                              *)
LEMMA ImportsUntouched ==
    ASSUME ImportsInv, UNCHANGED <<imports, items>>,
           DOMAIN collections \subseteq DOMAIN collections',
           DOMAIN collections' \subseteq CollectionNames,
           \A r \in Requests : \/ request'[r] = request[r]
                               \/ request'[r].op \notin {"preview", "confirm", "abort"}
    PROVE  ImportsInv'
<1>1. ImportsTyped'
  BY DEF ImportsInv, ImportsTyped, Settles
<1>2. \A i : Confirmers(i)' \subseteq Confirmers(i)
  BY DEF Confirmers, Runs
<1>3. RowsHaveRoom'
  <2> SUFFICES ASSUME NEW item \in DOMAIN items
               PROVE  items[item] + Cardinality(Confirmers(item.source)') <= Cardinality(Requests)
    BY DEF ImportsInv, RowsHaveRoom
  <2>1. items[item] \in Nat /\ items[item] + Cardinality(Confirmers(item.source)) <= Cardinality(Requests)
    BY DEF ImportsInv, RowsHaveRoom
  <2> QED
    BY <2>1, <1>2, ConfirmersCount
<1> QED
  BY <1>1, <1>3 DEF ImportsInv

(* A preview that is being made knows a collection and earlier imports. *)
LEMMA PreviewKeepsImports ==
    ASSUME ImportsInv, DOMAIN request = Requests, NEW r \in Requests,
           NEW collection \in DOMAIN collections, NEW file \in Files, Preview(r, collection, file)
    PROVE  ImportsInv'
<1> DEFINE prior == PriorConfirmed(collection, file)
           what == [op |-> "preview", phase |-> "write", collection |-> collection, file |-> file,
                    duplicate |-> IF prior = {} THEN None ELSE Max(prior)]
<1>1. UNCHANGED <<collections, imports, items>>
  BY DEF Preview, collectionVars
<1>2. request'[r] = what /\ \A q \in Requests \ {r} : request'[q] = request[q]
  BY OneRequestMoves DEF Preview
<1>3. Len(imports) \in Nat /\ DOMAIN imports = 1..Len(imports)
  BY LenProperties DEF ImportsInv, ImportsTyped
<1>4. prior \in SUBSET (1..Len(imports))
  BY <1>3 DEF PriorConfirmed
<1> HIDE DEF prior
<1>5. what.duplicate \in {None} \cup 1..Len(imports)
  BY <1>3, <1>4, MaxIsOne
<1>6. /\ what \in PreviewRequests /\ what.op = "preview" /\ what.collection \in DOMAIN collections
  BY <1>3, <1>5 DEF PreviewRequests, ImportsInv, ImportsTyped
<1> HIDE DEF what
<1>7. ImportsTyped'
  BY <1>1, <1>2, <1>5, <1>6 DEF ImportsInv, ImportsTyped, Settles
<1>8. \A i : Confirmers(i)' \subseteq Confirmers(i)
  BY <1>2, <1>6 DEF Confirmers, Runs
<1>9. RowsHaveRoom'
  <2> SUFFICES ASSUME NEW item \in DOMAIN items
               PROVE  items[item] + Cardinality(Confirmers(item.source)') <= Cardinality(Requests)
    BY <1>1 DEF ImportsInv, RowsHaveRoom
  <2>1. items[item] \in Nat /\ items[item] + Cardinality(Confirmers(item.source)) <= Cardinality(Requests)
    BY DEF ImportsInv, RowsHaveRoom
  <2> QED
    BY <2>1, <1>8, ConfirmersCount
<1> QED
  BY <1>7, <1>9 DEF ImportsInv

(* A request begins to settle an import that is still a preview: no row of *)
(* it has entered.                                                         *)
LEMMA SettleKeepsImports ==
    ASSUME ImportsInv, DOMAIN request = Requests, NEW r \in Requests, NEW i \in DOMAIN imports,
           (\E skipBadRows \in BOOLEAN : ConfirmImport(r, i, skipBadRows)) \/ AbortImport(r, i)
    PROVE  ImportsInv'
<1>1. UNCHANGED <<collections, imports, items>> /\ imports[i].status = "previewed"
  BY DEF ConfirmImport, AbortImport, IsPreviewed, collectionVars
<1>2. /\ request'[r].op \in {"confirm", "abort"} /\ request'[r].import = i
      /\ \A q \in Requests \ {r} : request'[q] = request[q]
  BY OneRequestMoves DEF ConfirmImport, AbortImport
<1>3. i \in 1..Len(imports)
  BY LenProperties DEF ImportsInv, ImportsTyped
<1>4. ImportsTyped'
  BY <1>1, <1>2, <1>3 DEF ImportsInv, ImportsTyped, Settles
<1>5. \A j : j # i => Confirmers(j)' \subseteq Confirmers(j)
  BY <1>2 DEF Confirmers, Runs
<1>6. RowsHaveRoom'
  <2> SUFFICES ASSUME NEW item \in DOMAIN items
               PROVE  items[item] + Cardinality(Confirmers(item.source)') <= Cardinality(Requests)
    BY <1>1 DEF ImportsInv, RowsHaveRoom
  <2>1. /\ items[item] \in Nat /\ items[item] + Cardinality(Confirmers(item.source)) <= Cardinality(Requests)
        /\ item.source # i
    BY <1>1 DEF ImportsInv, RowsHaveRoom
  <2> QED
    BY <2>1, <1>5, ConfirmersCount
<1> QED
  BY <1>4, <1>6 DEF ImportsInv

(* A preview is written: it is the last import, and no row is of it. *)
LEMMA WritePreviewKeepsImports ==
    ASSUME ImportsInv, DOMAIN request = Requests, NEW r \in Requests, WritePreview(r)
    PROVE  /\ ImportsInv'
           /\ Len(imports') = Len(imports) + 1 /\ Len(imports) \in Nat
           /\ \A i \in 1..Len(imports) : imports'[i] = imports[i]
           /\ imports'[Len(imports) + 1].status = "previewed"
<1> DEFINE record == [collection |-> request[r].collection, file |-> request[r].file,
                      duplicate |-> request[r].duplicate, status |-> "previewed"]
<1>1. /\ UNCHANGED <<collections, items>> /\ imports' = Append(imports, record)
      /\ request[r].op = "preview"
  BY DEF WritePreview, Runs
<1>2. request'[r] = Idle /\ \A q \in Requests \ {r} : request'[q] = request[q]
  BY OneRequestEnds DEF WritePreview
<1>3. /\ request[r] \in PreviewRequests /\ request[r].collection \in DOMAIN collections
      /\ request[r].duplicate \in {None} \cup 1..Len(imports)
  BY <1>1 DEF ImportsInv, ImportsTyped
<1>4. /\ record \in ImportRecords /\ record.status = "previewed"
      /\ record.collection = request[r].collection /\ record.duplicate = request[r].duplicate
  BY <1>3 DEF PreviewRequests, ImportRecords, Statuses
<1> HIDE DEF record
<1>5. /\ imports' \in Seq(ImportRecords) /\ Len(imports') = Len(imports) + 1 /\ Len(imports) \in Nat
      /\ \A i \in 1..Len(imports) : imports'[i] = imports[i]
      /\ imports'[Len(imports) + 1] = record
  BY <1>1, <1>4, LenProperties DEF ImportsInv, ImportsTyped
<1>6. ImportsTyped'
  <2>1. \A i \in 1..Len(imports') :
            imports'[i].collection \in DOMAIN collections' /\ imports'[i].duplicate \in {None} \cup 1..(i - 1)
    <3> SUFFICES ASSUME NEW i \in 1..Len(imports')
                 PROVE  imports'[i].collection \in DOMAIN collections
                        /\ imports'[i].duplicate \in {None} \cup 1..(i - 1)
      BY <1>1
    <3>1. CASE i \in 1..Len(imports)
      BY <3>1, <1>5 DEF ImportsInv, ImportsTyped
    <3>2. CASE i = Len(imports) + 1
      BY <3>2, <1>3, <1>4, <1>5
    <3> QED
      BY <3>1, <3>2, <1>5
  <2>2. \A n \in 1..Len(imports) : n \in 1..Len(imports')
    BY <1>5
  <2>3. \A q \in Requests :
            /\ request'[q].op = "preview" =>
                    /\ request'[q] \in PreviewRequests
                    /\ request'[q].collection \in DOMAIN collections'
                    /\ request'[q].duplicate \in {None} \cup 1..Len(imports')
            /\ Settles(q)' => request'[q].import \in 1..Len(imports')
    <3> SUFFICES ASSUME NEW q \in Requests, q # r
                 PROVE  /\ request'[q].op = "preview" =>
                                /\ request'[q] \in PreviewRequests
                                /\ request'[q].collection \in DOMAIN collections'
                                /\ request'[q].duplicate \in {None} \cup 1..Len(imports')
                        /\ Settles(q)' => request'[q].import \in 1..Len(imports')
      BY <1>2, IdleIsNothing DEF Settles
    <3>1. request'[q] = request[q]
      BY <1>2
    <3> QED
      BY <3>1, <2>2, <1>1 DEF ImportsInv, ImportsTyped, Settles
  <2> QED
    BY <2>1, <2>3, <1>1, <1>5 DEF ImportsInv, ImportsTyped
<1>7. \A i : Confirmers(i)' \subseteq Confirmers(i)
  BY <1>2, IdleIsNothing DEF Confirmers, Runs
<1>8. RowsHaveRoom'
  <2> SUFFICES ASSUME NEW item \in DOMAIN items
               PROVE  /\ item.source \in 1..Len(imports')
                      /\ imports'[item.source].status # "previewed"
                      /\ items[item] \in Nat
                      /\ items[item] + Cardinality(Confirmers(item.source)') <= Cardinality(Requests)
    BY <1>1 DEF RowsHaveRoom
  <2>1. /\ item.source \in 1..Len(imports) /\ imports[item.source].status # "previewed"
        /\ items[item] \in Nat /\ items[item] + Cardinality(Confirmers(item.source)) <= Cardinality(Requests)
    BY DEF ImportsInv, RowsHaveRoom
  <2>2. item.source \in 1..Len(imports') /\ imports'[item.source].status # "previewed"
    BY <2>1, <1>5
  <2> QED
    BY <2>1, <2>2, <1>7, ConfirmersCount
<1> QED
  BY <1>4, <1>5, <1>6, <1>8 DEF ImportsInv

(* An import is given a status: nothing else of the imports changes. *)
LEMMA StatusKeepsTypes ==
    ASSUME ImportsInv, DOMAIN request = Requests, NEW r \in Requests, End(r), UNCHANGED collections,
           NEW i \in 1..Len(imports), NEW status \in Statuses,
           imports' = [imports EXCEPT ![i].status = status]
    PROVE  /\ ImportsTyped'
           /\ Len(imports') = Len(imports)
           /\ imports'[i] = [imports[i] EXCEPT !.status = status]
           /\ imports'[i].status = status
           /\ \A j \in 1..Len(imports) \ {i} : imports'[j] = imports[j]
           /\ \A j \in 1..Len(imports) : /\ imports'[j].collection = imports[j].collection
                                         /\ imports'[j].file = imports[j].file
<1> DEFINE record == [imports[i] EXCEPT !.status = status]
<1>1. imports \in Seq(ImportRecords) /\ imports[i] \in ImportRecords
  BY ElementOfSeq DEF ImportsInv, ImportsTyped
<1>2. /\ record \in ImportRecords /\ record.status = status
      /\ record.collection = imports[i].collection /\ record.file = imports[i].file
      /\ record.duplicate = imports[i].duplicate
  BY <1>1 DEF ImportRecords
<1>3. imports' = [imports EXCEPT ![i] = record]
  OBVIOUS
<1> HIDE DEF record
<1>4. /\ imports' \in Seq(ImportRecords) /\ Len(imports') = Len(imports)
      /\ \A j \in 1..Len(imports) : imports'[j] = IF j = i THEN record ELSE imports[j]
  BY <1>1, <1>2, <1>3, ExceptSeq
<1>5. request'[r] = Idle /\ \A q \in Requests \ {r} : request'[q] = request[q]
  BY OneRequestEnds
<1>6. \A j \in 1..Len(imports) :
        /\ imports'[j].collection = imports[j].collection /\ imports'[j].file = imports[j].file
        /\ imports'[j].duplicate = imports[j].duplicate
  BY <1>2, <1>4
<1>7. ImportsTyped'
  <2>1. \A j \in 1..Len(imports') :
            imports'[j].collection \in DOMAIN collections' /\ imports'[j].duplicate \in {None} \cup 1..(j - 1)
    BY <1>4, <1>6 DEF ImportsInv, ImportsTyped
  <2> QED
    BY <2>1, <1>4, <1>5, IdleIsNothing DEF ImportsInv, ImportsTyped, Settles
<1> QED
  BY <1>2, <1>4, <1>6, <1>7 DEF record

(* What a confirm enters: each row of its import once more. *)
LEMMA RowsOfImport ==
    ASSUME NEW i
    PROVE  /\ \A item \in DOMAIN RowsOf(i) : item.source = i /\ RowsOf(i)[item] = 1
           /\ DOMAIN (items (+) RowsOf(i)) = DOMAIN items \cup DOMAIN RowsOf(i)
           /\ \A item \in DOMAIN items \ DOMAIN RowsOf(i) : (items (+) RowsOf(i))[item] = items[item] + 0
           /\ \A item \in DOMAIN RowsOf(i) \ DOMAIN items : (items (+) RowsOf(i))[item] = 0 + 1
           /\ \A item \in DOMAIN RowsOf(i) \cap DOMAIN items : (items (+) RowsOf(i))[item] = items[item] + 1
<1>1. \A item \in DOMAIN RowsOf(i) : item.source = i /\ RowsOf(i)[item] = 1
  BY DEF RowsOf, SetToBag
<1> QED
  BY <1>1 DEF (+)

(* A confirm that enters its rows is one confirmer less. *)
LEMMA WriteConfirmKeepsImports ==
    ASSUME ImportsInv, DOMAIN request = Requests, NEW r \in Requests, WriteConfirm(r)
    PROVE  ImportsInv'
<1>0. PICK i : i = request[r].import
  OBVIOUS
<1> DEFINE status == IF HasBad[imports[i].file] THEN "partially_confirmed" ELSE "confirmed"
<1>1. /\ End(r) /\ UNCHANGED collections /\ items' = items (+) RowsOf(i)
      /\ imports' = [imports EXCEPT ![i].status = status]
  BY <1>0 DEF WriteConfirm
<1>2. Runs(r, "confirm", "write") /\ i \in 1..Len(imports)
  BY <1>0 DEF WriteConfirm, Runs, ImportsInv, ImportsTyped, Settles
<1>3. status \in Statuses /\ status # "previewed"
  BY DEF Statuses
<1>4. request'[r] = Idle /\ \A q \in Requests \ {r} : request'[q] = request[q]
  BY <1>1, OneRequestEnds
<1>5. r \in Confirmers(i) /\ r \notin Confirmers(i)' /\ \A j : Confirmers(j)' \subseteq Confirmers(j)
  BY <1>0, <1>2, <1>4, IdleIsNothing DEF Confirmers, Runs
<1> HIDE DEF status
<1>6. /\ ImportsTyped' /\ Len(imports') = Len(imports) /\ imports'[i].status = status
      /\ \A j \in 1..Len(imports) \ {i} : imports'[j] = imports[j]
  BY <1>1, <1>2, <1>3, StatusKeepsTypes
<1>7. Cardinality(Confirmers(i)') + 1 <= Cardinality(Confirmers(i))
  <2>1. /\ IsFiniteSet(Confirmers(i)') /\ Cardinality(Confirmers(i)') \in Nat
        /\ IsFiniteSet(Confirmers(i))
    BY <1>5, ConfirmersCount
  <2>2. Cardinality(Confirmers(i)' \cup {r}) = Cardinality(Confirmers(i)') + 1
    BY <2>1, <1>5, OneMore
  <2>3. Confirmers(i)' \cup {r} \subseteq Confirmers(i)
    BY <1>5
  <2> QED
    BY <2>1, <2>2, <2>3, Smaller
<1>8. RowsHaveRoom'
  <2> SUFFICES ASSUME NEW item \in DOMAIN items'
               PROVE  /\ item.source \in 1..Len(imports)
                      /\ imports'[item.source].status # "previewed"
                      /\ items'[item] \in Nat
                      /\ items'[item] + Cardinality(Confirmers(item.source)') <= Cardinality(Requests)
    BY <1>6 DEF RowsHaveRoom
  <2>1. ASSUME item \in DOMAIN items
        PROVE  /\ item.source \in 1..Len(imports) /\ imports[item.source].status # "previewed"
               /\ items[item] \in Nat
               /\ items[item] + Cardinality(Confirmers(item.source)) <= Cardinality(Requests)
    BY <2>1 DEF ImportsInv, RowsHaveRoom
  <2>2. CASE item \notin DOMAIN RowsOf(i)
    <3>1. item \in DOMAIN items /\ items'[item] = items[item] + 0
      BY <2>2, <1>1, RowsOfImport
    <3>2. items'[item] = items[item]
      BY <3>1, <2>1
    <3>3. imports'[item.source].status # "previewed"
      BY <3>1, <2>1, <1>3, <1>6
    <3>4. Cardinality(Confirmers(item.source)') <= Cardinality(Confirmers(item.source))
          /\ Cardinality(Confirmers(item.source)') \in Nat /\ Cardinality(Confirmers(item.source)) \in Nat
      BY <1>5, ConfirmersCount
    <3> QED
      BY <3>1, <3>2, <3>3, <3>4, <2>1, ConfirmersCount
  <2>3. CASE item \in DOMAIN RowsOf(i)
    <3>1. item.source = i /\ imports'[item.source].status # "previewed"
      BY <2>3, <1>3, <1>6, RowsOfImport
    <3>2. CASE item \in DOMAIN items
      <4>1. items'[item] = items[item] + 1
        BY <2>3, <3>2, <1>1, RowsOfImport
      <4> QED
        BY <4>1, <3>1, <3>2, <2>1, <1>5, <1>7, ConfirmersCount
    <3>3. CASE item \notin DOMAIN items
      <4>1. items'[item] = 1
        <5>1. item \in DOMAIN RowsOf(i) \ DOMAIN items
          BY <2>3, <3>3
        <5>2. (items (+) RowsOf(i))[item] = 0 + 1
          BY <5>1, RowsOfImport
        <5> QED
          BY <5>2, <1>1
      <4> QED
        BY <4>1, <3>1, <1>2, <1>5, <1>7, ConfirmersCount
    <3> QED
      BY <3>2, <3>3
  <2> QED
    BY <2>2, <2>3
<1> QED
  BY <1>6, <1>8 DEF ImportsInv

(* An abort changes the status alone. *)
LEMMA WriteAbortKeepsImports ==
    ASSUME ImportsInv, DOMAIN request = Requests, NEW r \in Requests, WriteAbort(r)
    PROVE  ImportsInv'
<1> DEFINE i == request[r].import
<1>1. /\ End(r) /\ UNCHANGED <<collections, items>>
      /\ imports' = [imports EXCEPT ![i].status = "aborted"]
  BY DEF WriteAbort
<1>2. i \in 1..Len(imports) /\ "aborted" \in Statuses
  BY DEF WriteAbort, Runs, ImportsInv, ImportsTyped, Settles, Statuses
<1>3. request'[r] = Idle /\ \A q \in Requests \ {r} : request'[q] = request[q]
  BY <1>1, OneRequestEnds
<1>4. \A j : Confirmers(j)' \subseteq Confirmers(j)
  BY <1>3, IdleIsNothing DEF Confirmers, Runs
<1> HIDE DEF i
<1>5. /\ ImportsTyped' /\ Len(imports') = Len(imports) /\ imports'[i].status = "aborted"
      /\ \A j \in 1..Len(imports) \ {i} : imports'[j] = imports[j]
  BY <1>1, <1>2, StatusKeepsTypes
<1>6. RowsHaveRoom'
  <2> SUFFICES ASSUME NEW item \in DOMAIN items
               PROVE  /\ item.source \in 1..Len(imports)
                      /\ imports'[item.source].status # "previewed"
                      /\ items[item] \in Nat
                      /\ items[item] + Cardinality(Confirmers(item.source)') <= Cardinality(Requests)
    BY <1>1, <1>5 DEF RowsHaveRoom
  <2>1. /\ item.source \in 1..Len(imports) /\ imports[item.source].status # "previewed"
        /\ items[item] \in Nat /\ items[item] + Cardinality(Confirmers(item.source)) <= Cardinality(Requests)
    BY DEF ImportsInv, RowsHaveRoom
  <2> QED
    BY <2>1, <1>4, <1>5, ConfirmersCount
<1> QED
  BY <1>5, <1>6 DEF ImportsInv

-----------------------------------------------------------------------------
(* The invariant holds *)

Inv == IInv /\ NamesUnique /\ ImportsInv

LEMMA ImportsInit == Init => ImportsInv /\ NamesUnique
<1> SUFFICES ASSUME Init PROVE ImportsInv /\ NamesUnique
  OBVIOUS
<1>1. /\ imports = <<>> /\ DOMAIN items = {} /\ DOMAIN collections = {} /\ DOMAIN profiles = {}
      /\ \A r \in Requests : request[r].op = "idle"
  BY IdleIsNothing DEF Init, CollectionsInit, ProfilesInit, EmptyBag, SetToBag
<1>2. ImportsTyped
  BY <1>1, EmptySeq DEF ImportsTyped, Settles
<1> QED
  BY <1>1, <1>2 DEF ImportsInv, RowsHaveRoom, NamesUnique

(* Steps about collections and imports. *)
LEMMA ImportsStep ==
    ASSUME IInv, ImportsInv, CollectionsNext
    PROVE  ImportsInv'
<1> PICK r \in Requests : CollectionRequest(r)
  BY DEF CollectionsNext
<1>1. DOMAIN request = Requests
  BY DEF IInv
<1>2. \A q \in Requests \ {r} : request'[q] = request[q]
  BY <1>1, RequestsApart
<1>3. ASSUME UNCHANGED <<imports, items>>, request'[r].op \notin {"preview", "confirm", "abort"},
             DOMAIN collections \subseteq DOMAIN collections', DOMAIN collections' \subseteq CollectionNames
      PROVE  ImportsInv'
  BY <1>2, <1>3, ImportsUntouched
<1>4. DOMAIN collections \subseteq CollectionNames
  BY DEF ImportsInv, ImportsTyped
<1>5. CASE GetDefaultCollection(r) \/ \E name \in CollectionNames : CreateCollection(r, name)
  <2>1. request'[r].op = "collection"
    <3>1. CASE GetDefaultCollection(r)
      BY <1>1, <3>1, OneRequestMoves DEF GetDefaultCollection
    <3>2. ASSUME NEW name \in CollectionNames, CreateCollection(r, name)
          PROVE  request'[r].op = "collection"
      BY <1>1, <3>2, OneRequestMoves DEF CreateCollection
    <3> QED
      BY <1>5, <3>1, <3>2
  <2> QED
    BY <2>1, <1>3, <1>4, <1>5 DEF GetDefaultCollection, CreateCollection, collectionVars
<1>6. CASE LookForExisting(r)
  <2> DEFINE what == [request[r] EXCEPT !.phase = "write", !.default = DOMAIN collections = {}]
  <2>1. what.op = "collection"
    BY <1>6 DEF LookForExisting, Runs
  <2>2. request'[r] = what
    BY <1>1, <1>6, OneRequestMoves DEF LookForExisting
  <2> HIDE DEF what
  <2> QED
    BY <2>1, <2>2, <1>3, <1>4, <1>6 DEF LookForExisting, collectionVars
<1>7. CASE WriteCollection(r)
  <2>1. request[r].name \in CollectionNames
    BY <1>7 DEF WriteCollection, Runs, IInv, CollectionsInv, CollectionsTyped, CollectionRequests
  <2>2. request'[r].op \notin {"preview", "confirm", "abort"}
    BY <1>1, <1>7, OneRequestEnds, IdleIsNothing DEF WriteCollection
  <2>3. DOMAIN collections' = DOMAIN collections \cup {request[r].name}
    BY <1>7 DEF WriteCollection
  <2> QED
    BY <2>1, <2>2, <2>3, <1>3, <1>4, <1>7 DEF WriteCollection
<1>8. CASE RejectCollection(r)
  BY <1>1, <1>3, <1>4, <1>8, OneRequestEnds, IdleIsNothing DEF RejectCollection, collectionVars
<1>9. CASE \E collection \in DOMAIN collections, file \in Files : Preview(r, collection, file)
  BY <1>1, <1>9, PreviewKeepsImports
<1>10. CASE \/ \E i \in DOMAIN imports, skipBadRows \in BOOLEAN : ConfirmImport(r, i, skipBadRows)
            \/ \E i \in DOMAIN imports : AbortImport(r, i)
  BY <1>1, <1>10, SettleKeepsImports
<1>11. CASE WritePreview(r) \/ WriteConfirm(r) \/ WriteAbort(r)
  BY <1>1, <1>11, WritePreviewKeepsImports, WriteConfirmKeepsImports, WriteAbortKeepsImports
<1> QED
  BY <1>5, <1>6, <1>7, <1>8, <1>9, <1>10, <1>11 DEF CollectionRequest

(* Steps about anything else. *)
LEMMA OthersKeepImports ==
    ASSUME IInv, ImportsInv, (ProfilesNext /\ UNCHANGED <<collectionVars, deckVars>>) \/ DecksStep \/ UNCHANGED vars
    PROVE  ImportsInv'
<1>1. UNCHANGED <<collections, imports, items>>
  BY DEF DecksStep, collectionVars, vars
<1>2. \A r \in Requests : \/ request'[r] = request[r]
                          \/ request'[r].op \notin {"preview", "confirm", "abort"}
  <2>1. CASE UNCHANGED request
    BY <2>1
  <2>2. ASSUME NEW r \in Requests, ProfileRequest(r)
        PROVE  \A q \in Requests : \/ request'[q] = request[q]
                                   \/ request'[q].op \notin {"preview", "confirm", "abort"}
    <3>1. \A q \in Requests \ {r} : request'[q] = request[q]
      BY <2>2, RequestsApart DEF IInv
    <3>2. request'[r].op \in {"profile", "idle"}
      <4>1. CASE ClearExistingDefault(r)
        <5> DEFINE what == [request[r] EXCEPT !.phase = "write", !.cleared = Defaults \ {request[r].id}]
        <5>1. what.op = "profile"
          BY <4>1 DEF ClearExistingDefault, Runs
        <5>2. request'[r] = what
          BY <4>1, OneRequestMoves DEF ClearExistingDefault, IInv
        <5> HIDE DEF what
        <5> QED
          BY <5>1, <5>2
      <4>2. CASE WriteProfile(r) \/ RejectProfile(r)
        BY <4>2, OneRequestEnds, IdleIsNothing DEF WriteProfile, RejectProfile, IInv
      <4>3. CASE GetDefaultProfile(r)
        BY <4>3, OneRequestMoves DEF GetDefaultProfile, IInv
      <4>4. CASE \E id \in DOMAIN profiles, name \in ProfileNames, default \in BOOLEAN :
                      UpdateProfile(r, id, name, default)
        BY <4>4, OneRequestMoves DEF UpdateProfile, IInv
      <4> QED
        BY <2>2, <4>1, <4>2, <4>3, <4>4 DEF ProfileRequest
    <3> QED
      BY <3>1, <3>2
  <2>3. ASSUME NEW r \in Requests, AskPrice(r) \/ WritePrice(r) \/ PriceFails(r)
        PROVE  \A q \in Requests : \/ request'[q] = request[q]
                                   \/ request'[q].op \notin {"preview", "confirm", "abort"}
    <3>1. \A q \in Requests \ {r} : request'[q] = request[q]
      BY <2>3, RequestsApart DEF IInv
    <3>2. request'[r].op \in {"price", "idle"}
      <4>1. CASE AskPrice(r)
        BY <4>1, OneRequestMoves DEF AskPrice, PriceDeck, IInv
      <4>2. CASE WritePrice(r) \/ PriceFails(r)
        BY <4>2, OneRequestEnds, IdleIsNothing DEF WritePrice, PriceFails, IInv
      <4> QED
        BY <2>3, <4>1, <4>2
    <3> QED
      BY <3>1, <3>2
  <2>4. CASE ProfilesNext
    BY <2>1, <2>2, <2>4 DEF ProfilesNext, CreateProfile, DeleteProfile
  <2>5. CASE DecksStep
    BY <2>1, <2>3, <2>5
       DEF DecksStep, DecksNext, ListDecks, LookUp, LookUpFindsNothing, FlushNames, EndLookUps, LookUpRaises,
           ReplaceRows, SyncBreaks
  <2>6. CASE UNCHANGED vars
    BY <2>1, <2>6 DEF vars
  <2> QED
    BY <2>4, <2>5, <2>6
<1> QED
  BY <1>1, <1>2, ImportsUntouched DEF ImportsInv, ImportsTyped

LEMMA AllInv == Spec => []Inv
<1>1. Init => Inv
  BY InitInv, ImportsInit DEF Inv
<1>2. Inv /\ [Next]_vars => Inv'
  <2> SUFFICES ASSUME Inv, [Next]_vars PROVE Inv'
    OBVIOUS
  <2>1. IInv' /\ NamesUnique'
    BY StepInv, NamesStayUnique DEF Inv
  <2>2. ImportsInv'
    BY ImportsStep, OthersKeepImports DEF Inv, Next, RecordsStep
  <2> QED
    BY <2>1, <2>2 DEF Inv
<1> QED
  BY <1>1, <1>2, PTL DEF Spec

-----------------------------------------------------------------------------
(* Theorems *)

(* Profiles, collections and imports are well formed, for any number of    *)
(* requests: names of profiles stay unique whichever requests overlap, and *)
(* an import only ever refers to a collection there is and to an earlier   *)
(* import.                                                                 *)
THEOREM TypeCorrect == Spec => []TypeOK
<1>1. Inv => TypeOK
  <2> SUFFICES ASSUME Inv PROVE TypeOK
    OBVIOUS
  <2>1. \A id \in DOMAIN profiles : Named(profiles[id].name) = {id}
    BY DEF Inv, NamesUnique, Named
  <2>2. /\ DOMAIN profiles \subseteq 1..(nextProfile - 1)
        /\ \A id \in DOMAIN profiles : profiles[id] \in [name : ProfileNames, default : BOOLEAN]
    BY DEF Inv, IInv, ProfilesInv, ProfilesTyped
  <2>3. \A name \in DOMAIN collections : collections[name] \in BOOLEAN
    BY DEF Inv, IInv, CollectionsInv, CollectionsTyped
  <2>4. \A i \in DOMAIN imports :
            /\ imports[i].status \in Statuses /\ imports[i].file \in Files
            /\ imports[i].collection \in DOMAIN collections
            /\ imports[i].duplicate \in {None} \cup 1..(i - 1)
    <3>1. \A i \in 1..Len(imports) : imports[i] \in ImportRecords
      BY ElementOfSeq DEF Inv, ImportsInv, ImportsTyped
    <3>2. DOMAIN imports = 1..Len(imports)
      BY LenProperties DEF Inv, ImportsInv, ImportsTyped
    <3> QED
      BY <3>1, <3>2 DEF Inv, ImportsInv, ImportsTyped, ImportRecords
  <2> QED
    BY <2>1, <2>2, <2>3, <2>4 DEF TypeOK, Inv, ImportsInv, ImportsTyped
<1> QED
  BY <1>1, AllInv, PTL

\* What a bag holds of an import
OfImport(bag, i) == [item \in {it \in DOMAIN bag : it.source = i} |-> bag[item]]

(* Nothing is held of an import no row is of; and rows that are added to   *)
(* none of theirs are all that is held of it.                              *)
LEMMA NothingEntered ==
    ASSUME NEW bag, NEW i, \A item \in DOMAIN bag : item.source # i
    PROVE  OfImport(bag, i) = EmptyBag
<1>1. {it \in DOMAIN bag : it.source = i} = {}
  OBVIOUS
<1> QED
  BY <1>1 DEF OfImport, EmptyBag, SetToBag

LEMMA OnlyTheseEntered ==
    ASSUME NEW i, \A item \in DOMAIN items : item.source # i
    PROVE  OfImport(items (+) RowsOf(i), i) = RowsOf(i)
<1>1. {it \in DOMAIN (items (+) RowsOf(i)) : it.source = i} = DOMAIN RowsOf(i)
  BY RowsOfImport
<1>2. \A item \in DOMAIN RowsOf(i) : (items (+) RowsOf(i))[item] = RowsOf(i)[item]
  <2> SUFFICES ASSUME NEW item \in DOMAIN RowsOf(i)
               PROVE  (items (+) RowsOf(i))[item] = RowsOf(i)[item]
    OBVIOUS
  <2>1. item \in DOMAIN RowsOf(i) \ DOMAIN items
    BY RowsOfImport
  <2>2. (items (+) RowsOf(i))[item] = 0 + 1 /\ RowsOf(i)[item] = 1
    BY <2>1, RowsOfImport
  <2> QED
    BY <2>2
<1>3. RowsOf(i) = [item \in DOMAIN RowsOf(i) |-> RowsOf(i)[item]]
  BY DEF RowsOf, SetToBag
<1> QED
  BY <1>1, <1>2, <1>3 DEF OfImport

(* Only confirms and aborts change an import that was there, or items. *)
LEMMA OnlySettlingChanges ==
    ASSUME Inv, [Next]_vars, \A r \in Requests : ~WriteConfirm(r) /\ ~WriteAbort(r)
    PROVE  /\ items' = items
           /\ imports' = imports \/ \E r \in Requests : WritePreview(r)
<1>1. CASE \E r \in Requests : CollectionRequest(r)
  BY <1>1
     DEF CollectionRequest, GetDefaultCollection, CreateCollection, LookForExisting, WriteCollection,
         RejectCollection, Preview, WritePreview, ConfirmImport, AbortImport, collectionVars
<1>2. CASE UNCHANGED <<imports, items>>
  BY <1>2
<1> QED
  BY <1>1, <1>2 DEF Next, RecordsStep, DecksStep, CollectionsNext, vars, collectionVars

(* An import that nobody is settling stays as it is. *)
LEMMA SettledStays ==
    ASSUME Inv, [Next]_vars, \A r \in Requests : ~WriteConfirm(r) /\ ~WriteAbort(r),
           NEW i \in DOMAIN imports
    PROVE  imports'[i] = imports[i] /\ items' = items
<1>1. DOMAIN request = Requests /\ ImportsInv /\ DOMAIN imports = 1..Len(imports)
  BY LenProperties DEF Inv, IInv, ImportsInv, ImportsTyped
<1> QED
  BY <1>1, OnlySettlingChanges, WritePreviewKeepsImports

(* After a step that settles an import nobody had settled, or makes a new  *)
(* one, its rows and its status agree.                                     *)
LEMMA FirstSettleAgrees ==
    ASSUME Inv, [Next]_vars, NEW i \in DOMAIN imports',
           i \notin DOMAIN imports \/ imports[i].status = "previewed"
    PROVE  Agrees(i)'
<1>1. /\ DOMAIN request = Requests /\ ImportsInv /\ ImportsInv' /\ DOMAIN imports = 1..Len(imports)
      /\ DOMAIN imports' = 1..Len(imports')
  <2>1. ImportsInv'
    BY ImportsStep, OthersKeepImports DEF Inv, Next, RecordsStep
  <2> QED
    BY <2>1, LenProperties DEF Inv, IInv, ImportsInv, ImportsTyped
<1>2. \A item \in DOMAIN items : item.source # i
  BY <1>1 DEF ImportsInv, RowsHaveRoom
<1>3. CASE imports'[i].status = "previewed"
  <2>1. \A item \in DOMAIN items' : item.source # i
    BY <1>1, <1>3 DEF ImportsInv, RowsHaveRoom
  <2>2. OfImport(items', i) = EmptyBag
    BY <2>1, NothingEntered
  <2> QED
    BY <2>2, <1>3 DEF Agrees, OfImport, Confirmed
<1>4. ASSUME NEW r \in Requests, WriteConfirm(r) PROVE Agrees(i)'
  <2>1. PICK j : j = request[r].import
    OBVIOUS
  <2> DEFINE status == IF HasBad[imports[j].file] THEN "partially_confirmed" ELSE "confirmed"
  <2>2. /\ End(r) /\ UNCHANGED collections /\ items' = items (+) RowsOf(j)
        /\ imports' = [imports EXCEPT ![j].status = status] /\ status \in Statuses
    BY <1>4, <2>1 DEF WriteConfirm, Statuses
  <2>3. j \in 1..Len(imports)
    BY <1>1, <1>4, <2>1 DEF WriteConfirm, Runs, ImportsInv, ImportsTyped, Settles
  <2> HIDE DEF status
  <2>4. /\ Len(imports') = Len(imports) /\ imports'[j].status = status
        /\ \A k \in 1..Len(imports) \ {j} : imports'[k] = imports[k]
        /\ imports'[j].collection = imports[j].collection /\ imports'[j].file = imports[j].file
    BY <1>1, <2>2, <2>3, StatusKeepsTypes
  <2>5. CASE i # j
    BY <2>4, <2>5, <1>1, <1>3
  <2>6. CASE i = j
    <3>1. OfImport(items', i) = RowsOf(i)
      BY <2>2, <2>6, <1>2, OnlyTheseEntered
    <3>2. RowsOf(i)' = RowsOf(i)
      BY <2>4, <2>6 DEF RowsOf
    <3>3. imports'[i].status \in Confirmed /\ (imports'[i].status = "confirmed" => ~HasBad[imports'[i].file])
      BY <2>4, <2>6 DEF status, Confirmed
    <3> QED
      BY <3>1, <3>2, <3>3 DEF Agrees, OfImport
  <2> QED
    BY <2>5, <2>6
<1>5. ASSUME NEW r \in Requests, WriteAbort(r) PROVE Agrees(i)'
  <2>1. PICK j : j = request[r].import
    OBVIOUS
  <2>2. /\ End(r) /\ UNCHANGED <<collections, items>> /\ imports' = [imports EXCEPT ![j].status = "aborted"]
        /\ "aborted" \in Statuses
    BY <1>5, <2>1 DEF WriteAbort, Statuses
  <2>3. j \in 1..Len(imports)
    BY <1>1, <1>5, <2>1 DEF WriteAbort, Runs, ImportsInv, ImportsTyped, Settles
  <2>4. /\ Len(imports') = Len(imports) /\ imports'[j].status = "aborted"
        /\ \A k \in 1..Len(imports) \ {j} : imports'[k] = imports[k]
    BY <1>1, <2>2, <2>3, StatusKeepsTypes
  <2>5. CASE i # j
    BY <2>4, <2>5, <1>1, <1>3
  <2>6. CASE i = j
    <3>1. OfImport(items', i) = EmptyBag
      BY <2>2, <1>2, NothingEntered
    <3> QED
      BY <3>1, <2>4, <2>6 DEF Agrees, OfImport, Confirmed
  <2> QED
    BY <2>5, <2>6
<1>6. CASE \A r \in Requests : ~WriteConfirm(r) /\ ~WriteAbort(r)
  <2>1. CASE imports' = imports
    BY <2>1, <1>3
  <2>2. ASSUME NEW r \in Requests, WritePreview(r) PROVE imports'[i].status = "previewed"
    <3>1. /\ Len(imports') = Len(imports) + 1 /\ Len(imports) \in Nat
          /\ \A j \in 1..Len(imports) : imports'[j] = imports[j]
          /\ imports'[Len(imports) + 1].status = "previewed"
      BY <2>2, <1>1, WritePreviewKeepsImports
    <3>2. i \in 1..Len(imports) \/ i = Len(imports) + 1
      BY <3>1, <1>1
    <3> QED
      BY <3>1, <3>2, <1>1
  <2> QED
    BY <2>1, <2>2, <1>3, <1>6, OnlySettlingChanges
<1> QED
  BY <1>4, <1>5, <1>6

(* For any number of requests, files and rows: rows enter no more often    *)
(* than requests can overlap, and rows and status of an import part only   *)
(* when a request settles one that another has settled since.              *)
THEOREM ImportsEnterOnce == Spec => ImportEntersOnce
<1>1. Inv => \A item \in DOMAIN items : items[item] <= Cardinality(Requests)
  <2> SUFFICES ASSUME Inv, NEW item \in DOMAIN items
               PROVE  items[item] <= Cardinality(Requests)
    OBVIOUS
  <2>1. items[item] \in Nat /\ items[item] + Cardinality(Confirmers(item.source)) <= Cardinality(Requests)
    BY DEF Inv, ImportsInv, RowsHaveRoom
  <2> QED
    BY <2>1, ConfirmersCount
<1>2. Inv /\ [Next]_vars =>
        [\A i \in DOMAIN imports' :
            /\ ~Agrees(i)' => i \in DOMAIN imports /\ (imports[i].status = "previewed" => ~Agrees(i))
            /\ i \in DOMAIN imports /\ imports[i].status # "previewed"
               /\ (\A r \in Requests : request[r] # Idle => request[r].op \notin {"confirm", "abort"})
                    => imports'[i] = imports[i] /\ items' = items]_vars
  <2> SUFFICES ASSUME Inv, [Next]_vars, NEW i \in DOMAIN imports'
               PROVE  /\ ~Agrees(i)' => i \in DOMAIN imports /\ (imports[i].status = "previewed" => ~Agrees(i))
                      /\ i \in DOMAIN imports /\ imports[i].status # "previewed"
                         /\ (\A r \in Requests : request[r] # Idle => request[r].op \notin {"confirm", "abort"})
                              => imports'[i] = imports[i] /\ items' = items
    OBVIOUS
  <2>1. ASSUME \A r \in Requests : request[r] # Idle => request[r].op \notin {"confirm", "abort"}
        PROVE  \A r \in Requests : ~WriteConfirm(r) /\ ~WriteAbort(r)
    BY <2>1 DEF WriteConfirm, WriteAbort, Runs
  <2> QED
    BY <2>1, SettledStays, FirstSettleAgrees
<1> QED
  BY <1>1, <1>2, AllInv, PTL DEF Spec, ImportEntersOnce

=============================================================================
