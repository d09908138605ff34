---------------------------- MODULE Rooms_proofs ----------------------------
(***************************************************************************)
(* Rooms keeps its promises for any finite set of sessions, any codes and  *)
(* names and any room size.  NamesDistinct and TypeOK are inductive;       *)
(* Capacity needs OwnerIsMember, because Create may seat a session only    *)
(* in a room that has nobody in it.                                        *)
(***************************************************************************)
EXTENDS Rooms, FiniteSetTheorems, TLAPS

USE SessionsAssumption, CodesAssumption, NamesAssumption, LowerCaseAssumption,
    RoomMaxAssumption, TakeoverAssumption

\* The members of a room are finitely many, so that they can be counted.
LEMMA MembersFinite ==
  ASSUME NEW c PROVE Members(c) \subseteq Sessions /\ IsFiniteSet(Members(c))
  BY FS_Subset DEF Members

-----------------------------------------------------------------------------

\* Every variable keeps its type; a session has a name exactly while it is in
\* a room (createRoom and joinRoom write both, leaveRoom deletes both).
THEOREM TypeCorrect == Spec => []TypeOK
<1>1. Init => TypeOK
  BY DEF Init, TypeOK
<1>2. TypeOK /\ [Next]_vars => TypeOK'
  <2> SUFFICES ASSUME TypeOK, [Next]_vars PROVE TypeOK'
    OBVIOUS
  <2>1. ASSUME NEW s \in Sessions, NEW c \in Codes, NEW n \in Names, NEW b \in BOOLEAN,
               Create(s, c, n, b)
        PROVE  TypeOK'
    BY <2>1 DEF TypeOK, Create, Enter
  <2>2. ASSUME NEW s \in Sessions, NEW c \in Codes, NEW n \in Names, Join(s, c, n)
        PROVE  TypeOK'
    BY <2>2 DEF TypeOK, Join, Enter
  <2>3. ASSUME NEW s \in Sessions, Leave(s) PROVE TypeOK'
    BY <2>3 DEF TypeOK, Leave, Members
  <2>4. ASSUME NEW s \in Sessions, NEW n \in Names, Rename(s, n) PROVE TypeOK'
    BY <2>4 DEF TypeOK, Rename
  <2>5. ASSUME NEW s \in Sessions, TakeOwner(s) PROVE TypeOK'
    BY <2>5 DEF TypeOK, TakeOwner
  <2>6. ASSUME NEW s \in Sessions, NEW b \in BOOLEAN, SetTakeover(s, b) PROVE TypeOK'
    BY <2>6 DEF TypeOK, SetTakeover
  <2>7. CASE UNCHANGED vars
    BY <2>7 DEF TypeOK, vars
  <2> QED
    BY <2>1, <2>2, <2>3, <2>4, <2>5, <2>6, <2>7 DEF Next
<1> QED
  BY <1>1, <1>2, PTL DEF Spec

-----------------------------------------------------------------------------

\* A room has an owner exactly while it has members: founding a room makes its
\* founder the owner, an owner who leaves hands it to a member, and the last
\* departure takes the ownership away.
THEOREM OwnerAlwaysMember == Spec => []OwnerIsMember
<1>1. Init => OwnerIsMember
  BY DEF Init, OwnerIsMember, Members
<1>2. TypeOK /\ OwnerIsMember /\ [Next]_vars => OwnerIsMember'
  <2> SUFFICES ASSUME TypeOK, OwnerIsMember, [Next]_vars PROVE OwnerIsMember'
    OBVIOUS
  <2>1. ASSUME NEW s \in Sessions, NEW c \in Codes, NEW n \in Names, NEW b \in BOOLEAN,
               Create(s, c, n, b)
        PROVE  OwnerIsMember'
    BY <2>1 DEF TypeOK, OwnerIsMember, Members, Create, Enter
  <2>2. ASSUME NEW s \in Sessions, NEW c \in Codes, NEW n \in Names, Join(s, c, n)
        PROVE  OwnerIsMember'
    BY <2>2 DEF TypeOK, OwnerIsMember, Members, Join, Enter
  <2>3. ASSUME NEW s \in Sessions, Leave(s) PROVE OwnerIsMember'
    <3>1. room[s] \in Codes /\ room' = [room EXCEPT ![s] = Nil]
      BY <2>3 DEF TypeOK, Leave
    <3>2. CASE Members(room[s]) \ {s} = {} /\ owner' = [owner EXCEPT ![room[s]] = Nil]
      BY <3>1, <3>2 DEF TypeOK, OwnerIsMember, Members
    <3>3. CASE Members(room[s]) \ {s} # {} /\ owner[room[s]] # s /\ owner' = owner
      BY <3>1, <3>3 DEF TypeOK, OwnerIsMember, Members
    <3>4. ASSUME NEW o \in Members(room[s]) \ {s}, owner' = [owner EXCEPT ![room[s]] = o]
          PROVE  OwnerIsMember'
      BY <3>1, <3>4 DEF TypeOK, OwnerIsMember, Members
    <3> QED
      BY <2>3, <3>2, <3>3, <3>4 DEF Leave, Oldest
  <2>4. ASSUME NEW s \in Sessions, NEW n \in Names, Rename(s, n) PROVE OwnerIsMember'
    BY <2>4 DEF OwnerIsMember, Members, Rename
  <2>5. ASSUME NEW s \in Sessions, TakeOwner(s) PROVE OwnerIsMember'
    BY <2>5 DEF TypeOK, OwnerIsMember, Members, TakeOwner
  <2>6. ASSUME NEW s \in Sessions, NEW b \in BOOLEAN, SetTakeover(s, b) PROVE OwnerIsMember'
    BY <2>6 DEF OwnerIsMember, Members, SetTakeover
  <2>7. CASE UNCHANGED vars
    BY <2>7 DEF OwnerIsMember, Members, vars
  <2> QED
    BY <2>1, <2>2, <2>3, <2>4, <2>5, <2>6, <2>7 DEF Next
<1> QED
  BY <1>1, <1>2, TypeCorrect, PTL DEF Spec

-----------------------------------------------------------------------------

\* Members of one room always have names that differ in more than case:
\* joining and renaming both look at the names in use.
THEOREM NamesAlwaysDistinct == Spec => []NamesDistinct
<1>1. Init => NamesDistinct
  BY DEF Init, NamesDistinct
<1>2. TypeOK /\ OwnerIsMember /\ NamesDistinct /\ [Next]_vars => NamesDistinct'
  <2> SUFFICES ASSUME TypeOK, OwnerIsMember, NamesDistinct, [Next]_vars PROVE NamesDistinct'
    OBVIOUS
  <2>1. ASSUME NEW s \in Sessions, NEW c \in Codes, NEW n \in Names, NEW b \in BOOLEAN,
               Create(s, c, n, b)
        PROVE  NamesDistinct'
    <3>1. /\ room' = [room EXCEPT ![s] = c]
          /\ name' = [name EXCEPT ![s] = n]
      BY <2>1 DEF Create, Enter
    <3>2. \A t \in Sessions : room[t] # c
      BY <2>1 DEF OwnerIsMember, Members, Create
    <3> QED
      BY <3>1, <3>2 DEF TypeOK, NamesDistinct
  <2>2. ASSUME NEW s \in Sessions, NEW c \in Codes, NEW n \in Names, Join(s, c, n)
        PROVE  NamesDistinct'
    BY <2>2 DEF TypeOK, NamesDistinct, Members, Taken, Join, Enter
  <2>3. ASSUME NEW s \in Sessions, Leave(s) PROVE NamesDistinct'
    <3>1. /\ room' = [room EXCEPT ![s] = Nil]
          /\ name' = [name EXCEPT ![s] = Nil]
      BY <2>3 DEF Leave
    <3> QED
      BY <3>1 DEF TypeOK, NamesDistinct
  <2>4. ASSUME NEW s \in Sessions, NEW n \in Names, Rename(s, n) PROVE NamesDistinct'
    BY <2>4 DEF TypeOK, NamesDistinct, Members, Rename
  <2>5. ASSUME NEW s \in Sessions, TakeOwner(s) PROVE NamesDistinct'
    BY <2>5 DEF NamesDistinct, TakeOwner
  <2>6. ASSUME NEW s \in Sessions, NEW b \in BOOLEAN, SetTakeover(s, b) PROVE NamesDistinct'
    BY <2>6 DEF NamesDistinct, SetTakeover
  <2>7. CASE UNCHANGED vars
    BY <2>7 DEF NamesDistinct, vars
  <2> QED
    BY <2>1, <2>2, <2>3, <2>4, <2>5, <2>6, <2>7 DEF Next
<1> QED
  BY <1>1, <1>2, TypeCorrect, OwnerAlwaysMember, PTL DEF Spec

-----------------------------------------------------------------------------

\* No room is ever overfull: a session is seated in an empty room or in one
\* with a free place, and every other step seats nobody.
THEOREM CapacityKept == Spec => []Capacity
<1>1. Init => Capacity
  <2> SUFFICES ASSUME Init, NEW c \in Codes PROVE Cardinality(Members(c)) <= RoomMax
    BY DEF Capacity
  <2>1. Members(c) = {}
    BY DEF Init, Members
  <2> QED
    BY <2>1, FS_EmptySet
<1>2. TypeOK /\ OwnerIsMember /\ Capacity /\ [Next]_vars => Capacity'
  <2> SUFFICES ASSUME TypeOK, OwnerIsMember, Capacity, [Next]_vars, NEW d \in Codes
               PROVE  Cardinality(Members(d)') <= RoomMax
    BY DEF Capacity
  <2>0. IsFiniteSet(Members(d)) /\ Cardinality(Members(d)) <= RoomMax
                                /\ Cardinality(Members(d)) \in Nat
    BY MembersFinite, FS_CardinalityType DEF Capacity
  <2>1. ASSUME Members(d)' \subseteq Members(d) PROVE Cardinality(Members(d)') <= RoomMax
    BY <2>0, <2>1, FS_Subset, FS_CardinalityType
  <2>2. ASSUME NEW s \in Sessions, NEW c \in Codes, NEW n \in Names, NEW b \in BOOLEAN,
               Create(s, c, n, b)
        PROVE  Cardinality(Members(d)') <= RoomMax
    <3>1. CASE c = d
      <4>1. Members(d) = {} /\ room' = [room EXCEPT ![s] = d]
        BY <2>2, <3>1 DEF OwnerIsMember, Create, Enter
      <4>2. Members(d)' = {s}
        BY <4>1 DEF TypeOK, Members
      <4> QED
        <5>1. Cardinality({s}) = 1
          BY FS_Singleton
        <5> QED
          BY <4>2, <5>1
    <3>2. CASE c # d
      BY <2>1, <2>2, <3>2 DEF TypeOK, Members, Create, Enter
    <3> QED
      BY <3>1, <3>2
  <2>3. ASSUME NEW s \in Sessions, NEW c \in Codes, NEW n \in Names, Join(s, c, n)
        PROVE  Cardinality(Members(d)') <= RoomMax
    <3>1. CASE c = d
      <4>1. room[s] = Nil /\ room' = [room EXCEPT ![s] = d]
        BY <2>3, <3>1 DEF Join, Enter
      <4>3. Members(d)' = Members(d) \cup {s} /\ s \notin Members(d)
        BY <4>1 DEF TypeOK, Members
      <4>2. Cardinality(Members(d)) < RoomMax
        BY <2>3, <3>1 DEF Join
      <4> QED
        <5>1. Cardinality(Members(d) \cup {s}) = Cardinality(Members(d)) + 1
          BY <2>0, <4>3, FS_AddElement
        <5> QED
          BY <2>0, <4>2, <4>3, <5>1
    <3>2. CASE c # d
      BY <2>1, <2>3, <3>2 DEF TypeOK, Members, Join, Enter
    <3> QED
      BY <3>1, <3>2
  <2>4. ASSUME NEW s \in Sessions, Leave(s) PROVE Cardinality(Members(d)') <= RoomMax
    <3>1. room' = [room EXCEPT ![s] = Nil]
      BY <2>4 DEF Leave
    <3> QED
      BY <2>1, <3>1 DEF TypeOK, Members
  <2>5. CASE room' = room
    BY <2>1, <2>5 DEF Members
  <2> QED
    BY <2>2, <2>3, <2>4, <2>5 DEF Next, Rename, TakeOwner, SetTakeover, vars
<1> QED
  BY <1>1, <1>2, TypeCorrect, OwnerAlwaysMember, PTL DEF Spec

-----------------------------------------------------------------------------

\* Ownership of a room that goes on changes hands in two ways only: the owner
\* leaves and a longest-standing member follows, or somebody takes it while
\* the room allows takeovers.
THEOREM OwnershipPassesOnlySo == Spec => OwnershipPasses
<1> DEFINE Passes ==
      \A c \in Codes :
        (owner[c] # Nil /\ owner'[c] # Nil /\ owner'[c] # owner[c]) =>
           \/ /\ room'[owner[c]] # c
              /\ Oldest(c, Members(c) \ {owner[c]}, owner'[c])
           \/ takeover[c] /\ room' = room
<1>1. TypeOK /\ OwnerIsMember /\ [Next]_vars => Passes
  <2> SUFFICES ASSUME TypeOK, OwnerIsMember, Next PROVE Passes
    BY DEF vars
  <2>1. ASSUME NEW s \in Sessions, NEW c \in Codes, NEW n \in Names, NEW b \in BOOLEAN,
               Create(s, c, n, b)
        PROVE  Passes
    <3>1. owner[c] = Nil /\ owner' = [owner EXCEPT ![c] = s]
      BY <2>1 DEF Create
    <3> QED
      BY <3>1 DEF TypeOK
  <2>2. ASSUME NEW s \in Sessions, Leave(s) PROVE Passes
    <3>1. CASE owner[room[s]] = s
      <4>1. \/ owner' = [owner EXCEPT ![room[s]] = Nil]
            \/ \E o \in Members(room[s]) \ {s} : /\ Oldest(room[s], Members(room[s]) \ {s}, o)
                                                /\ owner' = [owner EXCEPT ![room[s]] = o]
        BY <2>2, <3>1 DEF Leave
      <4>2. room[s] \in Codes /\ room'[s] = Nil
        BY <2>2 DEF TypeOK, Leave
      <4> QED
        BY <3>1, <4>1, <4>2 DEF TypeOK
    <3>2. CASE owner[room[s]] # s
      BY <2>2, <3>2 DEF TypeOK, Leave
    <3> QED
      BY <3>1, <3>2
  <2>3. ASSUME NEW s \in Sessions, TakeOwner(s) PROVE Passes
    BY <2>3 DEF TypeOK, TakeOwner
  <2>4. CASE owner' = owner
    BY <2>4
  <2> QED
    BY <2>1, <2>2, <2>3, <2>4 DEF Next, Join, Rename, SetTakeover
<1> QED
  BY <1>1, TypeCorrect, OwnerAlwaysMember, PTL DEF Spec, OwnershipPasses
=============================================================================
