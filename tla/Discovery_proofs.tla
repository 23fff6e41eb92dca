--------------------------- MODULE Discovery_proofs ---------------------------
(***************************************************************************)
(* Proofs about the list of devices of a controller, for any devices, with *)
(* or without an id, any number of handles and any use of the discoveries. *)
(***************************************************************************)
EXTENDS DiscoveryProps, SequenceTheorems, FiniteSetTheorems, TLAPS

\* What is left of a list keeps its order: the nth element left is the one at
\* at[n], and every one that is not gone is left.
LEMMA WithoutIs ==
  ASSUME NEW S, NEW s \in Seq(S), NEW gone
  PROVE  /\ Without(s, gone) \in Seq(S)
         /\ \E at \in [1..Len(Without(s, gone)) -> 1..Len(s)] :
              /\ \A m, n \in 1..Len(Without(s, gone)) : m < n => at[m] < at[n]
              /\ \A n \in 1..Len(Without(s, gone)) :
                   Without(s, gone)[n] = s[at[n]] /\ s[at[n]] \notin gone
              /\ \A i \in 1..Len(s) :
                   s[i] \notin gone => \E n \in 1..Len(Without(s, gone)) : at[n] = i
<1>. DEFINE left == {i \in 1..Len(s) : s[i] \notin gone}
            upTo(i) == {j \in left : j <= i}
            place == [i \in left |-> Cardinality(upTo(i))]
            c == Cardinality(left)
            at == [n \in 1..c |-> CHOOSE i \in left : Cardinality(upTo(i)) = n]
<1>1. /\ Len(s) \in Nat /\ DOMAIN s = 1..Len(s) /\ \A i \in 1..Len(s) : s[i] \in S
      /\ \A i \in left : i \in 1..Len(s) /\ i \in Int
  OBVIOUS
<1>2. IsFiniteSet(left) /\ c \in Nat
  <2>1. IsFiniteSet(1..Len(s))
    BY <1>1, FS_Interval
  <2>2. left \in SUBSET (1..Len(s))
    OBVIOUS
  <2>. HIDE DEF left
  <2>. QED  BY <2>1, <2>2, FS_Subset, FS_CardinalityType
<1>3. ASSUME NEW i \in left
      PROVE  Cardinality(upTo(i)) \in 1..c /\ IsFiniteSet(upTo(i))
  <2>1. upTo(i) \in SUBSET left /\ i \in upTo(i)
    BY <1>1
  <2>. HIDE DEF upTo, left
  <2>2. /\ IsFiniteSet(upTo(i)) /\ Cardinality(upTo(i)) <= c
        /\ Cardinality(upTo(i)) \in Nat
    BY <1>2, <2>1, FS_Subset, FS_CardinalityType
  <2>3. Cardinality(upTo(i)) # 0
    BY <2>1, <2>2, FS_EmptySet
  <2>. QED  BY <1>2, <2>2, <2>3
<1>4. ASSUME NEW i \in left, NEW j \in left, i < j
      PROVE  Cardinality(upTo(i)) < Cardinality(upTo(j))
  <2>1. upTo(i) \in SUBSET upTo(j) /\ j \in upTo(j) /\ j \notin upTo(i)
    BY <1>1, <1>4
  <2>. HIDE DEF upTo, left
  <2>. QED  BY <1>2, <1>3, <2>1, FS_Subset
<1>5. \A i, j \in left : Cardinality(upTo(i)) = Cardinality(upTo(j)) => i = j
  <2>. SUFFICES ASSUME NEW i \in left, NEW j \in left,
                       Cardinality(upTo(i)) = Cardinality(upTo(j))
                PROVE  i = j
    OBVIOUS
  <2>. HIDE DEF upTo, left
  <2>1. /\ i \in Int /\ j \in Int
        /\ Cardinality(upTo(i)) \in 1..c /\ Cardinality(upTo(j)) \in 1..c
    BY <1>1, <1>3
  <2>2. i < j => Cardinality(upTo(i)) < Cardinality(upTo(j))
    BY <1>4
  <2>3. j < i => Cardinality(upTo(j)) < Cardinality(upTo(i))
    BY <1>4
  <2>. QED  BY <1>2, <2>1, <2>2, <2>3
<1>6. \A n \in 1..c : \E i \in left : Cardinality(upTo(i)) = n
  <2>1. place \in [left -> 1..c]
    BY <1>3
  <2>2. \A i, j \in left : place[i] = place[j] => i = j
    <3>1. \A i, j \in left : place[i] = place[j] =>
                Cardinality(upTo(i)) = Cardinality(upTo(j))
      BY DEF place
    <3>. HIDE DEF place, upTo, left
    <3>. QED  BY <1>5, <3>1
  <2>3. \A i \in left : place[i] = Cardinality(upTo(i))
    OBVIOUS
  <2>. HIDE DEF place, upTo
  <2>4. place \in Injection(left, 1..c)
    BY <2>1, <2>2 DEF Injection, IsInjective
  <2>5. IsFiniteSet(1..c) /\ Cardinality(1..c) = c
    BY <1>2, FS_Interval
  <2>. HIDE DEF left
  <2>6. place \in Surjection(left, 1..c)
    BY <1>2, <2>4, <2>5, FS_Injection
  <2>. QED  BY <2>3, <2>6 DEF Surjection
<1>7. /\ Without(s, gone) = [n \in 1..c |-> s[CHOOSE i \in left : Cardinality(upTo(i)) = n]]
  BY <1>1 DEF Without
<1>8. /\ at \in [1..c -> left]
      /\ \A n \in 1..c : Cardinality(upTo(at[n])) = n
  <2>. HIDE DEF left, upTo
  <2>. QED  BY <1>6
<1>9. Without(s, gone) = [n \in 1..c |-> s[at[n]]]
  <2>. HIDE DEF left, upTo, c
  <2>. QED  BY <1>7
<1>10. \A i \in left : \E n \in 1..c : at[n] = i
  <2>. SUFFICES ASSUME NEW i \in left
                PROVE  at[Cardinality(upTo(i))] = i
    BY <1>3
  <2>1. /\ at[Cardinality(upTo(i))] \in left
        /\ Cardinality(upTo(at[Cardinality(upTo(i))])) = Cardinality(upTo(i))
    <3>. HIDE DEF at, upTo, left
    <3>. QED  BY <1>3, <1>8
  <2>2. \A j \in left : Cardinality(upTo(j)) = Cardinality(upTo(i)) => j = i
    <3>. HIDE DEF upTo, left
    <3>. QED  BY <1>5
  <2>. HIDE DEF at, upTo, left
  <2>. QED  BY <2>1, <2>2
<1>11. \A m, n \in 1..c : m < n => at[m] < at[n]
  <2>. SUFFICES ASSUME NEW m \in 1..c, NEW n \in 1..c, m < n, ~(at[m] < at[n])
                PROVE  FALSE
    OBVIOUS
  <2>1. /\ at[m] \in left /\ at[n] \in left /\ at[m] \in Int /\ at[n] \in Int
        /\ Cardinality(upTo(at[m])) = m /\ Cardinality(upTo(at[n])) = n
    <3>. HIDE DEF at, upTo, left
    <3>. QED  BY <1>1, <1>8
  <2>. HIDE DEF at, upTo, left
  <2>2. CASE at[n] < at[m]
    BY <1>4, <2>1, <2>2
  <2>3. CASE at[n] = at[m]
    BY <2>1, <2>3
  <2>. QED  BY <2>1, <2>2, <2>3
<1>. HIDE DEF at, upTo, c
<1>12. Without(s, gone) \in Seq(S) /\ Len(Without(s, gone)) = c
  <2>1. \A n \in 1..c : s[at[n]] \in S
    BY <1>1, <1>8
  <2>. QED  BY <1>2, <1>9, <2>1
<1>13. /\ at \in [1..c -> 1..Len(s)]
       /\ \A n \in 1..c : Without(s, gone)[n] = s[at[n]] /\ s[at[n]] \notin gone
       /\ \A i \in 1..Len(s) : s[i] \notin gone => \E n \in 1..c : at[n] = i
  BY <1>8, <1>9, <1>10
<1>. QED  BY <1>11, <1>12, <1>13

LEMMA LeastIs ==
  ASSUME NEW S, S \subseteq Nat, S # {}
  PROVE  \E m \in S : \A n \in S : m <= n
<1>. DEFINE R == OpToRel(<, Nat)
<1>1. IsWellFoundedOn(R, Nat)
  BY NatLessThanWellFounded
<1>2. \A m, n \in Nat : m < n => <<m, n>> \in R
  BY DEF OpToRel
<1>. HIDE DEF R
<1>3. PICK m \in S : \A n \in S : ~(<<n, m>> \in R)
  BY <1>1, WFMin
<1>4. \A n \in S : m \in Nat /\ n \in Nat /\ ~(n < m)
  BY <1>2, <1>3
<1>5. \A n \in S : m <= n
  BY <1>4
<1>. QED  BY <1>5

LEMMA FirstIs ==
  ASSUME NEW S, S \subseteq Nat, S # {}
  PROVE  First(S) \in S
  BY LeastIs DEF First

-----------------------------------------------------------------------------
\* The list and what the application was told.

\* The application knows of a device's connection as long as the device has one.
ToldIs ==
    \A i \in 1..Len(listed) : listed[i].h \in told <=> listed[i].conn # "idle"

ListInv == listed \in Seq(Listed) /\ ListedOnce /\ EndToldBeforeGone /\ ToldIs
             /\ NoItfWithoutConn

ItfsOf(e) ==
    /\ e.itfs \ {"blackbox"} # {} => e.conn = "connected"
    /\ "over" \in e.itfs => "ftp" \in e.itfs

\* The same, of the elements by their numbers.
LEMMA ListParts ==
  ASSUME listed \in Seq(Listed)
  PROVE  /\ Len(listed) \in Nat /\ DOMAIN listed = 1..Len(listed)
         /\ \A i \in 1..Len(listed) : listed[i] \in Listed
         /\ EndToldBeforeGone <=>
              \A h \in told : \E i \in 1..Len(listed) : listed[i].h = h
         /\ NoItfWithoutConn <=> \A i \in 1..Len(listed) : ItfsOf(listed[i])
  BY DEF EndToldBeforeGone, Taken, NoItfWithoutConn, ItfsOf

LEMMA ListPartsNext ==
  ASSUME listed' \in Seq(Listed)
  PROVE  /\ Len(listed') \in Nat /\ DOMAIN listed' = 1..Len(listed')
         /\ \A i \in 1..Len(listed') : listed'[i] \in Listed
         /\ EndToldBeforeGone' <=>
              \A h \in told' : \E i \in 1..Len(listed') : listed'[i].h = h
         /\ NoItfWithoutConn' <=> \A i \in 1..Len(listed') : ItfsOf(listed'[i])
  BY DEF EndToldBeforeGone, Taken, NoItfWithoutConn, ItfsOf

\* Elements that are those of the list, or what they have become, are listed
\* once if those were.
LEMMA KeptOnce ==
  ASSUME ListInv, listed' \in Seq(Listed),
         NEW at \in [1..Len(listed') -> 1..Len(listed)],
         \A m, n \in 1..Len(listed') : at[m] = at[n] => m = n,
         \A n \in 1..Len(listed') :
           /\ listed'[n].h = listed[at[n]].h /\ listed'[n].dev = listed[at[n]].dev
           /\ listed'[n].by \in {listed[at[n]].by, "none"}
  PROVE  ListedOnce'
<1>. SUFFICES ASSUME NEW m \in 1..Len(listed'), NEW n \in 1..Len(listed'), m # n
              PROVE  /\ listed'[m].h # listed'[n].h
                     /\ listed'[m].by # "none" /\ listed'[m].by = listed'[n].by
                          => Distinct(listed'[m].dev, listed'[n].dev)
  BY ListPartsNext DEF ListedOnce
<1>1. at[m] \in DOMAIN listed /\ at[n] \in DOMAIN listed /\ at[m] # at[n]
  BY ListParts DEF ListInv
<1>2. /\ listed[at[m]].h # listed[at[n]].h
      /\ listed[at[m]].by # "none" /\ listed[at[m]].by = listed[at[n]].by
           => Distinct(listed[at[m]].dev, listed[at[n]].dev)
  BY <1>1 DEF ListInv, ListedOnce
<1>. QED  BY <1>2

\* Whatever goes, those who stay are as they were, and the application knows
\* of none that went.
LEMMA DestroyList ==
  ASSUME ListInv, NEW gone, gone \subseteq ToSet(listed), Destroy(gone)
  PROVE  /\ ListInv'
         /\ \A n \in 1..Len(listed') : \E i \in 1..Len(listed) :
              listed'[n] = listed[i] /\ listed[i] \notin gone
<1>1. /\ listed \in Seq(Listed) /\ listed' = Without(listed, gone)
      /\ told' = told \ {e.h : e \in {d \in gone : Broken(d)}}
  BY DEF ListInv, Destroy
<1>2. listed' \in Seq(Listed)
  BY <1>1, WithoutIs
<1>3. PICK at \in [1..Len(listed') -> 1..Len(listed)] :
        /\ \A m, n \in 1..Len(listed') : m < n => at[m] < at[n]
        /\ \A n \in 1..Len(listed') : listed'[n] = listed[at[n]] /\ listed[at[n]] \notin gone
        /\ \A i \in 1..Len(listed) :
             listed[i] \notin gone => \E n \in 1..Len(listed') : at[n] = i
  BY <1>1, WithoutIs
<1>4. \A m, n \in 1..Len(listed') : at[m] = at[n] => m = n
  <2>. SUFFICES ASSUME NEW m \in 1..Len(listed'), NEW n \in 1..Len(listed'), at[m] = at[n]
                PROVE  m = n
    OBVIOUS
  <2>1. at[m] \in Int /\ ~(at[m] < at[n]) /\ ~(at[n] < at[m])
    OBVIOUS
  <2>. QED  BY <1>3, <2>1
<1>5. ListedOnce'
  BY <1>2, <1>3, <1>4, KeptOnce
<1>6. \A i \in 1..Len(listed), j \in 1..Len(listed) : listed[i].h = listed[j].h => i = j
  BY <1>1, ListParts DEF ListInv, ListedOnce
<1>7. ToldIs'
  <2>. SUFFICES ASSUME NEW n \in 1..Len(listed')
                PROVE  listed'[n].h \in told' <=> listed'[n].conn # "idle"
    BY DEF ToldIs
  <2>1. at[n] \in 1..Len(listed) /\ listed'[n] = listed[at[n]] /\ listed[at[n]] \notin gone
    BY <1>3
  <2>2. \A d \in gone : d.h # listed[at[n]].h
    <3>. SUFFICES ASSUME NEW d \in gone, d.h = listed[at[n]].h
                  PROVE  FALSE
      OBVIOUS
    <3>1. PICK j \in 1..Len(listed) : d = listed[j]
      BY <1>1, ListParts DEF ToSet
    <3>. QED  BY <1>6, <2>1, <3>1
  <2>. QED  BY <1>1, <2>1, <2>2 DEF ListInv, ToldIs
<1>8. EndToldBeforeGone'
  <2>. SUFFICES ASSUME NEW h \in told'
                PROVE  \E n \in 1..Len(listed') : listed'[n].h = h
    BY <1>2, ListPartsNext
  <2>1. PICK i \in 1..Len(listed) : listed[i].h = h
    BY <1>1, ListParts DEF ListInv
  <2>2. listed[i].conn \in {"connecting", "connected"}
    BY <1>1, <2>1, ListParts DEF ListInv, ToldIs, Listed, Conns
  <2>3. listed[i] \notin gone
    BY <1>1, <2>1, <2>2 DEF Broken
  <2>. QED  BY <1>3, <2>1, <2>3
<1>9. NoItfWithoutConn'
  BY <1>1, <1>2, <1>3, ListParts, ListPartsNext DEF ListInv
<1>. QED  BY <1>2, <1>3, <1>5, <1>7, <1>8, <1>9 DEF ListInv

\* A list whose elements are changed in place.
LEMMA InPlace ==
  ASSUME ListInv, NEW i \in 1..Len(listed), NEW e \in Listed,
         listed' = [listed EXCEPT ![i] = e],
         e.h = listed[i].h, e.dev = listed[i].dev, e.by = listed[i].by, ItfsOf(e),
         told' = IF e.conn = "idle" THEN told \ {e.h} ELSE told \cup {e.h}
  PROVE  ListInv' /\ Len(listed') = Len(listed)
         /\ \A j \in 1..Len(listed) : listed'[j] = IF j = i THEN e ELSE listed[j]
<1>1. /\ listed' \in Seq(Listed) /\ Len(listed') = Len(listed)
      /\ \A j \in 1..Len(listed) : listed'[j] = IF j = i THEN e ELSE listed[j]
  BY ExceptSeq DEF ListInv
<1>2. ListedOnce'
  <2>. DEFINE at == [n \in 1..Len(listed') |-> n]
  <2>1. at \in [1..Len(listed') -> 1..Len(listed)] /\ \A n \in 1..Len(listed') : at[n] = n
    BY <1>1
  <2>. HIDE DEF at
  <2>. QED  BY <1>1, <2>1, KeptOnce
<1>3. \A j \in 1..Len(listed) : j # i => listed[j].h # e.h
  BY ListParts DEF ListInv, ListedOnce
<1>4. ToldIs'
  BY <1>1, <1>3 DEF ListInv, ToldIs
<1>5. EndToldBeforeGone'
  BY <1>1, ListParts, ListPartsNext DEF ListInv
<1>6. NoItfWithoutConn'
  BY <1>1, ListParts, ListPartsNext DEF ListInv
<1>. QED  BY <1>1, <1>2, <1>4, <1>5, <1>6 DEF ListInv

NoneIsNoDisc == "none" \notin Discs

LEMMA NoDisc == NoneIsNoDisc
  BY DiscsAssumption DEF NoneIsNoDisc

LEMMA FoundIs ==
  ASSUME ListInv, NEW k, NEW name, NEW id, Found(k, name, id) # {}
  PROVE  /\ First(Found(k, name, id)) \in 1..Len(listed)
         /\ SameDevice(listed[First(Found(k, name, id))], k, name, id)
<1>1. Found(k, name, id) \subseteq 1..Len(listed) /\ Found(k, name, id) \subseteq Nat
  BY ListParts DEF ListInv, Found
<1>2. First(Found(k, name, id)) \in Found(k, name, id)
  BY <1>1, FirstIs
<1>. QED  BY <1>1, <1>2 DEF Found

\* A device that is found is the one listed, with the number of the run, or is
\* the last of the list.
Renumbered(k, dev) ==
    \E i \in 1..Len(listed) :
      /\ SameDevice(listed[i], k, dev.name, dev.id)
      /\ listed' = [listed EXCEPT ![i] = [listed[i] EXCEPT !.run = disc[k].run]]

Listing(k, dev) ==
    /\ Found(k, dev.name, dev.id) = {}
    /\ \E h \in Handles \ Taken : listed' = Append(listed, Created(h, k, dev))

LEMMA AddIs ==
  ASSUME ListInv, NEW k, NEW dev, AddDevice(k, dev)
  PROVE  told' = told /\ (Renumbered(k, dev) \/ Listing(k, dev))
<1>1. CASE Found(k, dev.name, dev.id) # {}
  BY <1>1, FoundIs DEF AddDevice, Renumbered
<1>2. CASE Found(k, dev.name, dev.id) = {}
  BY <1>2 DEF AddDevice, Listing, NewHandle
<1>. QED  BY <1>1, <1>2

LEMMA AddList ==
  ASSUME ListInv, NEW k \in Discs, NEW dev \in Devs, disc[k].run \in 0..MaxRuns,
         AddDevice(k, dev)
  PROVE  ListInv'
<1>0. listed \in Seq(Listed) /\ \A i \in 1..Len(listed) : listed[i] \in Listed
  BY ListParts DEF ListInv
<1>1. CASE Renumbered(k, dev)
  <2>1. PICK i \in 1..Len(listed) :
          listed' = [listed EXCEPT ![i] = [listed[i] EXCEPT !.run = disc[k].run]]
    BY <1>1 DEF Renumbered
  <2>. DEFINE e == [listed[i] EXCEPT !.run = disc[k].run]
  <2>2. /\ e \in Listed /\ e.h = listed[i].h /\ e.dev = listed[i].dev
        /\ e.by = listed[i].by /\ e.conn = listed[i].conn /\ e.itfs = listed[i].itfs
    BY <1>0 DEF Listed
  <2>. HIDE DEF e
  <2>3. ItfsOf(e)
    BY <1>0, <2>2, ListParts DEF ListInv, ItfsOf
  <2>4. told' = IF e.conn = "idle" THEN told \ {e.h} ELSE told \cup {e.h}
    BY <2>2, AddIs DEF ListInv, ToldIs
  <2>. QED  BY <2>1, <2>2, <2>3, <2>4, InPlace DEF e
<1>2. CASE Listing(k, dev)
  <2>1. PICK h \in Handles \ Taken : listed' = Append(listed, Created(h, k, dev))
    BY <1>2 DEF Listing
  <2>. DEFINE e == Created(h, k, dev)
  <2>2. /\ e \in Listed /\ e.h = h /\ e.by = k /\ e.dev = dev /\ e.conn = "idle"
        /\ e.itfs = {}
    BY <2>1 DEF Created, Listed, Conns
  <2>. HIDE DEF e
  <2>3. /\ listed' \in Seq(Listed) /\ Len(listed') = Len(listed) + 1
        /\ Len(listed) \in Nat
        /\ \A j \in 1..Len(listed) : listed'[j] = listed[j]
        /\ listed'[Len(listed) + 1] = e
    BY <1>0, <2>1, <2>2 DEF e
  <2>4. \A j \in 1..Len(listed') : j \in 1..Len(listed) \/ j = Len(listed) + 1
    BY <2>3
  <2>5. \A j \in 1..Len(listed) : listed[j].h # h
    BY <1>0, ListParts DEF Taken
  <2>6. \A j \in 1..Len(listed) : listed[j].by = k => Distinct(listed[j].dev, dev)
    <3>. SUFFICES ASSUME NEW j \in 1..Len(listed), listed[j].by = k
                  PROVE  Distinct(listed[j].dev, dev)
      OBVIOUS
    <3>1. ~SameDevice(listed[j], k, dev.name, dev.id)
      BY <1>0, <1>2, ListParts DEF Listing, Found
    <3>. QED  BY <3>1 DEF SameDevice, Distinct
  <2>7. \A j \in 1..Len(listed) : listed[j].by = k => Distinct(dev, listed[j].dev)
    BY <2>6 DEF Distinct
  <2>8. ListedOnce'
    <3>. SUFFICES ASSUME NEW m \in 1..Len(listed'), NEW n \in 1..Len(listed'), m # n
                  PROVE  /\ listed'[m].h # listed'[n].h
                         /\ listed'[m].by # "none" /\ listed'[m].by = listed'[n].by
                              => Distinct(listed'[m].dev, listed'[n].dev)
      BY <2>3, ListPartsNext DEF ListedOnce
    <3>1. CASE m \in 1..Len(listed) /\ n \in 1..Len(listed)
      BY <1>0, <2>3, <3>1, ListParts DEF ListInv, ListedOnce
    <3>2. CASE m \in 1..Len(listed) /\ n = Len(listed) + 1
      BY <2>2, <2>3, <2>5, <2>6, <3>2
    <3>3. CASE n \in 1..Len(listed) /\ m = Len(listed) + 1
      BY <2>2, <2>3, <2>5, <2>7, <3>3
    <3>. QED  BY <2>4, <3>1, <3>2, <3>3
  <2>9. told' = told
    BY AddIs
  <2>10. h \notin told
    BY <1>0, <2>5, ListParts DEF ListInv
  <2>11. ToldIs'
    BY <2>2, <2>3, <2>4, <2>9, <2>10 DEF ListInv, ToldIs
  <2>12. EndToldBeforeGone'
    <3>. SUFFICES ASSUME NEW g \in told
                  PROVE  \E n \in 1..Len(listed') : listed'[n].h = g
      BY <2>3, <2>9, ListPartsNext
    <3>1. PICK i \in 1..Len(listed) : listed[i].h = g
      BY <1>0, ListParts DEF ListInv
    <3>. QED  BY <2>3, <3>1
  <2>13. NoItfWithoutConn'
    <3>1. ItfsOf(e)
      BY <2>2 DEF ItfsOf
    <3>. QED  BY <1>0, <2>3, <2>4, <3>1, ListParts, ListPartsNext DEF ListInv
  <2>. QED  BY <2>3, <2>8, <2>11, <2>12, <2>13 DEF ListInv
<1>. QED  BY <1>1, <1>2, AddIs

LEMMA DisownedList ==
  ASSUME ListInv, NEW k \in Discs, listed' = Disowned(k), told' = told
  PROVE  /\ ListInv' /\ Len(listed') = Len(listed)
         /\ \A i \in 1..Len(listed) :
              /\ listed[i].by = k => listed'[i].by = "none"
              /\ listed[i].by # k => listed'[i] = listed[i]
<1>0. listed \in Seq(Listed) /\ Len(listed) \in Nat /\ \A i \in 1..Len(listed) : listed[i] \in Listed
  BY ListParts DEF ListInv
<1>. DEFINE gone(e) == [e EXCEPT !.by = "none", !.run = 0]
<1>1. \A e \in Listed : /\ gone(e) \in Listed /\ gone(e).h = e.h /\ gone(e).dev = e.dev
                        /\ gone(e).conn = e.conn /\ gone(e).itfs = e.itfs
                        /\ gone(e).by = "none"
  <2>. SUFFICES ASSUME NEW e \in Listed
                PROVE  /\ gone(e) \in Listed /\ gone(e).h = e.h /\ gone(e).dev = e.dev
                       /\ gone(e).conn = e.conn /\ gone(e).itfs = e.itfs
                       /\ gone(e).by = "none"
    OBVIOUS
  <2>1. 0 \in 0..MaxRuns /\ "none" \in Discs \cup {"none"}
    BY RunsAssumption
  <2>2. gone(e) \in Listed
    BY <2>1 DEF Listed
  <2>. QED  BY <2>2 DEF Listed
<1>2. listed' = [i \in 1..Len(listed) |-> IF listed[i].by = k THEN gone(listed[i])
                                         ELSE listed[i]]
  BY <1>0, ListParts DEF Disowned
<1>. HIDE DEF gone
<1>3. listed' \in Seq(Listed) /\ Len(listed') = Len(listed)
  BY <1>0, <1>1, <1>2
<1>4. \A i \in 1..Len(listed) :
        /\ listed'[i] \in Listed
        /\ listed'[i].h = listed[i].h /\ listed'[i].dev = listed[i].dev
        /\ listed'[i].conn = listed[i].conn /\ listed'[i].itfs = listed[i].itfs
        /\ listed[i].by = k => listed'[i].by = "none"
        /\ listed[i].by # k => listed'[i] = listed[i]
  BY <1>0, <1>1, <1>2
<1>5. ListedOnce'
  <2>. DEFINE at == [n \in 1..Len(listed') |-> n]
  <2>1. at \in [1..Len(listed') -> 1..Len(listed)] /\ \A n \in 1..Len(listed') : at[n] = n
    BY <1>3
  <2>. HIDE DEF at
  <2>. QED  BY <1>3, <1>4, <2>1, KeptOnce
<1>6. ToldIs'
  BY <1>3, <1>4 DEF ListInv, ToldIs
<1>7. EndToldBeforeGone'
  BY <1>0, <1>3, <1>4, ListParts, ListPartsNext DEF ListInv
<1>8. NoItfWithoutConn'
  <2>1. \A i \in 1..Len(listed) : ItfsOf(listed[i])
    BY <1>0, ListParts DEF ListInv
  <2>2. \A i \in 1..Len(listed) : ItfsOf(listed'[i])
    BY <1>4, <2>1 DEF ItfsOf
  <2>. QED  BY <1>3, <2>2, ListPartsNext
<1>9. ListInv'
  BY <1>3, <1>5, <1>6, <1>7, <1>8 DEF ListInv
<1>. QED  BY <1>3, <1>4, <1>9

\* What the application and the backend do with a device leaves what the
\* discovery knows of it.
DeviceMoved ==
    /\ UNCHANGED disc
    /\ \E i \in 1..Len(listed), e \in Listed :
         /\ listed' = [listed EXCEPT ![i] = e]
         /\ e.h = listed[i].h /\ e.dev = listed[i].dev
         /\ e.by = listed[i].by /\ e.run = listed[i].run

LEMMA DeviceList ==
  ASSUME ListInv, DeviceNext
  PROVE  ListInv' /\ DeviceMoved
<1>0. listed \in Seq(Listed) /\ Len(listed) \in Nat /\ \A i \in 1..Len(listed) : listed[i] \in Listed
  BY ListParts DEF ListInv
<1>. PICK i \in 1..Len(listed) :
          \/ DeviceConnect(i) \/ DeviceConnected(i) \/ DeviceEnded(i)
          \/ DeviceCreateCmdItf(i) \/ DeviceGetFtpItf(i)
          \/ DeviceGetItfOverFtp(i) \/ DeviceGetBlackboxItf(i)
  BY <1>0, ListParts DEF DeviceNext
<1>. DEFINE d == listed[i]
<1>1. d \in Listed /\ ItfsOf(d) /\ (d.h \in told <=> d.conn # "idle")
  BY <1>0, ListParts DEF ListInv, ToldIs
<1>2. ASSUME NEW e \in Listed, listed' = [listed EXCEPT ![i] = e], UNCHANGED disc,
             e.h = d.h, e.dev = d.dev, e.by = d.by, e.run = d.run, ItfsOf(e),
             told' = IF e.conn = "idle" THEN told \ {e.h} ELSE told \cup {e.h}
      PROVE  ListInv' /\ DeviceMoved
  BY <1>2, InPlace DEF DeviceMoved
<1>3. CASE DeviceConnect(i)
  <2>. DEFINE e == [d EXCEPT !.conn = "connecting"]
  <2>1. /\ listed' = [listed EXCEPT ![i] = e] /\ UNCHANGED disc
        /\ told' = told \cup {d.h} /\ d.conn = "idle"
    BY <1>3 DEF DeviceConnect
  <2>2. /\ e \in Listed /\ e.h = d.h /\ e.dev = d.dev /\ e.by = d.by /\ e.run = d.run
        /\ e.itfs = d.itfs /\ e.conn = "connecting"
    BY <1>1 DEF Listed, Conns
  <2>. HIDE DEF e, d
  <2>. QED  BY <1>1, <1>2, <2>1, <2>2 DEF ItfsOf
<1>4. CASE DeviceConnected(i)
  <2>. DEFINE e == [d EXCEPT !.conn = "connected"]
  <2>1. /\ listed' = [listed EXCEPT ![i] = e] /\ UNCHANGED disc
        /\ told' = told /\ d.conn = "connecting"
    BY <1>4 DEF DeviceConnected
  <2>2. /\ e \in Listed /\ e.h = d.h /\ e.dev = d.dev /\ e.by = d.by /\ e.run = d.run
        /\ e.itfs = d.itfs /\ e.conn = "connected"
    BY <1>1 DEF Listed, Conns
  <2>. HIDE DEF e, d
  <2>. QED  BY <1>1, <1>2, <2>1, <2>2 DEF ItfsOf
<1>5. CASE DeviceEnded(i)
  <2>. DEFINE e == Cleaned(d)
  <2>1. /\ listed' = [listed EXCEPT ![i] = e] /\ UNCHANGED disc /\ told' = told \ {d.h}
    BY <1>5 DEF DeviceEnded
  <2>2. /\ e \in Listed /\ e.h = d.h /\ e.dev = d.dev /\ e.by = d.by /\ e.run = d.run
        /\ e.itfs = {} /\ e.conn = "idle"
    BY <1>1 DEF Listed, Conns, Cleaned
  <2>. HIDE DEF e, d
  <2>. QED  BY <1>2, <2>1, <2>2 DEF ItfsOf
<1>6. ASSUME NEW new \in SUBSET Itfs, Creates(i, new),
             d.conn = "connected" \/ new = {"blackbox"},
             "over" \in new => "ftp" \in new
      PROVE  ListInv' /\ DeviceMoved
  <2>. DEFINE e == [d EXCEPT !.itfs = d.itfs \cup new]
  <2>1. listed' = [listed EXCEPT ![i] = e] /\ UNCHANGED disc /\ told' = told
    BY <1>6 DEF Creates
  <2>2. /\ e \in Listed /\ e.h = d.h /\ e.dev = d.dev /\ e.by = d.by /\ e.run = d.run
        /\ e.itfs = d.itfs \cup new /\ e.conn = d.conn
    BY <1>1 DEF Listed
  <2>. HIDE DEF e, d
  <2>3. ItfsOf(e)
    BY <1>1, <1>6, <2>2 DEF ItfsOf
  <2>4. told' = IF e.conn = "idle" THEN told \ {e.h} ELSE told \cup {e.h}
    BY <1>1, <2>1, <2>2
  <2>. QED  BY <1>2, <2>1, <2>2, <2>3, <2>4
<1>7. CASE DeviceCreateCmdItf(i) \/ DeviceGetFtpItf(i) \/ DeviceGetItfOverFtp(i)
  BY <1>6, <1>7 DEF DeviceCreateCmdItf, DeviceGetFtpItf, DeviceGetItfOverFtp, Itfs
<1>8. CASE DeviceGetBlackboxItf(i)
  BY <1>6, <1>8 DEF DeviceGetBlackboxItf, Itfs
<1>. QED  BY <1>3, <1>4, <1>5, <1>7, <1>8

-----------------------------------------------------------------------------
\* The other variables: a step keeps their types, does one thing with the list
\* and, of a discovery, starts or stops it, or its timer fires.
Messages == {"ADDED", "REMOVED"} \X Devs
Tellings == {"NEW", "REMOVE"} \X Devs
DiscSet == [alive : BOOLEAN, started : BOOLEAN, run : 0..MaxRuns, timer : BOOLEAN]
MuxSet == [open : BOOLEAN, pub : Devs \cup {Nobody}, toCtl : Seq(Messages),
           toDev : Seq({"DISCOVER"})]
NetSet == [pub : Devs \cup {Nobody}, conn : {"off", "trying", "up", "dead", "closed"},
           data : Devs \cup {Nobody}, known : Devs \cup {Nobody}]
AvahiSet == [serv : {S \in SUBSET Devs : IsFiniteSet(S)}, browsing : BOOLEAN,
             events : Seq(Tellings), resolving : SUBSET Devs]

Types ==
    /\ disc \in [Discs -> DiscSet] /\ used \in Scenarios
    /\ mux \in MuxSet /\ net \in NetSet /\ avahi \in AvahiSet
    /\ Len(mux.toCtl) <= MaxQueue + 1 /\ Len(mux.toDev) <= MaxQueue
    /\ turns \in [Discs -> 0..MaxTurns]

\* The discoveries of K may list devices in this step.
ListStep(K) ==
    \/ UNCHANGED <<listed, told>>
    \/ UNCHANGED disc /\ \E k \in K, dev \in Devs : AddDevice(k, dev)
    \/ \E gone \in SUBSET ToSet(listed) : Destroy(gone)
    \/ \E k \in Discs : listed' = Disowned(k) /\ told' = told
    \/ DeviceNext

DiscStep ==
    \A k \in Discs : \/ disc'[k] = disc[k] \/ ~disc'[k].started \/ disc'[k].timer
                     \/ Timer(k)

LEMMA Limits == MaxRuns \in Nat /\ MaxQueue \in Nat /\ MaxTurns \in Nat /\ MaxApp \in Nat
  BY RunsAssumption, BoundsAssumption

LEMMA TheDiscs == "mux" \in Discs /\ "net" \in Discs /\ "avahi" \in Discs
  BY DiscsAssumption

LEMMA QueueTail ==
  ASSUME NEW S, NEW q \in Seq(S), q # << >>
  PROVE  Head(q) \in S /\ Tail(q) \in Seq(S) /\ Len(Tail(q)) = Len(q) - 1
         /\ Len(q) \in Nat
  OBVIOUS

LEMMA StartedIs ==
  ASSUME Types, NEW k \in Discs, disc[k].run < MaxRuns,
         \/ disc' = Started(disc, k) /\ ~disc[k].started
         \/ disc' = Started(Stopped(disc, k), k)
  PROVE  disc' \in [Discs -> DiscSet] /\ DiscStep
<1>. DEFINE stopped == [disc EXCEPT ![k].started = FALSE, ![k].timer = FALSE]
            on(ds) == [ds EXCEPT ![k].started = TRUE, ![k].run = ds[k].run + 1,
                                 ![k].timer = TRUE]
<1>0. disc \in [Discs -> DiscSet] /\ disc[k] \in DiscSet
  BY DEF Types
<1>1. stopped \in [Discs -> DiscSet]
  BY <1>0 DEF DiscSet
<1>2. /\ stopped[k].run = disc[k].run /\ ~stopped[k].started
      /\ \A j \in Discs : j # k => stopped[j] = disc[j]
  BY <1>0 DEF DiscSet
<1>3. Stopped(disc, k) = IF disc[k].started THEN stopped ELSE disc
  BY DEF Stopped
<1>. HIDE DEF stopped
<1>4. PICK ds \in {disc, stopped} : disc' = on(ds)
  BY <1>2, <1>3 DEF Started
<1>5. /\ ds \in [Discs -> DiscSet] /\ ds[k].run = disc[k].run
      /\ \A j \in Discs : j # k => ds[j] = disc[j]
  BY <1>0, <1>1, <1>2, <1>4
<1>6. ds[k] \in DiscSet /\ ds[k].run + 1 \in 0..MaxRuns
  <2>1. ds[k] \in DiscSet
    BY <1>5
  <2>. QED  BY <1>0, <1>5, <2>1, Limits DEF DiscSet
<1>7. /\ on(ds) \in [Discs -> DiscSet] /\ on(ds)[k].timer = TRUE
      /\ \A j \in Discs : j # k => on(ds)[j] = ds[j]
  BY <1>5, <1>6 DEF DiscSet
<1>. QED  BY <1>4, <1>5, <1>7 DEF DiscStep

LEMMA StoppedIs ==
  ASSUME Types, NEW k \in Discs,
         \/ disc' = Stopped(disc, k)
         \/ disc' = [disc EXCEPT ![k] = NewDisc]
         \/ disc' = [disc EXCEPT ![k] = [NewDisc EXCEPT !.alive = FALSE]]
         \/ disc' = [disc EXCEPT ![k].timer = FALSE] /\ Timer(k)
         \/ disc' = disc
  PROVE  disc' \in [Discs -> DiscSet] /\ DiscStep
<1>0. disc \in [Discs -> DiscSet] /\ disc[k] \in DiscSet
  BY DEF Types
<1>1. CASE disc' = Stopped(disc, k)
  <2>. DEFINE stopped == [disc EXCEPT ![k].started = FALSE, ![k].timer = FALSE]
  <2>1. stopped \in [Discs -> DiscSet]
    BY <1>0 DEF DiscSet
  <2>2. ~stopped[k].started /\ \A j \in Discs : j # k => stopped[j] = disc[j]
    BY <1>0 DEF DiscSet
  <2>3. disc' = stopped \/ disc' = disc
    BY <1>1 DEF Stopped
  <2>. HIDE DEF stopped
  <2>. QED  BY <1>0, <2>1, <2>2, <2>3 DEF DiscStep
<1>2. CASE \/ disc' = [disc EXCEPT ![k] = NewDisc]
           \/ disc' = [disc EXCEPT ![k] = [NewDisc EXCEPT !.alive = FALSE]]
  <2>1. NewDisc \in DiscSet /\ ~NewDisc.started
    <3>1. 0 \in 0..MaxRuns
      BY Limits
    <3>. QED  BY <3>1 DEF NewDisc, DiscSet
  <2>2. /\ [NewDisc EXCEPT !.alive = FALSE] \in DiscSet
        /\ ~[NewDisc EXCEPT !.alive = FALSE].started
    BY <2>1 DEF DiscSet
  <2>3. \E new \in DiscSet : disc' = [disc EXCEPT ![k] = new] /\ ~new.started
    BY <1>2, <2>1, <2>2
  <2>. QED  BY <1>0, <2>3 DEF DiscStep
<1>3. CASE disc' = [disc EXCEPT ![k].timer = FALSE] /\ Timer(k)
  BY <1>0, <1>3 DEF DiscSet, DiscStep
<1>4. CASE disc' = disc
  BY <1>0, <1>4 DEF DiscStep
<1>. QED  BY <1>1, <1>2, <1>3, <1>4

\* A device is removed.
LEMMA RemoveList ==
  ASSUME ListInv, NEW k, NEW name, NEW id, RemoveDevice(k, name, id), NEW K
  PROVE  ListStep(K)
<1>1. CASE Found(k, name, id) = {}
  BY <1>1 DEF RemoveDevice, ListStep
<1>2. CASE Found(k, name, id) # {}
  <2>. DEFINE d == listed[First(Found(k, name, id))]
  <2>1. {d} \in SUBSET ToSet(listed)
    BY <1>2, FoundIs, ListParts DEF ToSet, ListInv
  <2>2. Destroy({d})
    BY <1>2 DEF RemoveDevice
  <2>. QED  BY <2>1, <2>2 DEF ListStep
<1>. QED  BY <1>1, <1>2

Listers == Discs \ {"net"}

LEMMA NothingListed ==
  ASSUME NEW K, UNCHANGED <<listed, told>>
  PROVE  ListStep(K)
  BY DEF ListStep

LEMMA DiscNewIs ==
  ASSUME Types, NEW k \in Discs, DiscNew(k), NEW K
  PROVE  ListStep(K) /\ disc' \in [Discs -> DiscSet] /\ DiscStep
<1>1. disc' = [disc EXCEPT ![k] = NewDisc] /\ UNCHANGED <<listed, told>>
  BY DEF DiscNew
<1>. QED  BY <1>1, StoppedIs, NothingListed

LEMMA DiscDestroyIs ==
  ASSUME Types, NEW k \in Discs, DiscDestroy(k), NEW K
  PROVE  ListStep(K) /\ disc' \in [Discs -> DiscSet] /\ DiscStep
<1>1. /\ disc' = [disc EXCEPT ![k] = [NewDisc EXCEPT !.alive = FALSE]]
      /\ listed' = Disowned(k) /\ told' = told
  BY DEF DiscDestroy
<1>. QED  BY <1>1, StoppedIs DEF ListStep

LEMMA DiscKept ==
  ASSUME Types, UNCHANGED disc
  PROVE  disc' \in [Discs -> DiscSet] /\ DiscStep
  BY StoppedIs, TheDiscs

\* A message to the controller: it is lost if it cannot be sent.
LEMMA ToCtlType ==
  ASSUME Types, NEW m \in Messages
  PROVE  /\ ToCtl(mux.toCtl, m) \in Seq(Messages)
         /\ Len(ToCtl(mux.toCtl, m)) <= Len(mux.toCtl) + 1
         /\ Len(ToCtl(mux.toCtl, m)) \in Nat /\ Len(mux.toCtl) \in Nat
<1>1. mux.toCtl \in Seq(Messages)
  BY DEF Types, MuxSet
<1>2. /\ Append(mux.toCtl, m) \in Seq(Messages)
      /\ Len(Append(mux.toCtl, m)) = Len(mux.toCtl) + 1 /\ Len(mux.toCtl) \in Nat
  BY <1>1
<1>. QED  BY <1>1, <1>2 DEF ToCtl

MuxStep == Types' /\ ListStep(Listers) /\ DiscStep /\ net' = net

LEMMA MuxPublisherStep ==
  ASSUME Types, MuxPublisher
  PROVE  MuxStep
<1>. USE Limits
<1>0. /\ mux \in MuxSet /\ Len(mux.toCtl) <= MaxQueue + 1 /\ Len(mux.toDev) <= MaxQueue
      /\ mux.toCtl \in Seq(Messages) /\ mux.toDev \in Seq({"DISCOVER"})
      /\ Len(mux.toCtl) \in Nat
  BY DEF Types, MuxSet
<1>1. ASSUME NEW pub \in Devs \cup {Nobody}, NEW m \in Messages,
             Len(mux.toCtl) < MaxQueue,
             mux' = [mux EXCEPT !.pub = pub, !.toCtl = ToCtl(mux.toCtl, m)]
      PROVE  mux' \in MuxSet /\ Len(mux'.toCtl) <= MaxQueue + 1 /\ Len(mux'.toDev) <= MaxQueue
  <2>. DEFINE q == ToCtl(mux.toCtl, m)
  <2>1. q \in Seq(Messages) /\ Len(q) <= MaxQueue + 1
    BY <1>0, <1>1, ToCtlType
  <2>. HIDE DEF q
  <2>2. /\ mux' \in MuxSet /\ mux'.toCtl = q /\ mux'.toDev = mux.toDev
    BY <1>0, <1>1, <2>1 DEF MuxSet, q
  <2>. QED  BY <1>0, <2>1, <2>2
<1>2. ASSUME NEW dev \in Devs, PubMuxStart(dev)
      PROVE  MuxStep
  <2>1. /\ mux' = [mux EXCEPT !.pub = dev, !.toCtl = ToCtl(mux.toCtl, <<"ADDED", dev>>)]
        /\ turns' = [turns EXCEPT !["mux"] = @ + 1] /\ turns["mux"] < MaxTurns
        /\ Len(mux.toCtl) < MaxQueue
        /\ UNCHANGED <<listed, disc, told, used, net, avahi>>
    BY <1>2 DEF PubMuxStart, ctrlVars
  <2>2. <<"ADDED", dev>> \in Messages
    BY DEF Messages
  <2>3. mux' \in MuxSet /\ Len(mux'.toCtl) <= MaxQueue + 1 /\ Len(mux'.toDev) <= MaxQueue
    BY <1>1, <2>1, <2>2
  <2>4. turns' \in [Discs -> 0..MaxTurns]
    BY <2>1, TheDiscs DEF Types
  <2>. QED  BY <2>1, <2>3, <2>4, DiscKept, NothingListed DEF MuxStep, Types
<1>3. CASE PubMuxStop
  <2>1. /\ mux' = [mux EXCEPT !.pub = Nobody,
                              !.toCtl = ToCtl(mux.toCtl, <<"REMOVED", mux.pub>>)]
        /\ mux.pub # Nobody /\ Len(mux.toCtl) < MaxQueue
        /\ UNCHANGED <<listed, disc, told, used, net, avahi, turns>>
    BY <1>3 DEF PubMuxStop, ctrlVars
  <2>2. <<"REMOVED", mux.pub>> \in Messages
    BY <1>0, <2>1 DEF Messages, MuxSet
  <2>3. mux' \in MuxSet /\ Len(mux'.toCtl) <= MaxQueue + 1 /\ Len(mux'.toDev) <= MaxQueue
    BY <1>1, <2>1, <2>2
  <2>. QED  BY <2>1, <2>3, DiscKept, NothingListed DEF MuxStep, Types
<1>4. CASE PubMuxNew
  <2>1. /\ mux' = [mux EXCEPT !.open = TRUE, !.pub = Nobody]
        /\ UNCHANGED <<listed, disc, told, used, net, avahi, turns>>
    BY <1>4 DEF PubMuxNew, ctrlVars
  <2>2. mux' \in MuxSet /\ mux'.toCtl = mux.toCtl /\ mux'.toDev = mux.toDev
    BY <1>0, <2>1 DEF MuxSet
  <2>. QED  BY <1>0, <2>1, <2>2, DiscKept, NothingListed DEF MuxStep, Types
<1>. QED  BY <1>2, <1>3, <1>4 DEF MuxPublisher

LEMMA MuxLoopStep ==
  ASSUME Types, ListInv, MuxLoop
  PROVE  MuxStep
<1>. USE Limits
<1>0. /\ mux \in MuxSet /\ Len(mux.toCtl) <= MaxQueue + 1 /\ Len(mux.toDev) <= MaxQueue
      /\ mux.toCtl \in Seq(Messages) /\ mux.toDev \in Seq({"DISCOVER"})
      /\ Len(mux.toCtl) \in Nat /\ Len(mux.toDev) \in Nat
  BY DEF Types, MuxSet
<1>1. CASE PubMuxReceive
  <2>. DEFINE q == IF mux.pub = Nobody THEN mux.toCtl
                   ELSE ToCtl(mux.toCtl, <<"ADDED", mux.pub>>)
  <2>1. /\ mux' = [mux EXCEPT !.toDev = Tail(mux.toDev), !.toCtl = q]
        /\ mux.toDev # << >> /\ Len(mux.toCtl) <= MaxQueue
        /\ UNCHANGED <<listed, disc, told, used, net, avahi, turns>>
    BY <1>1 DEF PubMuxReceive, RxDiscover, ctrlVars
  <2>2. q \in Seq(Messages) /\ Len(q) <= MaxQueue + 1
    <3>1. CASE mux.pub = Nobody
      BY <1>0, <3>1
    <3>2. CASE mux.pub # Nobody
      <4>1. <<"ADDED", mux.pub>> \in Messages
        BY <1>0, <3>2 DEF Messages, MuxSet
      <4>. QED  BY <1>0, <2>1, <3>2, <4>1, ToCtlType
    <3>. QED  BY <3>1, <3>2
  <2>3. /\ Tail(mux.toDev) \in Seq({"DISCOVER"})
        /\ Len(Tail(mux.toDev)) <= MaxQueue
    BY <1>0, <2>1, QueueTail
  <2>. HIDE DEF q
  <2>4. /\ mux' \in MuxSet /\ mux'.toCtl = q /\ mux'.toDev = Tail(mux.toDev)
    BY <1>0, <2>1, <2>2, <2>3 DEF MuxSet
  <2>. QED  BY <2>1, <2>2, <2>3, <2>4, DiscKept, NothingListed DEF MuxStep, Types
<1>2. CASE MuxReceive
  <2>. DEFINE m == Head(mux.toCtl)
  <2>1. /\ mux.toCtl # << >> /\ MuxRx(m)
        /\ mux' = [mux EXCEPT !.toCtl = Tail(mux.toCtl)]
        /\ UNCHANGED <<disc, used, net, avahi, turns>>
    BY <1>2 DEF MuxReceive
  <2>2. /\ m \in Messages /\ Tail(mux.toCtl) \in Seq(Messages)
        /\ Len(Tail(mux.toCtl)) <= MaxQueue + 1
    BY <1>0, <2>1, QueueTail
  <2>3. mux' \in MuxSet /\ mux'.toCtl = Tail(mux.toCtl) /\ mux'.toDev = mux.toDev
    BY <1>0, <2>1, <2>2 DEF MuxSet
  <2>. HIDE DEF m
  <2>4. ListStep(Listers)
    <3>1. m[2] \in Devs
      BY <2>2 DEF Messages
    <3>2. CASE AddDevice("mux", m[2])
      BY <2>1, <3>1, <3>2, TheDiscs DEF ListStep, Listers
    <3>3. CASE RemoveDevice("mux", m[2].name, m[2].id)
      BY <3>3, RemoveList
    <3>. QED  BY <2>1, <3>2, <3>3 DEF MuxRx
  <2>. QED  BY <1>0, <2>1, <2>2, <2>3, <2>4, DiscKept DEF MuxStep, Types
<1>. QED  BY <1>1, <1>2 DEF MuxLoop

LEMMA MuxNextStep ==
  ASSUME Types, ListInv, MuxNext
  PROVE  MuxStep
<1>. USE Limits, TheDiscs
<1>0. /\ mux \in MuxSet /\ Len(mux.toCtl) <= MaxQueue + 1 /\ Len(mux.toDev) <= MaxQueue
      /\ mux.toCtl \in Seq(Messages) /\ mux.toDev \in Seq({"DISCOVER"})
      /\ Len(mux.toCtl) \in Nat /\ Len(mux.toDev) \in Nat
  BY DEF Types, MuxSet
<1>e. << >> \in Seq(Messages) /\ << >> \in Seq({"DISCOVER"}) /\ Len(<< >>) = 0
  OBVIOUS
<1>1. CASE MuxStart
  <2>. DEFINE q == IF mux.open THEN Append(mux.toDev, "DISCOVER") ELSE mux.toDev
  <2>1. /\ mux' = [mux EXCEPT !.toDev = q]
        /\ disc' = Started(disc, "mux") /\ ~disc["mux"].started
        /\ disc["mux"].run < MaxRuns /\ Len(mux.toDev) < MaxQueue
        /\ UNCHANGED <<listed, told, used, net, avahi, turns>>
    BY <1>1 DEF MuxStart
  <2>2. q \in Seq({"DISCOVER"}) /\ Len(q) <= MaxQueue
    <3>1. /\ Append(mux.toDev, "DISCOVER") \in Seq({"DISCOVER"})
          /\ Len(Append(mux.toDev, "DISCOVER")) = Len(mux.toDev) + 1
      BY <1>0
    <3>. QED  BY <1>0, <2>1, <3>1
  <2>. HIDE DEF q
  <2>3. mux' \in MuxSet /\ mux'.toCtl = mux.toCtl /\ mux'.toDev = q
    BY <1>0, <2>1, <2>2 DEF MuxSet
  <2>4. disc' \in [Discs -> DiscSet] /\ DiscStep
    BY <2>1, StartedIs
  <2>. QED  BY <1>0, <2>1, <2>2, <2>3, <2>4, NothingListed DEF MuxStep, Types
<1>2. CASE MuxStop
  <2>1. /\ disc' = Stopped(disc, "mux")
        /\ UNCHANGED <<listed, told, used, mux, net, avahi, turns>>
    BY <1>2 DEF MuxStop
  <2>2. disc' \in [Discs -> DiscSet] /\ DiscStep
    BY <2>1, StoppedIs
  <2>. QED  BY <2>1, <2>2, NothingListed DEF MuxStep, Types
<1>3. CASE MuxReset
  <2>1. /\ mux' = [mux EXCEPT !.open = FALSE, !.toCtl = << >>, !.toDev = << >>]
        /\ disc' = Started(Stopped(disc, "mux"), "mux") /\ disc["mux"].run < MaxRuns
        /\ UNCHANGED <<listed, told, used, net, avahi, turns>>
    BY <1>3 DEF MuxReset
  <2>2. mux' \in MuxSet /\ mux'.toCtl = << >> /\ mux'.toDev = << >>
    BY <1>0, <1>e, <2>1 DEF MuxSet
  <2>3. disc' \in [Discs -> DiscSet] /\ DiscStep
    BY <2>1, StartedIs
  <2>4. Len(mux'.toCtl) = 0 /\ Len(mux'.toDev) = 0
    BY <2>2
  <2>. QED  BY <2>1, <2>2, <2>3, <2>4, NothingListed DEF MuxStep, Types
<1>4. CASE MuxNew
  <2>1. DiscNew("mux") /\ UNCHANGED <<used, mux, net, avahi, turns>>
    BY <1>4 DEF MuxNew
  <2>. QED  BY <2>1, DiscNewIs DEF MuxStep, Types
<1>5. CASE MuxDestroy
  <2>1. /\ DiscDestroy("mux") /\ UNCHANGED <<used, net, avahi, turns>>
        /\ mux' = [mux EXCEPT !.toCtl = << >>]
    BY <1>5 DEF MuxDestroy
  <2>2. mux' \in MuxSet /\ mux'.toCtl = << >> /\ mux'.toDev = mux.toDev
    BY <1>0, <1>e, <2>1 DEF MuxSet
  <2>3. Len(mux'.toCtl) = 0
    BY <1>e, <2>2
  <2>4. ListStep(Listers) /\ disc' \in [Discs -> DiscSet] /\ DiscStep
    BY <2>1, DiscDestroyIs
  <2>. QED  BY <1>0, <2>1, <2>2, <2>3, <2>4 DEF MuxStep, Types
<1>. QED  BY <1>1, <1>2, <1>3, <1>4, <1>5, MuxPublisherStep, MuxLoopStep DEF MuxNext

\* The network's discovery lists what it receives, and forgets it, in three
\* actions.
NetStep ==
    /\ Types' /\ ListStep(Discs) /\ DiscStep
    /\ \/ NetReceive \/ NetDisconnected \/ NetStop
       \/ net'.known = net.known /\ ListStep(Listers)

LEMMA AnyLister ==
  ASSUME ListStep(Listers)
  PROVE  ListStep(Discs)
  BY DEF ListStep, Listers

LEMMA ForgetList ==
  ASSUME ListInv, Forget
  PROVE  ListStep(Discs)
<1>1. CASE net.known = Nobody
  BY <1>1 DEF Forget, ListStep
<1>2. CASE net.known # Nobody
  BY <1>2, RemoveList DEF Forget
<1>. QED  BY <1>1, <1>2

LEMMA NetNextStep ==
  ASSUME Types, ListInv, NetNext
  PROVE  NetStep
<1>. USE Limits, TheDiscs, DiscKept, NothingListed, AnyLister
<1>0. net \in NetSet
  BY DEF Types
<1>1. ASSUME NEW dev \in Devs, PubNetStart(dev)
      PROVE  NetStep
  <2>1. /\ net' = [net EXCEPT !.pub = dev]
        /\ turns' = [turns EXCEPT !["net"] = @ + 1] /\ turns["net"] < MaxTurns
        /\ UNCHANGED <<listed, disc, told, used, mux, avahi>>
    BY <1>1 DEF PubNetStart, ctrlVars
  <2>2. net' \in NetSet /\ net'.known = net.known
    BY <1>0, <2>1 DEF NetSet
  <2>3. turns' \in [Discs -> 0..MaxTurns]
    BY <2>1 DEF Types
  <2>. QED  BY <2>1, <2>2, <2>3 DEF NetStep, Types
<1>2. CASE PubNetStop
  <2>1. /\ net' = [net EXCEPT !.pub = Nobody,
                              !.conn = IF net.conn = "up" THEN "closed" ELSE net.conn]
        /\ UNCHANGED <<listed, disc, told, used, mux, avahi, turns>>
    BY <1>2 DEF PubNetStop, ctrlVars
  <2>2. net' \in NetSet /\ net'.known = net.known
    BY <1>0, <2>1 DEF NetSet
  <2>. QED  BY <2>1, <2>2 DEF NetStep, Types
<1>11. CASE PubNetVanish
  <2>1. /\ net' = [net EXCEPT !.pub = Nobody, !.conn = "dead"]
        /\ UNCHANGED <<listed, disc, told, used, mux, avahi, turns>>
    BY <1>11 DEF PubNetVanish, ctrlVars
  <2>2. net' \in NetSet /\ net'.known = net.known
    BY <1>0, <2>1 DEF NetSet
  <2>. QED  BY <2>1, <2>2 DEF NetStep, Types
<1>3. CASE PubNetSend
  <2>1. /\ net' = [net EXCEPT !.conn = "up", !.data = net.pub]
        /\ UNCHANGED <<listed, disc, told, used, mux, avahi, turns>>
    BY <1>3 DEF PubNetSend, ctrlVars
  <2>2. net' \in NetSet /\ net'.known = net.known
    BY <1>0, <2>1 DEF NetSet
  <2>. QED  BY <2>1, <2>2 DEF NetStep, Types
<1>4. CASE NetReceive
  <2>1. /\ net' = [net EXCEPT !.data = Nobody,
                     !.known = IF net.known = Nobody THEN net.data ELSE net.known]
        /\ UNCHANGED <<disc, used, mux, avahi, turns>> /\ net.data # Nobody
        /\ IF net.known # Nobody THEN UNCHANGED <<listed, told>>
           ELSE AddDevice("net", net.data)
    BY <1>4 DEF NetReceive
  <2>2. net' \in NetSet /\ net.data \in Devs
    BY <1>0, <2>1 DEF NetSet
  <2>3. ListStep(Discs)
    BY <2>1, <2>2 DEF ListStep
  <2>. QED  BY <1>4, <2>1, <2>2, <2>3 DEF NetStep, Types
<1>5. CASE NetDisconnected
  <2>1. /\ net' = [net EXCEPT !.conn = "trying", !.data = Nobody, !.known = Nobody]
        /\ UNCHANGED <<disc, used, mux, avahi, turns>> /\ Forget
    BY <1>5 DEF NetDisconnected
  <2>2. net' \in NetSet
    BY <1>0, <2>1 DEF NetSet
  <2>. QED  BY <1>5, <2>1, <2>2, ForgetList DEF NetStep, Types
<1>6. CASE NetBreaks
  <2>1. /\ net' = [net EXCEPT !.conn = "closed"]
        /\ turns' = [turns EXCEPT !["net"] = @ + 1] /\ turns["net"] < MaxTurns
        /\ UNCHANGED <<listed, disc, told, used, mux, avahi>>
    BY <1>6 DEF NetBreaks, ctrlVars
  <2>2. net' \in NetSet /\ net'.known = net.known
    BY <1>0, <2>1 DEF NetSet
  <2>3. turns' \in [Discs -> 0..MaxTurns]
    BY <2>1 DEF Types
  <2>. QED  BY <2>1, <2>2, <2>3 DEF NetStep, Types
<1>7. CASE NetStart
  <2>1. /\ net' = [net EXCEPT !.conn = "trying"]
        /\ disc' = Started(disc, "net") /\ ~disc["net"].started
        /\ disc["net"].run < MaxRuns
        /\ UNCHANGED <<listed, told, used, mux, avahi, turns>>
    BY <1>7 DEF NetStart
  <2>2. net' \in NetSet /\ net'.known = net.known
    BY <1>0, <2>1 DEF NetSet
  <2>3. disc' \in [Discs -> DiscSet] /\ DiscStep
    BY <2>1, StartedIs
  <2>. QED  BY <2>1, <2>2, <2>3 DEF NetStep, Types
<1>8. CASE NetStop
  <2>1. /\ net' = [net EXCEPT !.conn = "off", !.data = Nobody, !.known = Nobody]
        /\ disc' = Stopped(disc, "net") /\ Forget
        /\ UNCHANGED <<used, mux, avahi, turns>>
    BY <1>8 DEF NetStop
  <2>2. net' \in NetSet
    BY <1>0, <2>1 DEF NetSet
  <2>3. disc' \in [Discs -> DiscSet] /\ DiscStep
    BY <2>1, StoppedIs
  <2>. QED  BY <1>8, <2>1, <2>2, <2>3, ForgetList DEF NetStep, Types
<1>9. CASE NetNew
  <2>1. DiscNew("net") /\ UNCHANGED <<used, mux, net, avahi, turns>>
    BY <1>9 DEF NetNew
  <2>. QED  BY <2>1, DiscNewIs DEF NetStep, Types
<1>10. CASE NetDestroy
  <2>1. DiscDestroy("net") /\ UNCHANGED <<used, mux, net, avahi, turns>>
    BY <1>10 DEF NetDestroy
  <2>. QED  BY <2>1, DiscDestroyIs DEF NetStep, Types
<1>. QED  BY <1>1, <1>2, <1>3, <1>4, <1>5, <1>6, <1>7, <1>8, <1>9, <1>10, <1>11
          DEF NetNext, NetPublisher, NetLoop

LEMMA SetToSeqType ==
  ASSUME NEW S, IsFiniteSet(S)
  PROVE  SetToSeq(S) \in Seq(S)
<1>1. Cardinality(S) \in Nat /\ \E f \in [1..Cardinality(S) -> S] : IsInjective(f)
  BY FS_CardinalityType DEF ExistsBijection, Bijection, Injection
<1>2. SetToSeq(S) \in [1..Cardinality(S) -> S]
  BY <1>1 DEF SetToSeq
<1>. QED  BY <1>1, <1>2

\* What the browser tells first.
LEMMA FirstTellings ==
  ASSUME NEW serv \in SUBSET Devs, IsFiniteSet(serv)
  PROVE  SetToSeq({<<"NEW", d>> : d \in serv}) \in Seq(Tellings)
<1>. DEFINE S == {<<"NEW", d>> : d \in serv}
            f == [d \in serv |-> <<"NEW", d>>]
<1>1. f \in Surjection(serv, S)
  BY DEF Surjection
<1>2. S \subseteq Tellings
  BY DEF Tellings
<1>. HIDE DEF S, f
<1>3. IsFiniteSet(S)
  BY <1>1, FS_Surjection
<1>4. SetToSeq(S) \in Seq(Tellings)
  BY <1>2, <1>3, SetToSeqType, SeqMonotonic
<1>. QED  BY <1>4 DEF S

AvahiStep == Types' /\ ListStep(Listers) /\ DiscStep /\ net' = net

LEMMA AvahiNextStep ==
  ASSUME Types, ListInv, AvahiNext
  PROVE  AvahiStep
<1>. USE Limits, TheDiscs, DiscKept, NothingListed
<1>0. /\ avahi \in AvahiSet /\ avahi.events \in Seq(Tellings)
      /\ avahi.serv \in SUBSET Devs /\ IsFiniteSet(avahi.serv)
      /\ avahi.resolving \in SUBSET Devs
  BY DEF Types, AvahiSet
<1>1. \A kind \in {"NEW", "REMOVE"}, dev \in Devs : Event(kind, dev) \in Seq(Tellings)
  BY <1>0 DEF Event, Tellings
<1>2. ASSUME NEW dev \in Devs, ServiceUp(dev)
      PROVE  AvahiStep
  <2>1. /\ avahi' = [avahi EXCEPT !.serv = avahi.serv \cup {dev}, !.events = Event("NEW", dev)]
        /\ turns' = [turns EXCEPT !["avahi"] = @ + 1] /\ turns["avahi"] < MaxTurns
        /\ UNCHANGED <<listed, disc, told, used, mux, net>>
    BY <1>2 DEF ServiceUp, ctrlVars
  <2>2. avahi.serv \cup {dev} \in SUBSET Devs /\ IsFiniteSet(avahi.serv \cup {dev})
    BY <1>0, FS_AddElement
  <2>3. avahi' \in AvahiSet
    BY <1>0, <1>1, <2>1, <2>2 DEF AvahiSet
  <2>4. turns' \in [Discs -> 0..MaxTurns]
    BY <2>1 DEF Types
  <2>. QED  BY <2>1, <2>3, <2>4 DEF AvahiStep, Types
<1>3. ASSUME NEW dev \in Devs, ServiceDown(dev)
      PROVE  AvahiStep
  <2>1. /\ avahi' = [avahi EXCEPT !.serv = avahi.serv \ {dev}, !.events = Event("REMOVE", dev)]
        /\ UNCHANGED <<listed, disc, told, used, mux, net, turns>>
    BY <1>3 DEF ServiceDown, ctrlVars
  <2>2. avahi.serv \ {dev} \in SUBSET Devs /\ IsFiniteSet(avahi.serv \ {dev})
    BY <1>0, FS_RemoveElement
  <2>3. avahi' \in AvahiSet
    BY <1>0, <1>1, <2>1, <2>2 DEF AvahiSet
  <2>. QED  BY <2>1, <2>3 DEF AvahiStep, Types
<1>4. CASE AvahiStart
  <2>. DEFINE events == SetToSeq({<<"NEW", d>> : d \in avahi.serv})
  <2>1. /\ avahi' = [avahi EXCEPT !.browsing = TRUE, !.events = events]
        /\ disc' = Started(disc, "avahi") /\ ~disc["avahi"].started
        /\ disc["avahi"].run < MaxRuns
        /\ UNCHANGED <<listed, told, used, mux, net, turns>>
    BY <1>4 DEF AvahiStart
  <2>2. events \in Seq(Tellings)
    BY <1>0, FirstTellings
  <2>. HIDE DEF events
  <2>3. avahi' \in AvahiSet
    BY <1>0, <2>1, <2>2 DEF AvahiSet
  <2>4. disc' \in [Discs -> DiscSet] /\ DiscStep
    BY <2>1, StartedIs
  <2>. QED  BY <2>1, <2>3, <2>4 DEF AvahiStep, Types
<1>5. CASE AvahiStop
  <2>1. /\ avahi' = [avahi EXCEPT !.browsing = FALSE, !.events = << >>]
        /\ disc' = Stopped(disc, "avahi")
        /\ UNCHANGED <<listed, told, used, mux, net, turns>>
    BY <1>5 DEF AvahiStop
  <2>2. << >> \in Seq(Tellings)
    OBVIOUS
  <2>3. avahi' \in AvahiSet
    BY <1>0, <2>1, <2>2 DEF AvahiSet
  <2>4. disc' \in [Discs -> DiscSet] /\ DiscStep
    BY <2>1, StoppedIs
  <2>. QED  BY <2>1, <2>3, <2>4 DEF AvahiStep, Types
<1>6. ASSUME avahi.events # << >>
      PROVE  Head(avahi.events)[2] \in Devs /\ Tail(avahi.events) \in Seq(Tellings)
  <2>1. Head(avahi.events) \in Tellings /\ Tail(avahi.events) \in Seq(Tellings)
    BY <1>0, <1>6, QueueTail
  <2>. QED  BY <2>1 DEF Tellings
<1>7. CASE BrowserNew
  <2>1. /\ avahi.events # << >>
        /\ avahi' = [avahi EXCEPT !.events = Tail(avahi.events),
                       !.resolving = avahi.resolving \cup {Head(avahi.events)[2]}]
        /\ UNCHANGED <<listed, disc, told, used, mux, net, turns>>
    BY <1>7 DEF BrowserNew, ctrlVars
  <2>2. /\ Tail(avahi.events) \in Seq(Tellings)
        /\ avahi.resolving \cup {Head(avahi.events)[2]} \in SUBSET Devs
    BY <1>0, <1>6, <2>1
  <2>3. avahi' \in AvahiSet
    BY <1>0, <2>1, <2>2 DEF AvahiSet
  <2>. QED  BY <2>1, <2>3 DEF AvahiStep, Types
<1>8. CASE BrowserRemove
  <2>1. /\ avahi.events # << >>
        /\ avahi' = [avahi EXCEPT !.events = Tail(avahi.events)]
        /\ RemoveDevice("avahi", Head(avahi.events)[2].name, "")
        /\ UNCHANGED <<disc, used, mux, net, turns>>
    BY <1>8 DEF BrowserRemove
  <2>2. Tail(avahi.events) \in Seq(Tellings)
    BY <1>6, <2>1
  <2>3. avahi' \in AvahiSet
    BY <1>0, <2>1, <2>2 DEF AvahiSet
  <2>4. ListStep(Listers)
    BY <2>1, RemoveList
  <2>. QED  BY <2>1, <2>3, <2>4 DEF AvahiStep, Types
<1>9. ASSUME NEW dev \in Devs, ResolverFound(dev)
       PROVE  AvahiStep
  <2>1. /\ AddDevice("avahi", dev)
        /\ avahi' = [avahi EXCEPT !.resolving = avahi.resolving \ {dev}]
        /\ UNCHANGED <<disc, used, mux, net, turns>>
    BY <1>9 DEF ResolverFound
  <2>2. avahi' \in AvahiSet
    BY <1>0, <2>1 DEF AvahiSet
  <2>3. ListStep(Listers)
    BY <2>1 DEF ListStep, Listers
  <2>. QED  BY <2>1, <2>2, <2>3 DEF AvahiStep, Types
<1>10. ASSUME NEW dev \in Devs, ResolverFailure(dev)
       PROVE  AvahiStep
  <2>1. /\ avahi' = [avahi EXCEPT !.resolving = avahi.resolving \ {dev}]
        /\ UNCHANGED <<listed, disc, told, used, mux, net, turns>>
    BY <1>10 DEF ResolverFailure, ctrlVars
  <2>2. avahi' \in AvahiSet
    BY <1>0, <2>1 DEF AvahiSet
  <2>. QED  BY <2>1, <2>2 DEF AvahiStep, Types
<1>11. CASE AvahiNew
  <2>1. DiscNew("avahi") /\ UNCHANGED <<used, mux, net, avahi, turns>>
    BY <1>11 DEF AvahiNew
  <2>. QED  BY <2>1, DiscNewIs DEF AvahiStep, Types
<1>12. CASE AvahiDestroy
  <2>1. /\ DiscDestroy("avahi") /\ UNCHANGED <<used, mux, net, turns>>
        /\ avahi' = [avahi EXCEPT !.resolving = {}]
    BY <1>12 DEF AvahiDestroy
  <2>2. avahi' \in AvahiSet
    BY <1>0, <2>1 DEF AvahiSet
  <2>. QED  BY <2>1, <2>2, DiscDestroyIs DEF AvahiStep, Types
<1>. QED  BY <1>2, <1>3, <1>4, <1>5, <1>7, <1>8, <1>9, <1>10, <1>11, <1>12
          DEF AvahiNext, AvahiLoop

-----------------------------------------------------------------------------
LEMMA EveryStep ==
  ASSUME Types, ListInv, [Next]_vars
  PROVE  NetStep
<1>. USE TheDiscs, DiscKept, NothingListed, AnyLister
<1>1. CASE MuxNext
  BY <1>1, MuxNextStep DEF MuxStep, NetStep
<1>2. CASE AvahiNext
  BY <1>2, AvahiNextStep DEF AvahiStep, NetStep
<1>3. ASSUME NEW k \in Discs, Timer(k), UNCHANGED <<used, mux, net, avahi, turns>>
      PROVE  NetStep
  <2>1. disc' = [disc EXCEPT ![k].timer = FALSE]
    BY <1>3 DEF Timer
  <2>2. \E gone \in SUBSET ToSet(listed) : Destroy(gone)
    BY <1>3 DEF Timer
  <2>3. disc' \in [Discs -> DiscSet] /\ DiscStep
    BY <1>3, <2>1, StoppedIs
  <2>. QED  BY <1>3, <2>2, <2>3 DEF NetStep, Types, ListStep
<1>4. ASSUME NEW k \in Discs, UnregisterBackend(k), UNCHANGED <<used, mux, net, avahi, turns>>
      PROVE  NetStep
  <2>1. UNCHANGED disc
    BY <1>4 DEF UnregisterBackend
  <2>2. \E gone \in SUBSET ToSet(listed) : Destroy(gone)
    BY <1>4 DEF UnregisterBackend
  <2>. QED  BY <1>4, <2>1, <2>2 DEF NetStep, Types, ListStep
<1>5. ASSUME DeviceNext, UNCHANGED <<used, mux, net, avahi, turns>>
      PROVE  NetStep
  <2>1. UNCHANGED disc
    BY <1>5, DeviceList DEF DeviceMoved
  <2>. QED  BY <1>5, <2>1 DEF NetStep, Types, ListStep
<1>6. CASE UNCHANGED vars
  BY <1>6 DEF vars, ctrlVars, NetStep, Types
<1>. QED  BY <1>1, <1>2, <1>3, <1>4, <1>5, <1>6, NetNextStep DEF Next, Purge

LEMMA ListKept ==
  ASSUME Types, ListInv, ListStep(Discs)
  PROVE  ListInv'
<1>1. CASE UNCHANGED <<listed, told>>
  BY <1>1 DEF ListInv, ListedOnce, EndToldBeforeGone, Taken, ToldIs, NoItfWithoutConn
<1>2. ASSUME NEW k \in Discs, NEW dev \in Devs, AddDevice(k, dev)
      PROVE  ListInv'
  <2>1. disc[k].run \in 0..MaxRuns
    BY DEF Types, DiscSet
  <2>. QED  BY <1>2, <2>1, AddList
<1>. QED  BY <1>1, <1>2, DestroyList, DisownedList, DeviceList DEF ListStep

\* Who is in the list of a discovery was already, with the same number, but
\* for one that it has just found.
Rows(k) ==
    \A n \in 1..Len(listed') :
      listed'[n].by = k =>
        \/ listed'[n].run = disc'[k].run
        \/ \E i \in 1..Len(listed) : listed[i].by = k /\ listed'[n].run = listed[i].run

LEMMA RowsAre ==
  ASSUME Types, ListInv, ListStep(Discs), NEW k \in Discs
  PROVE  Rows(k)
<1>0. listed \in Seq(Listed) /\ Len(listed) \in Nat /\ \A i \in 1..Len(listed) : listed[i] \in Listed
  BY ListParts DEF ListInv
<1>1. CASE UNCHANGED <<listed, told>>
  BY <1>1 DEF Rows
<1>2. ASSUME NEW j \in Discs, NEW dev \in Devs, AddDevice(j, dev), UNCHANGED disc
      PROVE  Rows(k)
  <2>1. CASE Renumbered(j, dev)
    <3>1. PICK i \in 1..Len(listed) :
            /\ SameDevice(listed[i], j, dev.name, dev.id)
            /\ listed' = [listed EXCEPT ![i] = [listed[i] EXCEPT !.run = disc[j].run]]
      BY <2>1 DEF Renumbered
    <3>. DEFINE e == [listed[i] EXCEPT !.run = disc[j].run]
    <3>2. /\ e.by = j /\ e.run = disc[j].run
      BY <1>0, <3>1 DEF Listed, SameDevice
    <3>. HIDE DEF e
    <3>3. \A n \in 1..Len(listed') :
            n \in 1..Len(listed) /\ listed'[n] = IF n = i THEN e ELSE listed[n]
      BY <1>0, <3>1 DEF e
    <3>. QED  BY <1>2, <3>2, <3>3 DEF Rows
  <2>2. CASE Listing(j, dev)
    <3>1. PICK h \in Handles \ Taken : listed' = Append(listed, Created(h, j, dev))
      BY <2>2 DEF Listing
    <3>. DEFINE e == Created(h, j, dev)
    <3>2. e.by = j /\ e.run = disc[j].run
      BY DEF Created
    <3>. HIDE DEF e
    <3>3. \A n \in 1..Len(listed') :
            (n \in 1..Len(listed) /\ listed'[n] = listed[n]) \/ listed'[n] = e
      BY <1>0, <3>1 DEF e
    <3>. QED  BY <1>2, <3>2, <3>3 DEF Rows
  <2>. QED  BY <1>2, <2>1, <2>2, AddIs
<1>3. ASSUME NEW gone \in SUBSET ToSet(listed), Destroy(gone)
      PROVE  Rows(k)
  BY <1>3, DestroyList DEF Rows
<1>4. ASSUME NEW j \in Discs, listed' = Disowned(j), told' = told
      PROVE  Rows(k)
  <2>1. k # "none"
    BY NoDisc DEF NoneIsNoDisc
  <2>. QED  BY <1>4, <2>1, DisownedList DEF Rows
<1>5. CASE DeviceNext
  <2>1. PICK i \in 1..Len(listed), e \in Listed :
          /\ listed' = [listed EXCEPT ![i] = e]
          /\ e.by = listed[i].by /\ e.run = listed[i].run
    BY <1>5, DeviceList DEF DeviceMoved
  <2>2. \A n \in 1..Len(listed') :
          n \in 1..Len(listed) /\ listed'[n] = IF n = i THEN e ELSE listed[n]
    BY <1>0, <2>1
  <2>. QED  BY <2>1, <2>2 DEF Rows
<1>. QED  BY <1>1, <1>2, <1>3, <1>4, <1>5 DEF ListStep

\* Once the timer has fired only those of the current run are left.
LEMMA PurgeKept ==
  ASSUME Types, ListInv, PurgedAfterTimer, ListInv', ListStep(Discs), DiscStep
  PROVE  PurgedAfterTimer'
<1>. SUFFICES ASSUME NEW n \in 1..Len(listed'), NEW k \in Discs, listed'[n].by = k,
                     disc'[k].started, ~disc'[k].timer
              PROVE  listed'[n].run = disc'[k].run
  <2>1. \A n \in 1..Len(listed') : listed'[n].by \in Discs \cup {"none"}
    BY ListPartsNext DEF ListInv, Listed
  <2>. QED  BY <2>1, ListPartsNext DEF PurgedAfterTimer, ListInv
<1>1. ASSUME disc'[k] = disc[k]
      PROVE  listed'[n].run = disc'[k].run
  <2>1. \A i \in 1..Len(listed) : listed[i].by = k => listed[i].run = disc[k].run
    BY <1>1, ListParts, NoDisc DEF PurgedAfterTimer, ListInv, NoneIsNoDisc
  <2>. QED  BY <1>1, <2>1, RowsAre DEF Rows
<1>2. ASSUME Timer(k)
      PROVE  listed'[n].run = disc'[k].run
  <2>1. PICK i \in 1..Len(listed) :
          listed'[n] = listed[i] /\ listed[i] \notin {e \in ToSet(listed) : Stale(k, e)}
    BY <1>2, DestroyList DEF Timer
  <2>2. listed[i] \in ToSet(listed)
    BY ListParts DEF ToSet, ListInv
  <2>3. disc[k] \in DiscSet /\ disc' = [disc EXCEPT ![k].timer = FALSE]
    BY <1>2 DEF Types, Timer
  <2>4. disc'[k].run = disc[k].run
    BY <2>3 DEF Types, DiscSet
  <2>. QED  BY <2>1, <2>2, <2>4 DEF Stale
<1>. QED  BY <1>1, <1>2 DEF DiscStep

\* The network's discovery lists the device that it remembers.
NetKnown ==
    \A i \in 1..Len(listed) :
      listed[i].by = "net" => listed[i].dev = net.known /\ net.known # Nobody

\* What a discovery that lists nothing in this step has was already its own.
LEMMA DevsAre ==
  ASSUME Types, ListInv, ListStep(Listers)
  PROVE  \A n \in 1..Len(listed') : listed'[n].by = "net" =>
           \E i \in 1..Len(listed) : listed[i].by = "net" /\ listed'[n].dev = listed[i].dev
<1>. DEFINE Own == \A n \in 1..Len(listed') : listed'[n].by = "net" =>
           \E i \in 1..Len(listed) : listed[i].by = "net" /\ listed'[n].dev = listed[i].dev
<1>0. listed \in Seq(Listed) /\ Len(listed) \in Nat /\ \A i \in 1..Len(listed) : listed[i] \in Listed
  BY ListParts DEF ListInv
<1>1. ASSUME UNCHANGED <<listed, told>>
      PROVE  Own
  BY <1>1
<1>2. ASSUME NEW j \in Discs, j # "net", NEW dev \in Devs, AddDevice(j, dev)
      PROVE  Own
  <2>1. CASE Renumbered(j, dev)
    <3>1. PICK i \in 1..Len(listed) :
            listed' = [listed EXCEPT ![i] = [listed[i] EXCEPT !.run = disc[j].run]]
      BY <2>1 DEF Renumbered
    <3>. DEFINE e == [listed[i] EXCEPT !.run = disc[j].run]
    <3>2. /\ e.by = listed[i].by /\ e.dev = listed[i].dev
      BY <1>0, <3>1 DEF Listed
    <3>. HIDE DEF e
    <3>3. \A n \in 1..Len(listed') :
            n \in 1..Len(listed) /\ listed'[n] = IF n = i THEN e ELSE listed[n]
      BY <1>0, <3>1 DEF e
    <3>. QED  BY <3>2, <3>3
  <2>2. CASE Listing(j, dev)
    <3>1. PICK h \in Handles \ Taken : listed' = Append(listed, Created(h, j, dev))
      BY <2>2 DEF Listing
    <3>. DEFINE e == Created(h, j, dev)
    <3>2. e.by = j
      BY DEF Created
    <3>. HIDE DEF e
    <3>3. \A n \in 1..Len(listed') :
            (n \in 1..Len(listed) /\ listed'[n] = listed[n]) \/ listed'[n] = e
      BY <1>0, <3>1 DEF e
    <3>. QED  BY <1>2, <3>2, <3>3
  <2>. QED  BY <1>2, <2>1, <2>2, AddIs
<1>3. ASSUME NEW gone \in SUBSET ToSet(listed), Destroy(gone)
      PROVE  Own
  BY <1>3, DestroyList
<1>4. ASSUME NEW j \in Discs, listed' = Disowned(j), told' = told
      PROVE  Own
  BY <1>4, DisownedList
<1>5. ASSUME DeviceNext
      PROVE  Own
  <2>1. PICK i \in 1..Len(listed), e \in Listed :
          /\ listed' = [listed EXCEPT ![i] = e]
          /\ e.by = listed[i].by /\ e.dev = listed[i].dev
    BY <1>5, DeviceList DEF DeviceMoved
  <2>2. \A n \in 1..Len(listed') :
          n \in 1..Len(listed) /\ listed'[n] = IF n = i THEN e ELSE listed[n]
    BY <1>0, <2>1
  <2>. QED  BY <2>1, <2>2
<1>. HIDE DEF Own
<1>6. Own
  BY <1>1, <1>2, <1>3, <1>4, <1>5 DEF ListStep, Listers
<1>. QED  BY <1>6 DEF Own

\* One device at most is remembered, and it is the one that is removed.
LEMMA ForgetAll ==
  ASSUME Types, ListInv, NetKnown, Forget
  PROVE  \A n \in 1..Len(listed') : listed'[n].by # "net"
<1>0. listed \in Seq(Listed) /\ DOMAIN listed = 1..Len(listed)
  BY ListParts DEF ListInv
<1>1. CASE net.known = Nobody
  BY <1>1 DEF Forget, NetKnown
<1>2. CASE net.known # Nobody
  <2>. DEFINE F == Found("net", net.known.name, net.known.id)
  <2>1. RemoveDevice("net", net.known.name, net.known.id)
    BY <1>2 DEF Forget
  <2>2. \A i \in 1..Len(listed) : listed[i].by = "net" => i \in F
    BY <1>0 DEF NetKnown, Found, SameDevice
  <2>3. CASE F = {}
    <3>1. UNCHANGED <<listed, told>>
      BY <2>1, <2>3 DEF RemoveDevice
    <3>. QED  BY <2>2, <2>3, <3>1
  <2>4. CASE F # {}
    <3>. DEFINE f == First(F)
    <3>1. Destroy({listed[f]})
      BY <2>1, <2>4 DEF RemoveDevice
    <3>2. f \in 1..Len(listed) /\ listed[f].by = "net"
      <4>1. /\ f \in 1..Len(listed)
            /\ SameDevice(listed[f], "net", net.known.name, net.known.id)
        BY <2>4, FoundIs
      <4>. HIDE DEF f
      <4>. QED  BY <4>1 DEF SameDevice
    <3>3. \A n \in 1..Len(listed') : \E i \in 1..Len(listed) :
            listed'[n] = listed[i] /\ listed[i] # listed[f]
      BY <1>0, <3>1, <3>2, DestroyList DEF ToSet
    <3>4. \A i \in 1..Len(listed) : listed[i].by = "net" => i = f
      <4>. SUFFICES ASSUME NEW i \in 1..Len(listed), listed[i].by = "net", i # f
                    PROVE  FALSE
        OBVIOUS
      <4>1. listed[i].dev = net.known /\ listed[f].dev = net.known
        BY <3>2 DEF NetKnown
      <4>. HIDE DEF f
      <4>2. Distinct(listed[i].dev, listed[f].dev)
        BY <1>0, <3>2 DEF ListInv, ListedOnce
      <4>. QED  BY <4>1, <4>2 DEF Distinct
    <3>. HIDE DEF f
    <3>. QED  BY <3>3, <3>4
  <2>. QED  BY <2>3, <2>4
<1>. QED  BY <1>1, <1>2

LEMMA NetKept ==
  ASSUME Types, ListInv, NetKnown, NetStep
  PROVE  NetKnown'
<1>0. listed \in Seq(Listed) /\ Len(listed) \in Nat /\ \A i \in 1..Len(listed) : listed[i] \in Listed
  BY ListParts DEF ListInv
<1>1. CASE net'.known = net.known /\ ListStep(Listers)
  BY <1>1, DevsAre DEF NetKnown
<1>2. CASE NetReceive
  <2>1. /\ net' = [net EXCEPT !.data = Nobody,
                     !.known = IF net.known = Nobody THEN net.data ELSE net.known]
        /\ net.data # Nobody /\ net \in NetSet
    BY <1>2 DEF NetReceive, Types
  <2>2. net'.known = IF net.known = Nobody THEN net.data ELSE net.known
    BY <2>1 DEF NetSet
  <2>3. CASE net.known # Nobody
    <3>1. UNCHANGED <<listed, told>>
      BY <1>2, <2>3 DEF NetReceive
    <3>. QED  BY <2>2, <2>3, <3>1 DEF NetKnown
  <2>4. CASE net.known = Nobody
    <3>1. AddDevice("net", net.data)
      BY <1>2, <2>4 DEF NetReceive
    <3>2. \A i \in 1..Len(listed) : listed[i].by # "net"
      BY <2>4 DEF NetKnown
    <3>3. ~Renumbered("net", net.data)
      BY <3>2 DEF Renumbered, SameDevice
    <3>4. PICK h \in Handles : listed' = Append(listed, Created(h, "net", net.data))
      BY <3>1, <3>3, AddIs DEF Listing
    <3>. DEFINE e == Created(h, "net", net.data)
    <3>5. e.dev = net.data
      BY DEF Created
    <3>. HIDE DEF e
    <3>6. \A n \in 1..Len(listed') :
            (n \in 1..Len(listed) /\ listed'[n] = listed[n]) \/ listed'[n] = e
      BY <1>0, <3>4 DEF e
    <3>. QED  BY <2>1, <2>2, <2>4, <3>2, <3>5, <3>6 DEF NetKnown
  <2>. QED  BY <2>3, <2>4
<1>3. CASE NetDisconnected \/ NetStop
  <2>1. Forget
    BY <1>3 DEF NetDisconnected, NetStop
  <2>. QED  BY <2>1, ForgetAll DEF NetKnown
<1>. QED  BY <1>1, <1>2, <1>3 DEF NetStep

-----------------------------------------------------------------------------
Inv == Types /\ ListInv /\ PurgedAfterTimer /\ NetKnown

LEMMA InitInv == Init => Inv
<1>. SUFFICES ASSUME Init PROVE Inv
  OBVIOUS
<1>1. listed = << >> /\ Len(listed) = 0 /\ listed \in Seq(Listed) /\ told = {}
  BY DEF Init, CtrlInit
<1>2. ListInv
  BY <1>1 DEF ListInv, ListedOnce, EndToldBeforeGone, ToldIs, NoItfWithoutConn
<1>3. disc \in [Discs -> DiscSet]
  <2>1. 0 \in 0..MaxRuns
    BY Limits
  <2>. QED  BY <2>1 DEF Init, CtrlInit, NewDisc, DiscSet
<1>4. mux \in MuxSet /\ Len(mux.toCtl) = 0 /\ Len(mux.toDev) = 0
  BY DEF Init, MuxSet
<1>5. net \in NetSet
  BY DEF Init, NetSet
<1>6. avahi \in AvahiSet
  <2>1. IsFiniteSet({}) /\ << >> \in Seq(Tellings)
    BY FS_EmptySet
  <2>. QED  BY <2>1 DEF Init, AvahiSet
<1>7. turns \in [Discs -> 0..MaxTurns] /\ used \in Scenarios
  BY Limits DEF Init
<1>8. Types
  BY <1>3, <1>4, <1>5, <1>6, <1>7, Limits DEF Types
<1>. QED  BY <1>1, <1>2, <1>8 DEF Inv, PurgedAfterTimer, NetKnown

LEMMA NextInv == Inv /\ [Next]_vars => Inv'
  BY EveryStep, ListKept, PurgeKept, NetKept DEF Inv, NetStep

LEMMA SpecInv == Spec => []Inv
  BY InitInv, NextInv, PTL DEF Spec

\* There is a handle for each device of the list.
LEMMA ListFits ==
  ASSUME ListInv
  PROVE  Len(listed) <= Cardinality(Handles)
<1>. DEFINE f == [i \in 1..Len(listed) |-> listed[i].h]
<1>1. /\ Len(listed) \in Nat /\ DOMAIN listed = 1..Len(listed)
      /\ \A i \in 1..Len(listed) : listed[i].h \in Handles
  BY ListParts DEF ListInv, Listed
<1>2. f \in Injection(1..Len(listed), Handles)
  BY <1>1 DEF Injection, IsInjective, ListInv, ListedOnce
<1>3. Cardinality(1..Len(listed)) = Len(listed)
  BY <1>1, FS_Interval
<1>. QED  BY <1>2, <1>3, FS_Injection, HandlesAssumption

LEMMA InvSound == Inv => ListSound /\ ConnEndsFirst
<1>. SUFFICES ASSUME Inv PROVE ListSound /\ ConnEndsFirst
  OBVIOUS
<1>1. CtrlTypeOK
  <2>1. told \subseteq Handles
    <3>1. \A h \in told : \E i \in 1..Len(listed) : listed[i].h = h
      BY ListParts DEF Inv, ListInv
    <3>2. \A i \in 1..Len(listed) : listed[i].h \in Handles
      BY ListParts DEF Inv, ListInv, Listed
    <3>. QED  BY <3>1, <3>2
  <2>. QED  BY <2>1, ListFits, ListParts DEF Inv, ListInv, CtrlTypeOK, Types, DiscSet
<1>2. TypeOK
  BY <1>1 DEF Inv, Types, TypeOK, MuxSet, NetSet, AvahiSet
<1>3. NetListsKnown
  BY ListParts DEF Inv, ListInv, NetKnown, NetListsKnown
<1>. QED  BY <1>2, <1>3 DEF Inv, ListInv, ListSound, ConnEndsFirst

\* The list is sound, whatever is found, lost, found again, or found late: no
\* device is in it twice, what is stale goes when the timer fires, and the
\* network's discovery can always remove what it listed.
THEOREM ListIsSound == Spec => []ListSound
<1>1. Inv => ListSound
  BY InvSound
<1>. QED  BY <1>1, SpecInv, PTL

\* A device that is removed, or whose backend is, while it is used leaves
\* nothing of its connection: the application was told of the end of it, and no
\* interface is left of it.
THEOREM ConnectionsEndFirst == Spec => []ConnEndsFirst
<1>1. Inv => ConnEndsFirst
  BY InvSound
<1>. QED  BY <1>1, SpecInv, PTL
=============================================================================
