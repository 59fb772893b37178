---------------------------- MODULE Lifecycle_proofs ----------------------------
(***************************************************************************)
(* Proofs about Lifecycle, for any nodes, devices and configuration: the   *)
(* types, that a WacomCommonRec counts and lists exactly the devices that  *)
(* have it and is freed with the last of them, that the devices of one     *)
(* node share it, and that no device that is gone has the pointer.         *)
(***************************************************************************)
EXTENDS Lifecycle, TLAPS, FiniteSetTheorems, SequenceTheorems, WellFoundedInduction

-----------------------------------------------------------------------------
(***************************************************************************)
(* Lists of devices.                                                       *)
(***************************************************************************)

\* s lists the devices of S, each once.
Listing(s, S) == /\ s \in Seq(Devs)
                 /\ Entries(s) = S
                 /\ \A i, j \in DOMAIN s : s[i] = s[j] => i = j
                 /\ Len(s) = Cardinality(S)

LEMMA DevsFinite == ASSUME NEW S \in SUBSET Devs PROVE IsFiniteSet(S)
  BY LifecycleAssumption, FS_Subset

LEMMA HasOne ==
  ASSUME NEW S, IsFiniteSet(S), NEW d \in S
  PROVE  Cardinality(S) \in Nat /\ (Cardinality(S) = 1 <=> S = {d})
<1>1. Cardinality(S) = 1 <=> \E x : S = {x}
  BY FS_Singleton
<1>2. (\E x : S = {x}) <=> S = {d}
  OBVIOUS
<1> QED
  BY <1>1, <1>2, FS_CardinalityType

\* Where a device is in a list.
LEMMA PlaceOf ==
  ASSUME NEW S, NEW s, Listing(s, S), NEW x \in S
  PROVE  /\ Place(s, x) \in 1..Len(s)
         /\ s[Place(s, x)] = x
         /\ \A i \in 1..Len(s) : s[i] = x => i = Place(s, x)
<1>1. PICK i \in DOMAIN s : s[i] = x
  BY DEF Listing, Entries
<1>2. Place(s, x) \in DOMAIN s /\ s[Place(s, x)] = x
  BY <1>1 DEF Place
<1>3. DOMAIN s = 1..Len(s)
  BY DEF Listing
<1> QED
  BY <1>2, <1>3 DEF Listing

LEMMA DeleteType ==
  ASSUME NEW S, NEW s, Listing(s, S), NEW x \in S
  PROVE  /\ Delete(s, x) \in Seq(Devs)
         /\ Len(Delete(s, x)) = Len(s) - 1
         /\ \A i \in 1..(Len(s) - 1) :
              Delete(s, x)[i] = IF i < Place(s, x) THEN s[i] ELSE s[i + 1]
<1>1. x \in Entries(s) /\ s \in Seq(Devs)
  BY DEF Listing
<1>2. Place(s, x) \in 1..Len(s) /\ Len(s) \in Nat
  BY <1>1, PlaceOf
<1>3. Delete(s, x) = [i \in 1..(Len(s) - 1) |-> IF i < Place(s, x) THEN s[i] ELSE s[i + 1]]
  BY <1>1 DEF Delete
<1>4. \A i \in 1..(Len(s) - 1) : (IF i < Place(s, x) THEN s[i] ELSE s[i + 1]) \in Devs
  BY <1>1, <1>2
<1>5. Len(s) - 1 \in Nat
  BY <1>2
<1> HIDE DEF Listing
<1> QED
  BY <1>3, <1>4, <1>5

\* Delete removes a device from a list and from what it lists.
LEMMA DeleteListing ==
  ASSUME NEW S \in SUBSET Devs, NEW s, Listing(s, S), NEW x \in S
  PROVE  Listing(Delete(s, x), S \ {x})
<1> DEFINE t == Delete(s, x)
           p == Place(s, x)
<1>1. /\ p \in 1..Len(s) /\ s[p] = x /\ Len(s) \in Nat
      /\ \A i \in 1..Len(s) : s[i] = x => i = p
      /\ s \in Seq(Devs) /\ DOMAIN s = 1..Len(s)
      /\ \A i, j \in 1..Len(s) : s[i] = s[j] => i = j
      /\ S = {s[i] : i \in 1..Len(s)}
  BY PlaceOf DEF Listing, Entries
<1>2. /\ t \in Seq(Devs) /\ Len(t) = Len(s) - 1 /\ DOMAIN t = 1..(Len(s) - 1)
      /\ \A i \in 1..(Len(s) - 1) : t[i] = IF i < p THEN s[i] ELSE s[i + 1]
  BY DeleteType
<1> HIDE DEF t, p
<1>3. \A i, j \in DOMAIN t : t[i] = t[j] => i = j
  BY <1>1, <1>2
<1>4. {t[i] : i \in DOMAIN t} = S \ {x}
  <2>1. ASSUME NEW i \in DOMAIN t PROVE t[i] \in S \ {x}
    BY <1>1, <1>2, <2>1
  <2>2. ASSUME NEW y \in S \ {x} PROVE \E i \in DOMAIN t : t[i] = y
    <3>1. PICK i \in 1..Len(s) : s[i] = y
      BY <1>1
    <3>2. CASE i < p
      BY <3>1, <3>2, <1>1, <1>2
    <3>3. CASE i > p
      <4>1. i - 1 \in DOMAIN t /\ ~(i - 1 < p) /\ (i - 1) + 1 = i
        BY <3>1, <3>3, <1>1, <1>2
      <4> QED
        BY <4>1, <3>1, <1>2
    <3>4. i # p
      BY <3>1, <1>1
    <3> QED
      BY <3>1, <3>2, <3>3, <3>4, <1>1
  <2> QED
    BY <2>1, <2>2
<1>5. Cardinality(S \ {x}) = Cardinality(S) - 1
  BY DevsFinite, FS_RemoveElement
<1>6. Len(s) = Cardinality(S)
  BY DEF Listing
<1> QED
  BY <1>2, <1>3, <1>4, <1>5, <1>6 DEF Listing, Entries, t

\* What is not listed cannot be deleted.
LEMMA DeleteOther ==
  ASSUME NEW S, NEW s, Listing(s, S), NEW x, x \notin S
  PROVE  Delete(s, x) = s
  BY DEF Listing, Delete

\* Without its first entry, a list is what follows that entry.
LEMMA AfterFirst ==
  ASSUME NEW S \in SUBSET Devs, NEW s, Listing(s, S), NEW x \in S, s[1] = x
  PROVE  /\ After(s, x) = Delete(s, x)
         /\ Delete(After(s, x), x) = Delete(s, x)
<1>1. Place(s, x) \in 1..Len(s) /\ Len(s) \in Nat
  BY PlaceOf DEF Listing
<1>2. Place(s, x) = 1
  BY PlaceOf, <1>1
<1>3. x \in Entries(s)
  BY DEF Listing
<1>4. \A i \in 1..(Len(s) - 1) : ~(i < 1) /\ 1 + i = i + 1
  BY <1>1
<1>5. After(s, x) = Delete(s, x)
  BY <1>2, <1>3, <1>4 DEF After, Delete
<1>6. Listing(Delete(s, x), S \ {x})
  BY DeleteListing
<1>7. Delete(Delete(s, x), x) = Delete(s, x)
  BY <1>6, DeleteOther
<1> QED
  BY <1>5, <1>7

\* A device that goes first, or last.
LEMMA ConsListing ==
  ASSUME NEW S \in SUBSET Devs, NEW s, Listing(s, S), NEW x \in Devs, x \notin S
  PROVE  Listing(<<x>> \o s, S \cup {x}) /\ (<<x>> \o s)[1] = x
<1> DEFINE t == <<x>> \o s
<1>1. s \in Seq(Devs) /\ Len(s) \in Nat
  BY DEF Listing
<1>2. /\ t \in Seq(Devs) /\ Len(t) = Len(s) + 1 /\ t[1] = x
      /\ \A i \in 1..Len(s) : t[i + 1] = s[i]
  BY <1>1
<1> HIDE DEF t
<1>3. \A i \in 2..Len(t) : t[i] = s[i - 1] /\ i - 1 \in 1..Len(s)
  <2> TAKE i \in 2..Len(t)
  <2>1. i - 1 \in 1..Len(s) /\ (i - 1) + 1 = i
    BY <1>1, <1>2
  <2> QED
    BY <2>1, <1>2
<1>4. \A i \in 1..Len(s) : s[i] \in S
  BY DEF Listing, Entries
<1>5. \A i, j \in 1..Len(s) : s[i] = s[j] => i = j
  BY DEF Listing
<1>6. \A i, j \in DOMAIN t : t[i] = t[j] => i = j
  <2> SUFFICES ASSUME NEW i \in 1..Len(t), NEW j \in 1..Len(t), t[i] = t[j] PROVE i = j
    BY <1>2
  <2>1. CASE i = 1 \/ j = 1
    BY <2>1, <1>1, <1>2, <1>3, <1>4
  <2>2. CASE i # 1 /\ j # 1
    BY <2>2, <1>1, <1>2, <1>3, <1>5
  <2> QED
    BY <2>1, <2>2
<1>7. {t[i] : i \in DOMAIN t} = S \cup {x}
  <2>1. ASSUME NEW i \in DOMAIN t PROVE t[i] \in S \cup {x}
    BY <2>1, <1>1, <1>2, <1>3, <1>4
  <2>2. ASSUME NEW y \in S PROVE \E i \in DOMAIN t : t[i] = y
    <3>1. PICK i \in 1..Len(s) : s[i] = y
      BY DEF Listing, Entries
    <3>2. i + 1 \in DOMAIN t
      BY <1>1, <1>2
    <3> QED
      BY <3>1, <3>2, <1>2
  <2>3. 1 \in DOMAIN t
    BY <1>1, <1>2
  <2> QED
    BY <2>1, <2>2, <2>3, <1>2
<1>8. Cardinality(S \cup {x}) = Cardinality(S) + 1
  BY DevsFinite, FS_AddElement
<1>9. Len(s) = Cardinality(S)
  BY DEF Listing
<1> QED
  BY <1>2, <1>6, <1>7, <1>8, <1>9 DEF Listing, Entries, t

LEMMA AppendListing ==
  ASSUME NEW S \in SUBSET Devs, NEW s, Listing(s, S), NEW x \in Devs, x \notin S
  PROVE  Listing(Append(s, x), S \cup {x})
<1> DEFINE t == Append(s, x)
<1>1. s \in Seq(Devs) /\ Len(s) \in Nat
  BY DEF Listing
<1>2. /\ t \in Seq(Devs) /\ Len(t) = Len(s) + 1 /\ t[Len(s) + 1] = x
      /\ \A i \in 1..Len(s) : t[i] = s[i]
  BY <1>1
<1> HIDE DEF t
<1>3. \A i \in 1..Len(s) : s[i] \in S
  BY DEF Listing, Entries
<1>4. \A i, j \in 1..Len(s) : s[i] = s[j] => i = j
  BY DEF Listing
<1>5. \A i, j \in DOMAIN t : t[i] = t[j] => i = j
  <2> SUFFICES ASSUME NEW i \in 1..Len(t), NEW j \in 1..Len(t), t[i] = t[j] PROVE i = j
    BY <1>2
  <2>1. CASE i = Len(s) + 1 \/ j = Len(s) + 1
    BY <2>1, <1>1, <1>2, <1>3
  <2>2. CASE i # Len(s) + 1 /\ j # Len(s) + 1
    BY <2>2, <1>1, <1>2, <1>4
  <2> QED
    BY <2>1, <2>2
<1>6. {t[i] : i \in DOMAIN t} = S \cup {x}
  <2>1. ASSUME NEW i \in DOMAIN t PROVE t[i] \in S \cup {x}
    BY <2>1, <1>1, <1>2, <1>3
  <2>2. ASSUME NEW y \in S PROVE \E i \in DOMAIN t : t[i] = y
    <3>1. PICK i \in 1..Len(s) : s[i] = y
      BY DEF Listing, Entries
    <3>2. i \in DOMAIN t
      BY <1>1, <1>2
    <3> QED
      BY <3>1, <3>2, <1>2
  <2>3. Len(s) + 1 \in DOMAIN t
    BY <1>1, <1>2
  <2> QED
    BY <2>1, <2>2, <2>3, <1>2
<1>7. Cardinality(S \cup {x}) = Cardinality(S) + 1
  BY DevsFinite, FS_AddElement
<1>8. Len(s) = Cardinality(S)
  BY DEF Listing
<1> QED
  BY <1>2, <1>5, <1>6, <1>7, <1>8 DEF Listing, Entries, t

-----------------------------------------------------------------------------
(***************************************************************************)
(* The invariant.                                                          *)
(***************************************************************************)

\* d is not in PreInit, or not before wcmMatchDevice.
Done(d) == setup = Null \/ setup.dev # d
Matched(d) == setup = Null \/ setup.dev # d \/ setup.step # "path"

\* The books of a WacomCommonRec: its count, its list and its tools.
Kept(c) == /\ Holders(c) # {}
           /\ Listing(tab[c].devices, Holders(c))
           /\ tab[c].refcnt = Cardinality(Holders(c))
           /\ tab[c].tools \subseteq Holders(c)
           /\ \A d \in Holders(c) : Done(d) => d \in tab[c].tools

\* The device in PreInit is the first of its list, with a tablet of its own before
\* wcmMatchDevice and among the tools in the end.
SetupFirst ==
  setup # Null =>
    /\ Own(setup.dev).devices[1] = setup.dev
    /\ setup.step = "path" => Holders(dev[setup.dev].common) = {setup.dev}
    /\ setup.step = "ready" => setup.dev \in Own(setup.dev).tools

\* What is matched shares its tablet with the rest of its node.
Shared == \A d, e \in Used : /\ Matched(d) /\ Matched(e)
                             /\ dev[d].node = dev[e].node
                             => dev[d].common = dev[e].common

Followed == active # Null => dev[active] # Null /\ Done(active)

Sound == /\ TypeOK
         /\ Listing(inputs, Used)
         /\ \A c \in Alive : Kept(c)
         /\ SetupFirst
         /\ Shared
         /\ Followed

LEMMA NullIs ==
  /\ Null \notin Devs /\ Null \notin Commons
  /\ Null \notin Devices /\ Null \notin Tabs
  /\ \A r \in [dev : Devs, step : Steps] : r # Null
  BY LifecycleAssumption

\* What At and IsSetUp say of the variable setup.
LEMMA AtIs ==
  ASSUME TypeOK, NEW d \in Devs, NEW step \in Steps
  PROVE  At(d, step) <=> setup # Null /\ setup.dev = d /\ setup.step = step
<1>1. [dev |-> d, step |-> step] # Null
  BY NullIs
<1>2. setup # Null => setup \in [dev : Devs, step : Steps]
  BY DEF TypeOK
<1> QED
  BY <1>1, <1>2 DEF At

LEMMA IsSetUpIs ==
  ASSUME TypeOK, NEW d \in Devs
  PROVE  IsSetUp(d) <=> dev[d] # Null /\ Done(d)
<1>1. setup # Null => setup.step \in Steps
  BY DEF TypeOK
<1> QED
  BY <1>1, AtIs DEF IsSetUp, Done

\* The record of a device, and that of its tablet.
LEMMA UsedType ==
  ASSUME TypeOK, NEW d \in Devs, dev[d] # Null
  PROVE  /\ d \in Used /\ dev[d] \in Devices
         /\ dev[d].common \in Alive /\ d \in Holders(dev[d].common)
         /\ tab[dev[d].common] \in Tabs
  BY DEF TypeOK, Used, Alive, Holders, Devices

LEMMA HoldersDevs == \A c : Holders(c) \in SUBSET Devs /\ Holders(c) \subseteq Used
  BY DEF Holders, Used

\* The lists and what is made of a device imply the properties.
LEMMA SoundImplies == Sound => CommonCounted /\ OnePort /\ ActiveLive
<1> SUFFICES ASSUME Sound PROVE CommonCounted /\ OnePort /\ ActiveLive
  OBVIOUS
<1> USE DEF Sound
<1>1. CommonCounted
  <2> SUFFICES ASSUME NEW c \in Alive
               PROVE  /\ tab[c].refcnt = Cardinality(Holders(c))
                      /\ Entries(tab[c].devices) = Holders(c)
                      /\ Len(tab[c].devices) = Cardinality(Holders(c))
                      /\ {d \in Holders(c) : IsSetUp(d)} \subseteq tab[c].tools
                      /\ tab[c].tools \subseteq Holders(c)
    BY DEF CommonCounted
  <2>1. Kept(c)
    OBVIOUS
  <2>2. \A d \in Holders(c) : IsSetUp(d) => Done(d)
    BY IsSetUpIs, HoldersDevs
  <2> QED
    BY <2>1, <2>2 DEF Kept, Listing
<1>2. OnePort
  <2>1. \A d \in Used : IsSetUp(d) => Matched(d)
    BY IsSetUpIs DEF Used, Matched, Done
  <2> QED
    BY <2>1 DEF OnePort, Shared
<1>3. ActiveLive
  BY IsSetUpIs DEF ActiveLive, Followed, TypeOK
<1> QED
  BY <1>1, <1>2, <1>3

LEMMA SoundInit == Init => Sound
<1> SUFFICES ASSUME Init PROVE Sound
  OBVIOUS
<1>1. Used = {} /\ Alive = {} /\ setup = Null /\ active = Null /\ inputs = <<>>
  BY DEF Init, Used, Alive
<1>2. TypeOK
  BY <1>1, NullIs, LifecycleAssumption DEF Init, TypeOK, Requests
<1>3. Listing(inputs, Used)
  BY <1>1, FS_EmptySet DEF Listing, Entries
<1> QED
  BY <1>1, <1>2, <1>3 DEF Sound, SetupFirst, Shared, Followed

-----------------------------------------------------------------------------
(***************************************************************************)
(* Steps that leave the books alone.                                       *)
(***************************************************************************)

\* No device is added, removed or moved to another tablet, and of the tablets
\* neither count nor list changes.
Quiet ==
  /\ dev' \in [Devs -> Devices \cup {Null}]
  /\ tab' \in [Commons -> Tabs \cup {Null}]
  /\ inputs' = inputs
  /\ \A d \in Devs : /\ dev'[d] = Null <=> dev[d] = Null
                     /\ dev[d] # Null => /\ dev'[d].common = dev[d].common
                                         /\ dev'[d].node = dev[d].node
  /\ \A c \in Commons : /\ tab'[c] = Null <=> tab[c] = Null
                        /\ tab[c] # Null => /\ tab'[c].devices = tab[c].devices
                                            /\ tab'[c].refcnt = tab[c].refcnt

LEMMA QuietSets ==
  ASSUME TypeOK, Quiet
  PROVE  /\ Used' = Used /\ Alive' = Alive
         /\ \A c : Holders(c)' = Holders(c)
         /\ \A d \in Used : Own(d)'.devices = Own(d).devices /\ dev[d].common \in Alive
<1>1. Used' = Used /\ Alive' = Alive
  BY DEF Quiet, Used, Alive
<1>2. ASSUME NEW c PROVE Holders(c)' = Holders(c)
  BY <1>1 DEF Quiet, Holders, Used
<1>3. \A d \in Used : Own(d)'.devices = Own(d).devices /\ dev[d].common \in Alive
  BY UsedType DEF Quiet, Own, Used, Alive
<1> QED
  BY <1>1, <1>2, <1>3

\* Such a step keeps the books if it does not touch the tools either, and PreInit
\* stays where it is.
LEMMA QuietSound ==
  ASSUME Sound, TypeOK', Quiet, setup' = setup, Followed',
         \A c \in Alive : tab'[c].tools = tab[c].tools
  PROVE  Sound'
<1> USE DEF Sound
<1>1. /\ Used' = Used /\ Alive' = Alive /\ inputs' = inputs
      /\ \A c : Holders(c)' = Holders(c)
      /\ \A d \in Used : Own(d)'.devices = Own(d).devices /\ dev[d].common \in Alive
      /\ \A d \in Used : dev'[d].common = dev[d].common /\ dev'[d].node = dev[d].node
      /\ \A d : Done(d)' = Done(d) /\ Matched(d)' = Matched(d)
  BY QuietSets DEF Quiet, Used, Done, Matched
<1>2. ASSUME NEW c \in Alive PROVE Kept(c)'
  <2>1. /\ tab'[c].devices = tab[c].devices /\ tab'[c].refcnt = tab[c].refcnt
        /\ tab'[c].tools = tab[c].tools
    BY DEF Quiet, Alive
  <2>2. Kept(c)
    OBVIOUS
  <2> QED
    BY <1>1, <2>1, <2>2 DEF Kept
<1>3. SetupFirst'
  <2> SUFFICES ASSUME setup # Null
               PROVE  /\ Own(setup.dev)'.devices[1] = setup.dev
                      /\ setup.step = "path" => Holders(dev[setup.dev].common) = {setup.dev}
                      /\ setup.step = "ready" => setup.dev \in Own(setup.dev)'.tools
                      /\ dev'[setup.dev].common = dev[setup.dev].common
    BY <1>1 DEF SetupFirst
  <2>1. setup.dev \in Used
    BY DEF TypeOK, Used
  <2>2. Own(setup.dev)'.tools = Own(setup.dev).tools
    BY <1>1, <2>1 DEF Own
  <2> QED
    BY <1>1, <2>1, <2>2 DEF SetupFirst
<1>4. Shared'
  BY <1>1 DEF Shared
<1> QED
  BY <1>1, <1>2, <1>3, <1>4

-----------------------------------------------------------------------------
(***************************************************************************)
(* Devices that come and go.                                               *)
(***************************************************************************)

\* wcmUnInit of a device whose PreInit is over, or has just failed: its entries go,
\* and its tablet with it if nobody else has it.
LEMMA UnInitTab ==
  ASSUME Sound, NEW d \in Devs, dev[d] # Null, UnInit(d, tab)
  PROVE  LET c == dev[d].common
         IN /\ c \in Alive /\ d \in Holders(c) /\ Kept(c)
            /\ Holders(c) = {d} => tab' = [tab EXCEPT ![c] = Null]
            /\ Holders(c) # {d} =>
                 /\ tab' \in [Commons -> Tabs \cup {Null}]
                 /\ \A k \in Commons \ {c} : tab'[k] = tab[k]
                 /\ tab'[c] \in Tabs
                 /\ tab'[c].devices = Delete(tab[c].devices, d)
                 /\ tab'[c].tools = tab[c].tools \ {d}
                 /\ tab'[c].refcnt = tab[c].refcnt - 1
<1> USE DEF Sound
<1> DEFINE c == dev[d].common
           H == Holders(c)
           t == [tab EXCEPT ![c].tools = @ \ {d}, ![c].devices = Delete(@, d)]
<1>1. /\ c \in Alive /\ d \in H /\ tab[c] \in Tabs /\ c \in Commons
      /\ tab \in [Commons -> Tabs \cup {Null}]
  BY UsedType DEF Alive, TypeOK
<1>2. Kept(c)
  BY <1>1
<1>3. H \in SUBSET Devs /\ IsFiniteSet(H)
  BY HoldersDevs, DevsFinite
<1>4. Cardinality(H) \in Nat /\ (Cardinality(H) = 1 <=> H = {d})
  BY <1>1, <1>3, HasOne
<1>5. Cardinality(H) # 0
  BY <1>1, <1>3, FS_EmptySet
<1>6. tab[c].refcnt = Cardinality(H) /\ Listing(tab[c].devices, H)
  BY <1>2 DEF Kept
<1>7. /\ t \in [Commons -> Tabs \cup {Null}] /\ t[c] \in Tabs
      /\ t[c].devices = Delete(tab[c].devices, d)
      /\ t[c].tools = tab[c].tools \ {d}
      /\ t[c].refcnt = tab[c].refcnt
      /\ \A k \in Commons \ {c} : t[k] = tab[k]
  <2>1. Delete(tab[c].devices, d) \in Seq(Devs)
    BY <1>1, <1>3, <1>6, DeleteType
  <2> QED
    BY <1>1, <2>1 DEF Tabs
<1>8. tab' = IF t[c].refcnt = 1 THEN [t EXCEPT ![c] = Null]
             ELSE [t EXCEPT ![c].refcnt = @ - 1]
  BY DEF UnInit, Released
<1>9. CASE H = {d}
  <2>1. tab' = [t EXCEPT ![c] = Null]
    BY <1>4, <1>6, <1>7, <1>8, <1>9
  <2> HIDE DEF t
  <2>2. [t EXCEPT ![c] = Null] = [tab EXCEPT ![c] = Null]
    BY <1>1, <1>7
  <2> QED
    BY <1>1, <1>2, <1>9, <2>1, <2>2
<1>10. CASE H # {d}
  <2>1. tab[c].refcnt # 1 /\ tab[c].refcnt - 1 \in Nat
    BY <1>4, <1>5, <1>6, <1>10
  <2>2. tab' = [t EXCEPT ![c].refcnt = @ - 1]
    BY <1>7, <1>8, <2>1
  <2> HIDE DEF t
  <2> QED
    BY <1>1, <1>2, <1>7, <1>10, <2>1, <2>2 DEF Tabs
<1> QED
  BY <1>9, <1>10

LEMMA UnInitSound ==
  ASSUME Sound, NEW d \in Devs, dev[d] # Null, UnInit(d, tab),
         setup = Null \/ setup.dev = d, setup' = Null,
         todo' = todo, plugged' = plugged, faults' \in 0..MaxFaults
  PROVE  Sound'
<1> USE DEF Sound
<1>0. dev[d].common \in Commons
  BY UsedType DEF Alive
<1> PICK c \in Commons : c = dev[d].common
  BY <1>0
<1>1. /\ c \in Alive /\ d \in Holders(c) /\ Kept(c)
      /\ Holders(c) = {d} => tab' = [tab EXCEPT ![c] = Null]
      /\ Holders(c) # {d} =>
           /\ tab' \in [Commons -> Tabs \cup {Null}]
           /\ \A k \in Commons \ {c} : tab'[k] = tab[k]
           /\ tab'[c] \in Tabs
           /\ tab'[c].devices = Delete(tab[c].devices, d)
           /\ tab'[c].tools = tab[c].tools \ {d}
           /\ tab'[c].refcnt = tab[c].refcnt - 1
  BY UnInitTab
<1>2. /\ dev' = [dev EXCEPT ![d] = Null]
      /\ inputs' = Delete(inputs, d)
      /\ active' = IF active = d THEN Null ELSE active
  BY DEF UnInit
<1>3. /\ dev \in [Devs -> Devices \cup {Null}] /\ tab \in [Commons -> Tabs \cup {Null}]
      /\ c \in Commons /\ d \in Used /\ Used \in SUBSET Devs
  BY <1>1 DEF TypeOK, Alive, Used
<1>4. Used' = Used \ {d} /\ \A e \in Used \ {d} : dev'[e] = dev[e]
  BY <1>2, <1>3 DEF Used
<1>5. \A k : Holders(k)' = Holders(k) \ {d}
  BY <1>4 DEF Holders
<1>6. \A k : k # c => d \notin Holders(k)
  BY DEF Holders
<1>7. \A k \in Commons \ {c} : tab'[k] = tab[k]
  BY <1>1, <1>3
<1>8. Alive' = IF Holders(c) = {d} THEN Alive \ {c} ELSE Alive
  BY <1>1, <1>3, <1>7, NullIs DEF Alive
<1>9. \A k \in Alive' : k # c => k \in Alive /\ tab'[k] = tab[k] /\ Holders(k)' = Holders(k)
  BY <1>5, <1>6, <1>7, <1>8 DEF Alive
<1>10. Listing(inputs', Used')
  BY <1>2, <1>3, <1>4, DeleteListing
<1>11. TypeOK'
  <2>1. inputs' \in Seq(Devs)
    BY <1>10 DEF Listing
  <2>2. dev' \in [Devs -> Devices \cup {Null}] /\ active' \in Devs \cup {Null}
    BY <1>2, <1>3 DEF TypeOK
  <2>3. tab' \in [Commons -> Tabs \cup {Null}]
    BY <1>1, <1>3
  <2>4. ASSUME NEW e \in Devs, dev'[e] # Null PROVE tab'[dev'[e].common] # Null
    <3>1. e \in Used \ {d} /\ dev'[e] = dev[e]
      BY <1>2, <1>3, <2>4 DEF Used
    <3>2. dev[e].common \in Alive /\ e \in Holders(dev[e].common)
      BY <3>1, UsedType DEF Used
    <3>3. dev[e].common \in Alive'
      BY <1>8, <3>1, <3>2
    <3> QED
      BY <3>1, <3>3 DEF Alive
  <2> QED
    BY <2>1, <2>2, <2>3, <2>4 DEF TypeOK
<1>12. ASSUME NEW k \in Alive' PROVE Kept(k)'
  <2>1. \A e \in Used \ {d} : Done(e) /\ Done(e)'
    BY DEF Done
  <2>2. CASE k # c
    <3>1. k \in Alive /\ tab'[k] = tab[k] /\ Holders(k)' = Holders(k) /\ d \notin Holders(k)
      BY <1>6, <1>9, <2>2
    <3>2. Kept(k)
      BY <3>1
    <3>3. \A e \in Holders(k) : e \in Used \ {d}
      BY <3>1, HoldersDevs
    <3> QED
      BY <2>1, <3>1, <3>2, <3>3 DEF Kept
  <2>3. CASE k = c
    <3>1. Holders(c) # {d} /\ Holders(c)' = Holders(c) \ {d}
      BY <1>5, <1>8, <2>3
    <3>2. Listing(tab'[c].devices, Holders(c)')
      BY <1>1, <3>1, DeleteListing, HoldersDevs DEF Kept
    <3>3. tab'[c].refcnt = Cardinality(Holders(c)')
      BY <1>1, <3>1, FS_RemoveElement, HoldersDevs, DevsFinite DEF Kept
    <3>4. \A e \in Holders(c)' : e \in tab'[c].tools
      BY <1>1, <2>1, <3>1, HoldersDevs DEF Kept
    <3>5. tab'[c].tools \subseteq Holders(c)'
      BY <1>1, <3>1 DEF Kept
    <3> QED
      BY <1>1, <2>3, <3>1, <3>2, <3>3, <3>4, <3>5 DEF Kept
  <2> QED
    BY <2>2, <2>3
<1>13. SetupFirst'
  BY DEF SetupFirst
<1>14. Shared'
  <2>1. \A e \in Used \ {d} : Matched(e)
    BY DEF Matched
  <2> QED
    BY <1>4, <2>1 DEF Shared
<1>15. Followed'
  <2>1. active' # Null => active \in Devs \ {d} /\ dev[active] # Null
    BY <1>2 DEF Followed, TypeOK
  <2> QED
    BY <1>2, <1>3, <2>1 DEF Followed, Done
<1> QED
  BY <1>10, <1>11, <1>12, <1>13, <1>14, <1>15

\* "Restart the device list from the next one" is no more than wcmUnInit does, as the
\* device that fails is the first of its list.
LEMMA FailSound ==
  ASSUME Sound, NEW d \in Devs, NEW step \in Steps, At(d, step), Fail(d),
         faults' \in 0..MaxFaults
  PROVE  Sound'
<1> USE DEF Sound
<1>1. setup # Null /\ setup.dev = d /\ dev[d] # Null
  BY AtIs DEF TypeOK
<1> DEFINE c == dev[d].common
           t == [tab EXCEPT ![c].devices = After(@, d)]
<1>2. /\ c \in Alive /\ d \in Holders(c) /\ tab[c] \in Tabs /\ c \in Commons
      /\ tab \in [Commons -> Tabs \cup {Null}]
  BY <1>1, UsedType DEF Alive, TypeOK
<1>3. Listing(tab[c].devices, Holders(c)) /\ tab[c].devices[1] = d
  BY <1>1, <1>2 DEF Kept, SetupFirst, Own
<1>4. Delete(After(tab[c].devices, d), d) = Delete(tab[c].devices, d)
  BY <1>2, <1>3, AfterFirst, HoldersDevs
<1>5. [t EXCEPT ![c].tools = @ \ {d}, ![c].devices = Delete(@, d)]
        = [tab EXCEPT ![c].tools = @ \ {d}, ![c].devices = Delete(@, d)]
  BY <1>2, <1>4 DEF Tabs
<1>6. UnInit(d, t) => UnInit(d, tab)
  BY <1>5 DEF UnInit
<1>7. UnInit(d, tab) /\ setup' = Null /\ todo' = todo /\ plugged' = plugged
  BY <1>6 DEF Fail
<1> HIDE DEF c, t
<1> QED
  BY <1>1, <1>7, UnInitSound

LEMMA NewDeviceSound ==
  ASSUME Sound, NEW r \in todo, NewDevice(r)
  PROVE  Sound'
<1> USE DEF Sound
<1>0. /\ setup = Null /\ Used # Devs /\ Alive # Commons
      /\ todo' = todo \ {r} /\ UNCHANGED <<plugged, active, faults>>
      /\ Used \subseteq Devs /\ Alive \subseteq Commons /\ r \in Requests
  BY DEF NewDevice, Used, Alive, TypeOK
<1>1. PICK d \in Devs \ Used : d = Fresh(Devs, Used)
  BY <1>0 DEF Fresh
<1>2. PICK c \in Commons \ Alive : c = Fresh(Commons, Alive)
  BY <1>0 DEF Fresh
<1>3. /\ inputs' = Append(inputs, d)
      /\ dev' = [dev EXCEPT ![d] = Allocated(r, c)]
      /\ tab' = [tab EXCEPT ![c] = NewCommon(r, d)]
      /\ setup' = [dev |-> d, step |-> "path"]
  BY <1>1, <1>2 DEF NewDevice
<1>4. /\ dev \in [Devs -> Devices \cup {Null}] /\ tab \in [Commons -> Tabs \cup {Null}]
      /\ d \in Devs /\ c \in Commons /\ dev[d] = Null /\ tab[c] = Null
  BY <1>1, <1>2 DEF TypeOK, Used, Alive
<1>5. Allocated(r, c) \in Devices /\ Allocated(r, c).common = c
  BY <1>0, <1>4 DEF Allocated, Devices, Requests
<1>6. /\ NewCommon(r, d) \in Tabs /\ NewCommon(r, d).devices = <<d>>
      /\ NewCommon(r, d).refcnt = 1 /\ NewCommon(r, d).tools = {d}
  BY <1>0, <1>4 DEF NewCommon, Tabs, Requests
<1>7. /\ dev'[d] = Allocated(r, c) /\ dev'[d] # Null
      /\ \A e \in Devs \ {d} : dev'[e] = dev[e]
      /\ tab'[c] = NewCommon(r, d) /\ tab'[c] # Null
      /\ \A k \in Commons \ {c} : tab'[k] = tab[k]
  BY <1>3, <1>4, <1>5, <1>6, NullIs
<1>8. Used' = Used \cup {d} /\ Alive' = Alive \cup {c}
  BY <1>4, <1>7 DEF Used, Alive
<1>9. \A e \in Used : e # d /\ dev[e].common # c /\ dev[e].common \in Alive
  BY <1>1, <1>2, UsedType DEF Used
<1>10. \A k : k # c => Holders(k)' = Holders(k)
  BY <1>1, <1>5, <1>7, <1>8, <1>9 DEF Holders, Used
<1>11. Holders(c)' = {d}
  BY <1>1, <1>5, <1>7, <1>8, <1>9 DEF Holders, Used
<1>12. Listing(inputs', Used')
  BY <1>0, <1>1, <1>3, <1>8, AppendListing
<1>13. setup' \in [dev : Devs, step : Steps] /\ setup' # Null /\ setup'.dev = d /\ setup'.step = "path"
  BY <1>1, <1>3, NullIs DEF Steps
<1>14. TypeOK'
  <2>1. inputs' \in Seq(Devs)
    BY <1>12 DEF Listing
  <2>2. dev' \in [Devs -> Devices \cup {Null}] /\ tab' \in [Commons -> Tabs \cup {Null}]
    BY <1>3, <1>4, <1>5, <1>6
  <2>3. ASSUME NEW e \in Devs, dev'[e] # Null PROVE tab'[dev'[e].common] # Null
    BY <1>5, <1>7, <1>9, <2>3 DEF Used, Alive
  <2> QED
    BY <1>0, <1>7, <1>13, <2>1, <2>2, <2>3 DEF TypeOK
<1>15. \A e \in Used : Done(e) /\ Done(e)' /\ Matched(e) /\ Matched(e)' /\ ~Matched(d)'
  BY <1>0, <1>9, <1>13 DEF Done, Matched
<1>16. ASSUME NEW k \in Alive' PROVE Kept(k)'
  <2>1. CASE k # c
    <3>1. k \in Alive /\ tab'[k] = tab[k] /\ Holders(k)' = Holders(k) /\ Kept(k)
      BY <1>7, <1>8, <1>10, <2>1 DEF Alive
    <3>2. \A e \in Holders(k) : Done(e)
      BY <1>15, HoldersDevs
    <3> QED
      BY <3>1, <3>2 DEF Kept
  <2>2. CASE k = c
    <3>1. Cardinality({d}) = 1
      BY FS_Singleton
    <3>2. Listing(<<d>>, {d})
      BY <1>4, <3>1 DEF Listing, Entries
    <3> QED
      BY <1>6, <1>7, <1>11, <2>2, <3>1, <3>2 DEF Kept
  <2> QED
    BY <2>1, <2>2
<1>17. SetupFirst'
  BY <1>5, <1>6, <1>7, <1>11, <1>13 DEF SetupFirst, Own
<1>18. Shared'
  BY <1>7, <1>8, <1>9, <1>15 DEF Shared, Used
<1>19. Followed'
  BY <1>0, <1>1, <1>7, <1>15 DEF Followed, TypeOK, Used
<1> QED
  BY <1>12, <1>14, <1>16, <1>17, <1>18, <1>19

-----------------------------------------------------------------------------
(***************************************************************************)
(* Sharing a tablet.                                                       *)
(***************************************************************************)

\* A nonempty set of places has a first one.
LEMMA FirstPlace ==
  ASSUME NEW S \in SUBSET Nat, S # {}
  PROVE  (CHOOSE i \in S : \A j \in S : i <= j) \in S
<1>1. PICK i \in S : \A j \in S : ~(<<j, i>> \in OpToRel(<, Nat))
  BY NatLessThanWellFounded, WFMin
<1>2. \A j \in S : ~(j < i)
  BY <1>1 DEF OpToRel
<1>3. \A j \in S : i <= j
  BY <1>2
<1> QED
  BY <1>3

\* wcmMatchDevice looks through all devices.
LEMMA PartnerIs ==
  ASSUME Sound, NEW d \in Devs
  PROVE  IF Partner(d) = Null
         THEN \A e \in Used : e # d => dev[e].node # dev[d].node
         ELSE Partner(d) \in Used \ {d} /\ dev[Partner(d)].node = dev[d].node
<1> DEFINE hits == {i \in DOMAIN inputs : inputs[i] # d /\ dev[inputs[i]].node = dev[d].node}
           first == CHOOSE i \in hits : \A j \in hits : i <= j
<1>1. Partner(d) = IF hits = {} THEN Null ELSE inputs[first]
  BY DEF Partner, FirstAt
<1>2. inputs \in Seq(Devs) /\ Entries(inputs) = Used
  BY DEF Sound, Listing
<1>3. \A e \in Used : \E i \in DOMAIN inputs : inputs[i] = e
  BY <1>2 DEF Entries
<1>4. CASE hits = {}
  BY <1>1, <1>3, <1>4
<1>5. CASE hits # {}
  <2>1. hits \in SUBSET Nat
    BY <1>2
  <2>2. first \in hits
    BY <1>5, <2>1, FirstPlace
  <2>3. Partner(d) = inputs[first] /\ inputs[first] \in Used
    BY <1>1, <1>2, <1>5, <2>2 DEF Entries
  <2>4. inputs[first] # Null
    BY <1>2, <2>2, NullIs
  <2> QED
    BY <2>2, <2>3, <2>4
<1> QED
  BY <1>4, <1>5

\* d lets its own tablet go, which nobody else has, and joins that of its partner.
LEMMA MatchSound ==
  ASSUME Sound, NEW d \in Devs, Match(d)
  PROVE  Sound'
<1> USE DEF Sound
<1>1. /\ At(d, "path") /\ setup' = [dev |-> d, step |-> "type"]
      /\ UNCHANGED <<inputs, todo, plugged, active, faults>>
  BY DEF Match
<1>2. setup # Null /\ setup.dev = d /\ setup.step = "path" /\ dev[d] # Null
  BY <1>1, AtIs DEF Steps, TypeOK
<1>3. setup' \in [dev : Devs, step : Steps] /\ setup' # Null /\ setup'.dev = d /\ setup'.step = "type"
  BY <1>1, NullIs DEF Steps
<1>4. /\ dev[d].common \in Commons /\ d \in Used /\ dev[d] \in Devices
      /\ tab[dev[d].common] \in Tabs
      /\ dev \in [Devs -> Devices \cup {Null}] /\ tab \in [Commons -> Tabs \cup {Null}]
  BY <1>2, UsedType DEF Alive, TypeOK
<1> PICK o \in Commons : o = dev[d].common
  BY <1>4
<1>5. /\ Holders(o) = {d} /\ o \in Alive /\ Kept(o) /\ tab[o].devices[1] = d
      /\ tab[o].refcnt = 1
  <2>1. Holders(o) = {d} /\ tab[o].devices[1] = d
    BY <1>2 DEF SetupFirst, Own
  <2>2. o \in Alive
    BY <1>2, UsedType
  <2>3. Kept(o)
    BY <2>2
  <2>4. Cardinality({d}) = 1
    BY FS_Singleton
  <2> QED
    BY <2>1, <2>2, <2>3, <2>4 DEF Kept
<1>6. \A e \in Used : /\ Done(e) <=> e # d
                      /\ Matched(e) <=> e # d
                      /\ Done(e)' <=> e # d
                      /\ Matched(e)'
  BY <1>2, <1>3 DEF Done, Matched
<1>7. Followed /\ active # Null => active # d /\ dev[active] # Null
  BY <1>2 DEF Followed, Done
<1>8. CASE Partner(d) = Null
  <2>1. dev' = [dev EXCEPT ![d].fd = TRUE] /\ tab' = tab
    BY <1>8 DEF Match
  <2>2. /\ dev' \in [Devs -> Devices \cup {Null}]
        /\ dev'[d] \in Devices /\ dev'[d].common = o /\ dev'[d].node = dev[d].node
        /\ \A e \in Devs \ {d} : dev'[e] = dev[e]
    BY <1>4, <2>1 DEF Devices
  <2>3. Quiet
    BY <1>1, <1>2, <1>4, <2>1, <2>2, NullIs DEF Quiet
  <2>4. /\ Used' = Used /\ Alive' = Alive /\ \A k : Holders(k)' = Holders(k)
    BY <2>3, QuietSets
  <2>5. TypeOK'
    <3>1. ASSUME NEW x \in Devs, dev'[x] # Null PROVE tab'[dev'[x].common] # Null
      BY <1>2, <1>4, <2>1, <2>2, <3>1 DEF TypeOK
    <3> QED
      BY <1>1, <1>3, <2>1, <2>2, <3>1, NullIs DEF TypeOK
  <2>6. ASSUME NEW k \in Alive' PROVE Kept(k)'
    <3>1. Kept(k) /\ tab'[k] = tab[k] /\ Holders(k)' = Holders(k)
      BY <2>1, <2>4
    <3>2. \A e \in Holders(k) : Done(e)' => Done(e)
      BY <1>6, HoldersDevs
    <3> QED
      BY <3>1, <3>2 DEF Kept
  <2>7. SetupFirst'
    BY <1>3, <1>5, <2>1, <2>2 DEF SetupFirst, Own
  <2>8. Shared'
    <3>1. \A e \in Used : e # d => dev[e].node # dev[d].node
      BY <1>8, PartnerIs
    <3> QED
      BY <1>6, <2>2, <2>4, <3>1 DEF Shared, Used
  <2>9. Followed'
    BY <1>1, <1>3, <1>7, <2>2 DEF Followed, Done, TypeOK
  <2> QED
    BY <1>1, <2>4, <2>5, <2>6, <2>7, <2>8, <2>9
<1>9. CASE Partner(d) # Null
  <2>1. PICK e \in Used \ {d} : e = Partner(d) /\ dev[e].node = dev[d].node
    BY <1>9, PartnerIs
  <2>2. dev[e].common \in Alive /\ e \in Holders(dev[e].common)
    BY <2>1, UsedType DEF Used
  <2> PICK c \in Alive : c = dev[e].common
    BY <2>2
  <2>3. c # o /\ c \in Commons /\ tab[c] \in Tabs /\ Kept(c) /\ d \notin Holders(c)
    <3>1. c # o
      BY <1>5, <2>1, <2>2
    <3>2. d \notin Holders(c)
      BY <3>1 DEF Holders
    <3> QED
      BY <3>1, <3>2 DEF Alive, TypeOK
  <2>4. dev' = [dev EXCEPT ![d].fd = TRUE, ![d].common = c] /\ tab' = Joined(d, c)
    BY <1>9, <2>1 DEF Match
  <2>5. Released(d, tab) = [tab EXCEPT ![o] = Null]
    BY <1>5 DEF Released
  <2> DEFINE t == [tab EXCEPT ![o] = Null]
  <2>6. /\ t \in [Commons -> Tabs \cup {Null}] /\ t[o] = Null
        /\ \A k \in Commons \ {o} : t[k] = tab[k]
        /\ t[c] \in Tabs /\ <<d>> \o t[c].devices \in Seq(Devs)
    <3>1. /\ t \in [Commons -> Tabs \cup {Null}] /\ t[o] = Null
          /\ \A k \in Commons \ {o} : t[k] = tab[k]
      BY <1>4
    <3>2. tab[c].devices \in Seq(Devs) /\ t[c] = tab[c]
      BY <2>3, <3>1 DEF Tabs
    <3> QED
      BY <1>4, <2>3, <3>1, <3>2
  <2>joined. tab' = [t EXCEPT ![c].refcnt = @ + 1, ![c].devices = <<d>> \o @]
    BY <2>4, <2>5 DEF Joined
  <2> HIDE DEF t
  <2>7. /\ tab' \in [Commons -> Tabs \cup {Null}]
        /\ tab'[o] = Null /\ tab'[c] \in Tabs
        /\ tab'[c].refcnt = tab[c].refcnt + 1
        /\ tab'[c].devices = <<d>> \o tab[c].devices
        /\ tab'[c].tools = tab[c].tools
        /\ \A k \in Commons \ {o, c} : tab'[k] = tab[k]
    <3>1. t[c] = tab[c] /\ c \in Commons \ {o}
      BY <2>3, <2>6
    <3>0. t[c].refcnt + 1 \in Nat
      BY <2>6 DEF Tabs
    <3>2. PICK n \in Nat, s \in Seq(Devs), x \in Tabs :
            n = t[c].refcnt + 1 /\ s = <<d>> \o t[c].devices /\ x = t[c]
      BY <2>6, <3>0, Zenon
    <3>3. PICK r : r = [x EXCEPT !.refcnt = n, !.devices = s]
      OBVIOUS
    <3>4. tab' = [t EXCEPT ![c] = r]
      BY <2>6, <2>joined, <3>1, <3>2, <3>3
    <3>5. r \in Tabs /\ r.refcnt = n /\ r.devices = s /\ r.tools = x.tools
      BY <3>3 DEF Tabs
    <3>6. /\ tab'[c] = r /\ tab' \in [Commons -> Tabs \cup {Null}]
          /\ \A k \in Commons \ {c} : tab'[k] = t[k]
      BY <2>6, <3>1, <3>4, <3>5
    <3> QED
      BY <2>6, <3>1, <3>2, <3>5, <3>6
  <2>8. /\ dev' \in [Devs -> Devices \cup {Null}]
        /\ dev'[d] \in Devices /\ dev'[d].common = c /\ dev'[d].node = dev[d].node
        /\ \A x \in Devs \ {d} : dev'[x] = dev[x]
    BY <1>4, <2>3, <2>4 DEF Devices
  <2>9. Used' = Used
    BY <1>2, <2>8, NullIs DEF Used
  <2>10. Alive' = Alive \ {o}
    BY <1>4, <2>3, <2>7, NullIs DEF Alive
  <2>11. /\ Holders(c)' = Holders(c) \cup {d}
         /\ \A k : k # c /\ k # o => Holders(k)' = Holders(k) /\ d \notin Holders(k)
    BY <1>4, <2>8, <2>9 DEF Holders, Used
  <2>12. TypeOK'
    <3>1. ASSUME NEW x \in Devs, dev'[x] # Null PROVE tab'[dev'[x].common] # Null
      <4>1. CASE x = d
        BY <2>7, <2>8, <4>1, NullIs
      <4>2. CASE x # d
        <5>1. dev'[x] = dev[x] /\ x \in Used /\ dev[x].common \in Alive
          BY <2>8, <3>1, <4>2, UsedType
        <5>2. dev[x].common # o
          BY <1>5, <4>2, <5>1 DEF Holders
        <5> QED
          BY <2>10, <5>1, <5>2 DEF Alive
      <4> QED
        BY <4>1, <4>2
    <3> QED
      BY <1>1, <1>3, <2>7, <2>8, <3>1, NullIs DEF TypeOK
  <2>13. ASSUME NEW k \in Alive' PROVE Kept(k)'
    <3>1. CASE k # c
      <4>1. k \in Alive /\ k # o /\ tab'[k] = tab[k] /\ Holders(k)' = Holders(k)
            /\ d \notin Holders(k)
        BY <2>7, <2>10, <2>11, <3>1 DEF Alive
      <4>2. Kept(k)
        BY <4>1
      <4>3. \A x \in Holders(k) : Done(x)' => Done(x)
        BY <1>6, HoldersDevs
      <4> QED
        BY <4>1, <4>2, <4>3 DEF Kept
    <3>2. CASE k = c
      <4>1. Listing(tab'[c].devices, Holders(c)')
        BY <2>3, <2>7, <2>11, ConsListing, HoldersDevs DEF Kept
      <4>2. Cardinality(Holders(c) \cup {d}) = Cardinality(Holders(c)) + 1
        BY <2>3, HoldersDevs, DevsFinite, FS_AddElement
      <4>3. \A x \in Holders(c)' : Done(x)' => x \in Holders(c) /\ Done(x)
        BY <1>3, <1>6, <2>11, HoldersDevs DEF Done
      <4> QED
        BY <2>3, <2>7, <2>11, <3>2, <4>1, <4>2, <4>3 DEF Kept
    <3> QED
      BY <3>1, <3>2
  <2>14. SetupFirst'
    <3>1. tab'[c].devices[1] = d
      BY <2>3, <2>7, ConsListing, HoldersDevs DEF Kept
    <3> QED
      BY <1>3, <2>8, <3>1 DEF SetupFirst, Own
  <2>15. Shared'
    <3>1. \A x \in Used : x # d /\ dev[x].node = dev[d].node => dev[x].common = c
      BY <1>6, <2>1 DEF Shared
    <3> QED
      BY <1>6, <2>8, <2>9, <3>1 DEF Shared, Used
  <2>16. Followed'
    BY <1>1, <1>3, <1>7, <2>8 DEF Followed, Done, TypeOK
  <2> QED
    BY <1>1, <2>9, <2>12, <2>13, <2>14, <2>15, <2>16
<1> QED
  BY <1>8, <1>9

-----------------------------------------------------------------------------
(***************************************************************************)
(* The rest of PreInit.                                                    *)
(***************************************************************************)

LEMMA ChooseTypeSound ==
  ASSUME Sound, NEW d \in Devs, ChooseType(d)
  PROVE  Sound'
<1> USE DEF Sound
<1>1. /\ At(d, "type") /\ setup' = [dev |-> d, step |-> "tool"]
      /\ UNCHANGED <<inputs, tab, todo, plugged, active, faults>>
  BY DEF ChooseType
<1>2. setup # Null /\ setup.dev = d /\ setup.step = "type" /\ dev[d] # Null
  BY <1>1, AtIs DEF Steps, TypeOK
<1>3. setup' \in [dev : Devs, step : Steps] /\ setup' # Null /\ setup'.dev = d /\ setup'.step = "tool"
  BY <1>1, NullIs DEF Steps
<1>4. dev[d] \in Devices /\ d \in Used /\ dev \in [Devs -> Devices \cup {Null}]
  BY <1>2, UsedType DEF TypeOK
<1>5. /\ dev' \in [Devs -> Devices \cup {Null}]
      /\ dev'[d] \in Devices /\ dev'[d].common = dev[d].common /\ dev'[d].node = dev[d].node
      /\ \A e \in Devs \ {d} : dev'[e] = dev[e]
  <2>1. CASE dev[d].source = "udev"
    <3>1. Offers[dev[d].node] \subseteq Types /\ Offers[dev[d].node] # {}
      BY <1>4, <2>1, LifecycleAssumption DEF ChooseType, Devices
    <3>2. FirstType(dev[d].node) \in Types
      <4>1. \E t \in Offers[dev[d].node] : \A u \in Offers[dev[d].node] : Rank[t] <= Rank[u]
        BY <3>1 DEF Types, Rank
      <4> QED
        BY <3>1, <4>1 DEF FirstType
    <3>3. dev' = [dev EXCEPT ![d].type = FirstType(dev[d].node),
                             ![d].source = "driver", ![d].parent = TRUE]
      BY <2>1 DEF ChooseType
    <3> QED
      BY <1>4, <3>2, <3>3 DEF Devices
  <2>2. CASE dev[d].source # "udev"
    BY <1>4, <2>2 DEF ChooseType
  <2> QED
    BY <2>1, <2>2
<1>6. Quiet
  BY <1>1, <1>2, <1>4, <1>5, NullIs DEF Quiet, TypeOK
<1>7. /\ Used' = Used /\ Alive' = Alive /\ \A k : Holders(k)' = Holders(k)
  BY <1>6, QuietSets
<1>8. TypeOK'
  <2>1. ASSUME NEW x \in Devs, dev'[x] # Null PROVE tab'[dev'[x].common] # Null
    BY <1>1, <1>2, <1>5, <2>1 DEF TypeOK
  <2> QED
    BY <1>1, <1>3, <1>5, <2>1, NullIs DEF TypeOK
<1>9. \A e : (Done(e)' <=> Done(e)) /\ Matched(e)' /\ Matched(e)
  BY <1>2, <1>3 DEF Done, Matched
<1>10. ASSUME NEW k \in Alive' PROVE Kept(k)'
  <2>1. Kept(k) /\ tab'[k] = tab[k] /\ Holders(k)' = Holders(k)
    BY <1>1, <1>7
  <2> QED
    BY <1>9, <2>1 DEF Kept
<1>11. SetupFirst'
  BY <1>1, <1>2, <1>3, <1>5 DEF SetupFirst, Own
<1>12. Shared'
  BY <1>5, <1>7, <1>9 DEF Shared, Used
<1>13. Followed'
  BY <1>1, <1>5, <1>9, NullIs DEF Followed, TypeOK
<1> QED
  BY <1>1, <1>7, <1>8, <1>10, <1>11, <1>12, <1>13

LEMMA AddToolSound ==
  ASSUME Sound, NEW d \in Devs, AddTool(d)
  PROVE  Sound'
<1> USE DEF Sound
<1>1. /\ At(d, "tool") /\ setup' = [dev |-> d, step |-> "ready"]
      /\ UNCHANGED <<inputs, dev, todo, plugged, active, faults>>
      /\ tab' = [tab EXCEPT ![dev[d].common].tools = @ \cup {d}]
  BY DEF AddTool
<1>2. setup # Null /\ setup.dev = d /\ setup.step = "tool" /\ dev[d] # Null
  BY <1>1, AtIs DEF Steps, TypeOK
<1>3. setup' \in [dev : Devs, step : Steps] /\ setup' # Null /\ setup'.dev = d /\ setup'.step = "ready"
  BY <1>1, NullIs DEF Steps
<1>4. dev[d].common \in Alive /\ d \in Holders(dev[d].common) /\ dev[d].common \in Commons
  BY <1>2, UsedType DEF Alive
<1> PICK c \in Alive : c = dev[d].common
  BY <1>4
<1>5. /\ tab' \in [Commons -> Tabs \cup {Null}]
      /\ tab'[c] \in Tabs /\ tab'[c].tools = tab[c].tools \cup {d}
      /\ tab'[c].devices = tab[c].devices /\ tab'[c].refcnt = tab[c].refcnt
      /\ \A k \in Commons \ {c} : tab'[k] = tab[k]
  <2>1. tab[c] \in Tabs /\ tab \in [Commons -> Tabs \cup {Null}] /\ c \in Commons
    BY <1>4 DEF TypeOK, Alive
  <2> QED
    BY <1>1, <2>1 DEF Tabs
<1>6. Used' = Used /\ \A k : Holders(k)' = Holders(k)
  BY <1>1 DEF Used, Holders
<1>7. Alive' = Alive
  BY <1>4, <1>5, NullIs DEF Alive
<1>8. TypeOK'
  <2>1. ASSUME NEW x \in Devs, dev[x] # Null PROVE tab'[dev[x].common] # Null
    BY <1>7, <2>1, UsedType DEF Alive
  <2> QED
    BY <1>1, <1>2, <1>3, <1>5, <2>1 DEF TypeOK
<1>9. \A e : (Done(e)' <=> Done(e)) /\ Matched(e)' /\ Matched(e)
  BY <1>2, <1>3 DEF Done, Matched
<1>10. ASSUME NEW k \in Alive' PROVE Kept(k)'
  <2>1. k \in Alive /\ Kept(k) /\ Holders(k)' = Holders(k)
    BY <1>6, <1>7
  <2>2. CASE k = c
    BY <1>4, <1>5, <1>9, <2>1, <2>2 DEF Kept
  <2>3. CASE k # c
    <3>1. tab'[k] = tab[k]
      BY <1>5, <2>1, <2>3 DEF Alive
    <3> QED
      BY <1>9, <2>1, <3>1 DEF Kept
  <2> QED
    BY <2>2, <2>3
<1>11. SetupFirst'
  BY <1>1, <1>2, <1>3, <1>5 DEF SetupFirst, Own
<1>12. Shared'
  BY <1>1, <1>6, <1>9 DEF Shared
<1>13. Followed'
  BY <1>1, <1>9 DEF Followed
<1> QED
  BY <1>1, <1>6, <1>7, <1>8, <1>10, <1>11, <1>12, <1>13

\* Linking pen and touch, or undoing that, changes nothing but the links.
Relinked(t) ==
  /\ t \in [Commons -> Tabs \cup {Null}]
  /\ \A c \in Commons : /\ t[c] = Null <=> tab[c] = Null
                        /\ tab[c] # Null => /\ t[c] \in Tabs
                                            /\ t[c].devices = tab[c].devices
                                            /\ t[c].refcnt = tab[c].refcnt
                                            /\ t[c].tools = tab[c].tools

\* What wcmForeachDevice finds is a device.
LEMMA FirstAtUsed ==
  ASSUME Sound, NEW hits \in SUBSET DOMAIN inputs, hits # {}
  PROVE  inputs[CHOOSE i \in hits : \A j \in hits : i <= j] \in Used
<1>1. inputs \in Seq(Devs) /\ Entries(inputs) = Used
  BY DEF Sound, Listing
<1>2. hits \in SUBSET Nat
  BY <1>1
<1>3. (CHOOSE i \in hits : \A j \in hits : i <= j) \in hits
  BY <1>2, FirstPlace
<1> QED
  BY <1>1, <1>3 DEF Entries

Links(S, f, g) == [c \in Commons |-> IF c \notin S THEN tab[c]
                                    ELSE [tab[c] EXCEPT !.touch = f[c], !.pentouch = g[c]]]

LEMMA RelinkedBy ==
  ASSUME Sound, NEW S, NEW f, NEW g,
         \A c \in Commons \cap S :
            tab[c] # Null /\ f[c] \in Devs \cup {Null} /\ g[c] \in BOOLEAN
  PROVE  Relinked(Links(S, f, g))
<1>1. tab \in [Commons -> Tabs \cup {Null}]
  BY DEF Sound, TypeOK
<1>2. ASSUME NEW c \in Commons \cap S, NEW r, r = [tab[c] EXCEPT !.touch = f[c], !.pentouch = g[c]]
      PROVE  /\ r \in Tabs /\ r # Null /\ tab[c] # Null
             /\ r.devices = tab[c].devices /\ r.refcnt = tab[c].refcnt
             /\ r.tools = tab[c].tools
  <2>1. tab[c] \in Tabs /\ tab[c] # Null /\ f[c] \in Devs \cup {Null} /\ g[c] \in BOOLEAN
    BY <1>1, <1>2
  <2>2. r \in Tabs /\ r.devices = tab[c].devices /\ r.refcnt = tab[c].refcnt
        /\ r.tools = tab[c].tools
    BY <1>2, <2>1 DEF Tabs
  <2> QED
    BY <2>1, <2>2, NullIs
<1> DEFINE t == [c \in Commons |-> IF c \notin S THEN tab[c]
                  ELSE [tab[c] EXCEPT !.touch = f[c], !.pentouch = g[c]]]
<1>3. ASSUME NEW c \in Commons
      PROVE  /\ t[c] \in Tabs \cup {Null}
             /\ t[c] = Null <=> tab[c] = Null
             /\ tab[c] # Null => /\ t[c] \in Tabs
                                 /\ t[c].devices = tab[c].devices
                                 /\ t[c].refcnt = tab[c].refcnt
                                 /\ t[c].tools = tab[c].tools
  <2>1. CASE c \notin S
    <3>1. t[c] = tab[c]
      BY <2>1
    <3> QED
      BY <1>1, <3>1
  <2>2. CASE c \in S
    <3>1. t[c] = [tab[c] EXCEPT !.touch = f[c], !.pentouch = g[c]]
      BY <2>2
    <3> HIDE DEF t
    <3> QED
      BY <1>2, <2>2, <3>1
  <2> QED
    BY <2>1, <2>2
<1>4. t = [c \in Commons |-> t[c]]
  OBVIOUS
<1> HIDE DEF t
<1>5. t \in [Commons -> Tabs \cup {Null}]
  BY <1>3, <1>4
<1>6. Relinked(t)
  BY <1>3, <1>5 DEF Relinked
<1> QED
  BY <1>6 DEF t, Links

LEMMA LinkedBooks ==
  ASSUME Sound, NEW d \in Devs, dev[d] # Null
  PROVE  Relinked(tab) /\ Relinked(Linked(d)) /\ Relinked(Unlinked(d))
<1>1. Relinked(tab)
  BY DEF Relinked, Sound, TypeOK
<1>2. \A e \in Used : dev[e].common \in Commons /\ tab[dev[e].common] # Null
                      /\ tab[dev[e].common] \in Tabs
  BY UsedType, NullIs DEF Used, Alive, Sound
<1>3. d \in Used
  BY DEF Used
<1>4. Relinked(Linked(d))
  <2> DEFINE hits == {i \in DOMAIN inputs :
                        inputs[i] # d /\ (/\ Sibling(d, inputs[i])
                                          /\ Own(inputs[i]).touch = Null
                                          /\ IsTouch(inputs[i]) \/ IsTouch(d))}
             e == IF hits = {} THEN Null
                  ELSE inputs[CHOOSE i \in hits : \A j \in hits : i <= j]
             f == [k \in Commons |-> IF IsTouch(e) THEN e ELSE IF IsTouch(d) THEN d ELSE tab[k].touch]
             g == [k \in Commons |-> tab[k].pentouch \/ IsTablet(d) \/ IsTablet(e)]
  <2>1. e # Null => e \in Used
    BY FirstAtUsed
  <2> DEFINE S == {dev[d].common, dev[e].common}
             l == [k \in Commons |-> IF k \notin S THEN tab[k]
                     ELSE [tab[k] EXCEPT !.touch = IF IsTouch(e) THEN e ELSE IF IsTouch(d) THEN d ELSE @,
                                         !.pentouch = @ \/ IsTablet(d) \/ IsTablet(e)]]
  <2>2. Linked(d) = IF e = Null THEN tab ELSE l
    BY DEF Linked, FirstAt
  <2> HIDE DEF hits, e, S
  <2>l. l = Links(S, f, g)
    <3>1. \A k \in Commons : f[k] = IF IsTouch(e) THEN e ELSE IF IsTouch(d) THEN d ELSE tab[k].touch
      OBVIOUS
    <3>2. \A k \in Commons : g[k] = (tab[k].pentouch \/ IsTablet(d) \/ IsTablet(e))
      OBVIOUS
    <3> HIDE DEF f, g
    <3> QED
      BY <3>1, <3>2, Zenon DEF Links
  <2>3. ASSUME e # Null, NEW k \in Commons \cap S
        PROVE  tab[k] # Null /\ f[k] \in Devs \cup {Null} /\ g[k] \in BOOLEAN
    <3>1. tab[k] \in Tabs /\ tab[k] # Null
      BY <1>2, <1>3, <2>1, <2>3, NullIs DEF S
    <3>2. f[k] \in Devs \cup {Null}
      BY <2>1, <2>3, <3>1 DEF Tabs, Used
    <3>3. g[k] \in BOOLEAN
      OBVIOUS
    <3> QED
      BY <3>1, <3>2, <3>3
  <2> HIDE DEF f, g, l
  <2>4. e # Null => Relinked(Links(S, f, g))
    BY <2>3, RelinkedBy
  <2> QED
    BY <1>1, <2>2, <2>l, <2>4
<1>5. Relinked(Unlinked(d))
  <2> DEFINE hits == {i \in DOMAIN inputs :
                        inputs[i] # d /\ (/\ \/ tab[dev[d].common].touch # Null
                                             \/ Own(inputs[i]).touch # Null
                                          /\ Tablet[dev[inputs[i]].node] = Tablet[dev[d].node])}
             e == IF hits = {} THEN Null
                  ELSE inputs[CHOOSE i \in hits : \A j \in hits : i <= j]
             f == [k \in Commons |-> Null]
             g == [k \in Commons |-> FALSE]
  <2>1. e # Null => e \in Used
    BY FirstAtUsed
  <2> DEFINE S == {dev[d].common, dev[e].common}
             l == [k \in Commons |-> IF k \notin S THEN tab[k]
                     ELSE [tab[k] EXCEPT !.touch = Null, !.pentouch = FALSE]]
  <2>2. Unlinked(d) = IF ~tab[dev[d].common].pentouch \/ e = Null THEN tab ELSE l
    BY DEF Unlinked, FirstAt
  <2> HIDE DEF hits, e, S
  <2>l. l = Links(S, f, g)
    BY DEF Links
  <2>3. ASSUME e # Null, NEW k \in Commons \cap S
        PROVE  tab[k] # Null /\ f[k] \in Devs \cup {Null} /\ g[k] \in BOOLEAN
    BY <1>2, <1>3, <2>1, <2>3 DEF S
  <2> HIDE DEF f, g, l
  <2>4. e # Null => Relinked(Links(S, f, g))
    BY <2>3, RelinkedBy
  <2> QED
    BY <1>1, <2>2, <2>l, <2>4
<1> QED
  BY <1>1, <1>4, <1>5

\* What the parent queues are requests.
LEMMA DependentsType ==
  ASSUME NEW n \in Nodes
  PROVE  Dependents(n) \subseteq Requests
<1>1. Offers[n] \subseteq Types /\ ToolSerials[n] \in Seq([serial : Nat, kind : DOMAIN SerialTypes])
  BY LifecycleAssumption
<1>2. ASSUME NEW i \in DOMAIN ToolSerials[n]
      PROVE  BoundSerial(n, i) \in Nat /\ ToolSerials[n][i].serial \in Nat
  <2> DEFINE T == [serial : Nat, kind : DOMAIN SerialTypes]
             s == ToolSerials[n]
  <2>1. s \in Seq(T) /\ i \in DOMAIN s /\ \A x \in T : x.serial \in Nat
    BY <1>1, <1>2
  <2> HIDE DEF T, s
  <2>2. s[1] \in T /\ s[i] \in T
    BY <2>1
  <2>3. s[1].serial \in Nat /\ s[i].serial \in Nat
    BY <2>1, <2>2
  <2> QED
    BY <2>3 DEF BoundSerial, s
<1>3. ASSUME NEW r \in Dependents(n) PROVE r \in Requests
  <2>1. CASE r \in {[node |-> n, type |-> t, serial |-> 0, wanted |-> 0, source |-> "driver"] :
                      t \in Offers[n] \ {FirstType(n)}}
    BY <1>1, <2>1 DEF Requests
  <2>2. CASE \E i \in DOMAIN ToolSerials[n], t \in Offers[n] :
               r = [node |-> n, type |-> t, serial |-> BoundSerial(n, i),
                    wanted |-> ToolSerials[n][i].serial, source |-> "driver"]
    BY <1>1, <1>2, <2>2 DEF Requests
  <2> QED
    BY <1>3, <2>1, <2>2 DEF Dependents
<1> QED
  BY <1>3

LEMMA FinishSound ==
  ASSUME Sound, NEW d \in Devs, Finish(d)
  PROVE  Sound'
<1> USE DEF Sound
<1>1. /\ At(d, "ready") /\ setup' = Null /\ (tab' = Linked(d) \/ tab' = tab)
      /\ dev' = [dev EXCEPT ![d].fd = FALSE]
      /\ UNCHANGED <<inputs, plugged, active, faults>>
  BY DEF Finish
<1>2. setup # Null /\ setup.dev = d /\ setup.step = "ready" /\ dev[d] # Null
  BY <1>1, AtIs DEF Steps, TypeOK
<1>3. dev[d] \in Devices /\ d \in Used /\ dev \in [Devs -> Devices \cup {Null}]
  BY <1>2, UsedType DEF TypeOK
<1>4. Relinked(tab')
  BY <1>1, <1>2, LinkedBooks
<1>5. /\ dev' \in [Devs -> Devices \cup {Null}]
      /\ dev'[d] \in Devices /\ dev'[d].common = dev[d].common /\ dev'[d].node = dev[d].node
      /\ \A e \in Devs \ {d} : dev'[e] = dev[e]
  BY <1>1, <1>3 DEF Devices
<1>6. Quiet
  BY <1>1, <1>2, <1>4, <1>5, NullIs DEF Quiet, Relinked
<1>7. /\ Used' = Used /\ Alive' = Alive /\ \A k : Holders(k)' = Holders(k)
  BY <1>6, QuietSets
<1>8. todo' \subseteq Requests
  <2>1. dev[d].node \in Nodes
    BY <1>3 DEF Devices
  <2> QED
    BY <2>1, DependentsType DEF Finish, TypeOK
<1>9. TypeOK'
  <2>1. ASSUME NEW x \in Devs, dev'[x] # Null PROVE tab'[dev'[x].common] # Null
    <3>1. dev[x] # Null /\ dev'[x].common = dev[x].common
      BY <1>6, <2>1 DEF Quiet
    <3>2. dev[x].common \in Alive
      BY <3>1, UsedType
    <3> QED
      BY <1>7, <3>1, <3>2 DEF Alive
  <2>2. tab' \in [Commons -> Tabs \cup {Null}]
    BY <1>4 DEF Relinked
  <2> QED
    BY <1>1, <1>5, <1>8, <2>1, <2>2 DEF TypeOK
<1>10. \A e : Done(e)' /\ Matched(e)' /\ Matched(e) /\ (e # d => Done(e)) /\ ~Done(d)
  BY <1>1, <1>2 DEF Done, Matched
<1>11. ASSUME NEW k \in Alive' PROVE Kept(k)'
  <2>1. /\ k \in Alive /\ Kept(k) /\ Holders(k)' = Holders(k)
        /\ tab'[k].devices = tab[k].devices /\ tab'[k].refcnt = tab[k].refcnt
        /\ tab'[k].tools = tab[k].tools
    BY <1>4, <1>7 DEF Relinked, Alive
  <2>2. d \in Holders(k) => d \in tab[k].tools
    BY <1>2 DEF SetupFirst, Own, Holders
  <2> QED
    BY <1>10, <2>1, <2>2 DEF Kept
<1>12. SetupFirst'
  BY <1>1 DEF SetupFirst
<1>13. Shared'
  BY <1>5, <1>7, <1>10 DEF Shared, Used
<1>14. Followed'
  BY <1>1, <1>5, <1>10, NullIs DEF Followed, TypeOK
<1> QED
  BY <1>1, <1>7, <1>9, <1>11, <1>12, <1>13, <1>14

-----------------------------------------------------------------------------
(***************************************************************************)
(* The devices at work.                                                    *)
(***************************************************************************)

\* What an enabled device does to itself, to the links and counters of its tablet and
\* to the pointer.
LEMMA WorkSound ==
  ASSUME Sound, NEW d \in Devs, setup = Null, dev[d] # Null, Relinked(tab'),
         UNCHANGED <<inputs, setup, todo, plugged, faults>>,
         active' \in {active, d, Null},
         dev' \in [Devs -> Devices \cup {Null}], dev'[d] \in Devices,
         dev'[d].common = dev[d].common, dev'[d].node = dev[d].node,
         \A e \in Devs \ {d} : dev'[e] = dev[e]
  PROVE  Sound'
<1> USE DEF Sound
<1>1. Quiet
  BY NullIs DEF Quiet, Relinked
<1>2. Alive' = Alive
  BY <1>1, QuietSets
<1>3. ASSUME NEW x \in Devs, dev'[x] # Null PROVE tab'[dev'[x].common] # Null
  <2>1. dev[x] # Null /\ dev'[x].common = dev[x].common
    BY <1>1, <1>3 DEF Quiet
  <2>2. dev[x].common \in Alive
    BY <2>1, UsedType
  <2> QED
    BY <1>2, <2>1, <2>2 DEF Alive
<1>4. TypeOK'
  BY <1>3 DEF TypeOK, Relinked
<1>5. Followed'
  BY NullIs DEF Followed, Done, TypeOK
<1>6. \A c \in Alive : tab'[c].tools = tab[c].tools
  BY DEF Relinked, Alive
<1> QED
  BY <1>1, <1>4, <1>5, <1>6, QuietSound

LEMMA OnSound ==
  ASSUME Sound, NEW d \in Devs, On(d)
  PROVE  Sound'
<1> USE DEF Sound
<1>1. /\ setup = Null /\ dev[d] # Null
      /\ UNCHANGED <<inputs, setup, todo, plugged, active, faults>>
  BY DEF On
<1>2. /\ dev[d] \in Devices /\ dev[d].common \in Alive /\ dev \in [Devs -> Devices \cup {Null}]
      /\ tab[dev[d].common] \in Tabs /\ dev[d].common \in Commons
      /\ tab \in [Commons -> Tabs \cup {Null}]
  BY <1>1, UsedType DEF TypeOK, Alive
<1> PICK c \in Commons : c = dev[d].common
  BY <1>2
<1>3. /\ dev' \in [Devs -> Devices \cup {Null}]
      /\ dev'[d] \in Devices /\ dev'[d].common = c /\ dev'[d].node = dev[d].node
      /\ \A e \in Devs \ {d} : dev'[e] = dev[e]
  <2>1. \/ dev' = [dev EXCEPT ![d].on = TRUE]
        \/ dev' = [dev EXCEPT ![d].on = TRUE, ![d].fd = TRUE]
    BY DEF On
  <2>2. PICK r : /\ r = [dev[d] EXCEPT !.on = TRUE]
                    \/ r = [dev[d] EXCEPT !.on = TRUE, !.fd = TRUE]
                 /\ dev' = [dev EXCEPT ![d] = r]
    <3>1. CASE dev' = [dev EXCEPT ![d].on = TRUE]
      BY <3>1
    <3>2. CASE dev' = [dev EXCEPT ![d].on = TRUE, ![d].fd = TRUE]
      <4>1. dev' = [dev EXCEPT ![d] = [dev[d] EXCEPT !.on = TRUE, !.fd = TRUE]]
        BY <1>2, <3>2
      <4> QED
        BY <4>1
    <3> QED
      BY <2>1, <3>1, <3>2
  <2>3. r \in Devices /\ r.common = c /\ r.node = dev[d].node
    BY <1>2, <2>2 DEF Devices
  <2> QED
    BY <1>2, <2>2, <2>3
<1>4. Relinked(tab')
  <2>1. CASE tab' = tab
    BY <1>2, <2>1 DEF Relinked
  <2>2. CASE tab' # tab
    <3>1. PICK b \in BOOLEAN, n \in Int : tab' = [tab EXCEPT ![c].minMaj = b, ![c].refs = n]
      <4>1. tab[c].refs \in Int /\ tab[c].minMaj \in BOOLEAN
        BY <1>2 DEF Tabs
      <4>2. tab' = [tab EXCEPT
             ![c].minMaj = @ \/ tab[c].refs = 0,
             ![c].refs = (IF @ = 0 THEN 1 ELSE @) + (IF dev[d].fd THEN 0 ELSE 1)]
        BY <2>2 DEF On, Own
      <4> DEFINE b == tab[c].minMaj \/ tab[c].refs = 0
                 n == (IF tab[c].refs = 0 THEN 1 ELSE tab[c].refs) + (IF dev[d].fd THEN 0 ELSE 1)
      <4>3. b \in BOOLEAN
        OBVIOUS
      <4>4. n \in Int
        BY <4>1
      <4>5. tab' = [tab EXCEPT ![c].minMaj = b, ![c].refs = n]
        BY <4>2, Zenon
      <4> HIDE DEF b, n
      <4> QED
        BY <4>3, <4>4, <4>5
    <3>2. PICK r : r = [tab[c] EXCEPT !.minMaj = b, !.refs = n]
      OBVIOUS
    <3>3. r \in Tabs /\ r.devices = tab[c].devices /\ r.refcnt = tab[c].refcnt
          /\ r.tools = tab[c].tools
      BY <1>2, <3>2 DEF Tabs
    <3>4. tab' = [tab EXCEPT ![c] = r]
      BY <1>2, <3>1, <3>2
    <3> QED
      BY <1>2, <3>3, <3>4, NullIs DEF Relinked
  <2> QED
    BY <2>1, <2>2
<1> QED
  BY <1>1, <1>3, <1>4, WorkSound

LEMMA OffSound ==
  ASSUME Sound, NEW d \in Devs, Off(d)
  PROVE  Sound'
<1> USE DEF Sound
<1>1. /\ setup = Null /\ dev[d] # Null
      /\ dev' = [dev EXCEPT ![d].on = FALSE, ![d].fd = FALSE]
      /\ UNCHANGED <<inputs, setup, todo, plugged, active, faults>>
  BY DEF Off
<1>2. /\ dev[d] \in Devices /\ dev[d].common \in Alive /\ dev \in [Devs -> Devices \cup {Null}]
      /\ dev[d].common \in Commons /\ tab[dev[d].common] # Null
  BY <1>1, UsedType, NullIs DEF TypeOK, Alive
<1> PICK c \in Commons : c = dev[d].common /\ tab[c] # Null
  BY <1>2
<1>3. /\ dev' \in [Devs -> Devices \cup {Null}]
      /\ dev'[d] \in Devices /\ dev'[d].common = c /\ dev'[d].node = dev[d].node
      /\ \A e \in Devs \ {d} : dev'[e] = dev[e]
  <2>1. PICK r : r = [dev[d] EXCEPT !.on = FALSE, !.fd = FALSE]
    OBVIOUS
  <2>2. r \in Devices /\ r.common = c /\ r.node = dev[d].node
    BY <1>2, <2>1 DEF Devices
  <2>3. dev' = [dev EXCEPT ![d] = r] /\ dev \in [Devs -> Devices \cup {Null}]
    BY <1>1, <1>2, <2>1
  <2>4. dev'[d] = r /\ \A e \in Devs \ {d} : dev'[e] = dev[e]
    BY <2>3
  <2>5. dev' \in [Devs -> Devices \cup {Null}]
    BY <2>2, <2>3
  <2> QED
    BY <2>2, <2>4, <2>5
<1> PICK t : t = Unlinked(d)
  OBVIOUS
<1>4. Relinked(t)
  BY <1>1, LinkedBooks
<1>5. Relinked(tab')
  <2>1. CASE ~dev[d].fd
    BY <1>4, <2>1 DEF Off
  <2>2. CASE dev[d].fd
    <3>1. t[c] \in Tabs /\ t \in [Commons -> Tabs \cup {Null}]
      BY <1>4 DEF Relinked
    <3>2. tab' = [t EXCEPT ![c].refs = @ - 1]
      BY <2>2 DEF Off
    <3>3. PICK n \in Int : n = t[c].refs - 1
      BY <3>1 DEF Tabs
    <3>4. PICK r : r = [t[c] EXCEPT !.refs = n]
      OBVIOUS
    <3>5. r \in Tabs /\ r.devices = t[c].devices /\ r.refcnt = t[c].refcnt
          /\ r.tools = t[c].tools
      BY <3>1, <3>4 DEF Tabs
    <3>6. tab' = [t EXCEPT ![c] = r]
      BY <3>1, <3>2, <3>3, <3>4
    <3> QED
      BY <1>4, <3>1, <3>5, <3>6, NullIs DEF Relinked
  <2> QED
    BY <2>1, <2>2
<1> QED
  BY <1>1, <1>3, <1>5, WorkSound

LEMMA EventSound ==
  ASSUME Sound, NEW d \in Devs, Event(d)
  PROVE  Sound'
<1>1. /\ setup = Null /\ dev[d] # Null /\ active' \in {d, Null}
      /\ UNCHANGED <<inputs, dev, tab, setup, todo, plugged, faults>>
  BY DEF Event
<1>2. dev[d] \in Devices /\ dev \in [Devs -> Devices \cup {Null}]
  BY <1>1, UsedType DEF Sound, TypeOK
<1>3. Relinked(tab')
  BY <1>1 DEF Relinked, Sound, TypeOK
<1> QED
  BY <1>1, <1>2, <1>3, WorkSound

-----------------------------------------------------------------------------
(***************************************************************************)
(* Every step keeps the invariant.                                         *)
(***************************************************************************)

LEMMA SoundStep == Sound /\ [Next]_vars => Sound'
<1> SUFFICES ASSUME Sound, [Next]_vars PROVE Sound'
  OBVIOUS
<1> USE DEF Sound
<1>1. ASSUME NEW r \in todo, NewDevice(r) PROVE Sound'
  BY <1>1, NewDeviceSound
<1>2. ASSUME NEW d \in Devs, Match(d) PROVE Sound'
  BY <1>2, MatchSound
<1>3. ASSUME NEW d \in Devs, ChooseType(d) PROVE Sound'
  BY <1>3, ChooseTypeSound
<1>4. ASSUME NEW d \in Devs, AddTool(d) PROVE Sound'
  BY <1>4, AddToolSound
<1>5. ASSUME NEW d \in Devs, Finish(d) PROVE Sound'
  BY <1>5, FinishSound
<1>6. ASSUME NEW d \in Devs, Refuse(d) PROVE Sound'
  <2>1. \E step \in Steps : At(d, step)
    BY <1>6 DEF Refuse, Steps
  <2>2. Fail(d) /\ faults' \in 0..MaxFaults
    BY <1>6 DEF Refuse, TypeOK
  <2> QED
    BY <2>1, <2>2, FailSound
<1>7. ASSUME NEW d \in Devs, Fault(d) PROVE Sound'
  <2>1. faults' \in 0..MaxFaults
    BY <1>7, LifecycleAssumption DEF Fault, TypeOK
  <2> QED
    BY <1>7, <2>1, FailSound DEF Fault
<1>8. ASSUME NEW d \in Devs, On(d) PROVE Sound'
  BY <1>8, OnSound
<1>9. ASSUME NEW d \in Devs, Off(d) PROVE Sound'
  BY <1>9, OffSound
<1>10. ASSUME NEW d \in Devs, Event(d) PROVE Sound'
  BY <1>10, EventSound
<1>11. ASSUME NEW d \in Devs, Remove(d) PROVE Sound'
  <2>1. setup = Null /\ dev[d] # Null /\ UnInit(d, tab)
        /\ UNCHANGED <<setup, todo, plugged, faults>>
    BY <1>11 DEF Remove
  <2>2. faults' \in 0..MaxFaults
    BY <2>1 DEF TypeOK
  <2> QED
    BY <2>1, <2>2, UnInitSound
<1>12. ASSUME UNCHANGED <<inputs, dev, tab, setup, active>>, TypeOK' PROVE Sound'
  <2>1. Used' = Used /\ Alive' = Alive /\ \A c : Holders(c)' = Holders(c)
    BY <1>12 DEF Used, Alive, Holders
  <2>2. \A e : Done(e)' = Done(e) /\ Matched(e)' = Matched(e)
    BY <1>12 DEF Done, Matched
  <2>3. ASSUME NEW c \in Alive' PROVE Kept(c)'
    <3>1. Kept(c)
      BY <2>1
    <3> QED
      BY <1>12, <2>1, <2>2, <3>1 DEF Kept
  <2>4. SetupFirst'
    BY <1>12, <2>1 DEF SetupFirst, Own
  <2> QED
    BY <1>12, <2>1, <2>2, <2>3, <2>4 DEF Shared, Followed
<1>13. ASSUME NEW n \in Nodes, Plug(n) PROVE Sound'
  <2>1. TypeOK'
    BY <1>13 DEF Plug, TypeOK, Requests
  <2> QED
    BY <1>12, <1>13, <2>1 DEF Plug
<1>14. ASSUME NEW n \in Nodes, Unplug(n) PROVE Sound'
  <2>1. TypeOK'
    BY <1>14 DEF Unplug, TypeOK
  <2> QED
    BY <1>12, <1>14, <2>1 DEF Unplug
<1>15. CASE UNCHANGED vars
  <2>1. TypeOK'
    BY <1>15 DEF vars, TypeOK
  <2> QED
    BY <1>12, <1>15, <2>1 DEF vars
<1> QED
  BY <1>1, <1>2, <1>3, <1>4, <1>5, <1>6, <1>7, <1>8, <1>9, <1>10, <1>11, <1>13, <1>14, <1>15
     DEF Next, PreInit

-----------------------------------------------------------------------------
(***************************************************************************)
(* Theorems.                                                               *)
(***************************************************************************)

\* What the driver promises of its shared records, in terms of this state.
Holds == [d \in Devs |-> IF dev[d] = Null THEN Null ELSE dev[d].common]

Exact == /\ \A d \in Devs : Holds[d] = Null <=> d \notin Used
         /\ \A c \in Commons : c \in Alive <=> \E d \in Devs : Holds[d] = c
         /\ \A d \in Devs : Holds[d] # Null => Holds[d] \in Alive
         /\ Alive \subseteq Commons

\* In a sound state what exists is what somebody has.
LEMMA AliveHeld == Sound => Exact
<1> SUFFICES ASSUME Sound PROVE Exact
  OBVIOUS
<1>1. \A d \in Used : Holds[d] = dev[d].common /\ dev[d].common \in Alive
  BY UsedType DEF Holds, Used, Sound
<1>2. \A d \in Devs : d \notin Used => Holds[d] = Null
  BY DEF Holds, Used
<1>3. Alive \subseteq Commons /\ \A c \in Commons : c # Null
  BY NullIs DEF Alive
<1>4. \A d \in Used : Holds[d] # Null
  BY <1>1, <1>3
<1>5. ASSUME NEW c \in Alive PROVE \E d \in Devs : Holds[d] = c
  <2>1. PICK d \in Holders(c) : TRUE
    BY <1>5 DEF Sound, Kept
  <2> QED
    BY <1>1, <2>1 DEF Holders, Used
<1> QED
  BY <1>1, <1>2, <1>3, <1>4, <1>5 DEF Used, Exact

THEOREM SoundAlways == Spec => []Sound
<1>1. Init => Sound
  BY SoundInit
<1>2. Sound /\ [Next]_vars => Sound'
  BY SoundStep
<1> QED
  BY <1>1, <1>2, PTL DEF Spec

\* The variables keep their types, and no device has a WacomCommonRec that was freed:
\* wcmUnInit of one device never takes the shared state from under another.
THEOREM TypeCorrect == Spec => []TypeOK
<1>1. Sound => TypeOK
  BY DEF Sound
<1> QED
  BY <1>1, SoundAlways, PTL

\* Whatever devices come and go and wherever wcmPreInit fails, a WacomCommonRec counts
\* and lists exactly the devices that have it, each once, and its tools are theirs.
THEOREM BooksKept == Spec => []CommonCounted
<1>1. Sound => CommonCounted
  BY SoundImplies
<1> QED
  BY <1>1, SoundAlways, PTL

\* The devices of one node that got through wcmMatchDevice share one WacomCommonRec.
THEOREM NodeShared == Spec => []OnePort
<1>1. Sound => OnePort
  BY SoundImplies
<1> QED
  BY <1>1, SoundAlways, PTL

\* The device that arbitration follows exists: wcmUnInit takes the pointer from it.
THEOREM PointerLive == Spec => []ActiveLive
<1>1. Sound => ActiveLive
  BY SoundImplies
<1> QED
  BY <1>1, SoundAlways, PTL

\* What refines RefCounting: a step that gives one device another object, or none, is
\* one of its steps, as what exists is what somebody has before and after it.
LEMMA RefStep ==
  ASSUME Sound, Sound', NEW d \in Devs, NEW o \in Commons \cup {Null},
         Holds' = [Holds EXCEPT ![d] = o],
         Holds[d] = Null => o \notin Alive,
         Holds[d] # Null => o \in Alive \cup {Null}
  PROVE  [R!Next]_R!refVars
<1>1. /\ \A x \in Devs : Holds[x] = Null <=> x \notin Used
      /\ \A c \in Commons : c \in Alive <=> \E x \in Devs : Holds[x] = c
      /\ \A x \in Devs : Holds[x] # Null => Holds[x] \in Alive
      /\ Alive \subseteq Commons
  BY AliveHeld DEF Exact
<1>2. /\ \A c \in Commons : c \in Alive' <=> \E x \in Devs : Holds'[x] = c
      /\ Alive' \subseteq Commons
  <2>1. Exact'
    BY AliveHeld, PTL
  <2> QED
    BY <2>1 DEF Exact
<1>3. Holds'[d] = o /\ \A x \in Devs \ {d} : Holds'[x] = Holds[x]
  BY DEF Holds
<1>4. Null \notin Commons
  BY NullIs
<1>5. CASE o = Holds[d]
  <2>1. Holds' = Holds
    BY <1>5 DEF Holds
  <2>2. Alive' = Alive
    BY <1>1, <1>2, <2>1
  <2> QED
    BY <2>1, <2>2 DEF R!refVars, Holds
<1>6. CASE o # Holds[d] /\ Holds[d] = Null
  <2>1. Alive' = Alive \cup {o}
    BY <1>1, <1>2, <1>3, <1>4, <1>6
  <2>2. R!Create(d, o)
    BY <2>1, <1>6 DEF R!Create, Holds
  <2> QED
    BY <1>6, <2>2 DEF R!Next
<1>7. CASE o # Holds[d] /\ Holds[d] # Null
  <2>1. Alive' = {c \in Alive : \E v \in Devs \ {d} : Holds[v] = c}
    BY <1>1, <1>2, <1>3, <1>4, <1>7
  <2>2. Alive' = R!Without(d)
    BY <2>1 DEF R!Without, Holds
  <2>3. CASE o = Null
    <3>1. R!Drop(d)
      BY <2>2, <2>3, <1>7 DEF R!Drop, Holds
    <3> QED
      BY <3>1 DEF R!Next
  <2>4. CASE o # Null
    <3>1. R!Exchange(d, o)
      BY <2>2, <2>4, <1>7 DEF R!Exchange, Holds
    <3> QED
      BY <2>4, <3>1 DEF R!Next
  <2> QED
    BY <2>3, <2>4
<1> QED
  BY <1>5, <1>6, <1>7

\* One that moves no device is a stutter.
LEMMA RefStutter ==
  ASSUME Sound, Sound',
         \A d \in Devs : /\ dev'[d] = Null <=> dev[d] = Null
                         /\ dev[d] # Null => dev'[d].common = dev[d].common
  PROVE  [R!Next]_R!refVars
<1>1. Holds' = Holds
  BY DEF Holds
<1>2. Exact /\ Exact'
  BY AliveHeld, PTL
<1>3. Alive' = Alive
  BY <1>1, <1>2 DEF Exact
<1> QED
  BY <1>1, <1>3 DEF R!refVars, Holds

LEMMA RefDrop ==
  ASSUME Sound, Sound', NEW d \in Devs, dev[d] # Null, dev' = [dev EXCEPT ![d] = Null]
  PROVE  [R!Next]_R!refVars
<1>1. Holds' = [Holds EXCEPT ![d] = Null]
  BY DEF Holds, Sound, TypeOK
<1>2. Holds[d] # Null
  BY UsedType, NullIs DEF Holds, Sound, Alive
<1> QED
  BY <1>1, <1>2, RefStep

\* Every step of the driver is a step of RefCounting.
LEMMA RefNext == Sound /\ Sound' /\ [Next]_vars => [R!Next]_R!refVars
<1> SUFFICES ASSUME Sound, Sound', [Next]_vars PROVE [R!Next]_R!refVars
  OBVIOUS
<1>t. TypeOK /\ dev \in [Devs -> Devices \cup {Null}] /\ setup \in [dev : Devs, step : Steps] \cup {Null}
  BY DEF Sound, TypeOK
<1>1. ASSUME NEW r \in todo, NewDevice(r) PROVE [R!Next]_R!refVars
  <2>1. Used # Devs /\ Alive # Commons /\ Used \subseteq Devs /\ Alive \subseteq Commons
    BY <1>1 DEF NewDevice, Used, Alive
  <2>2. PICK d \in Devs \ Used : d = Fresh(Devs, Used)
    BY <2>1 DEF Fresh
  <2>3. PICK c \in Commons \ Alive : c = Fresh(Commons, Alive)
    BY <2>1 DEF Fresh
  <2>4. dev' = [dev EXCEPT ![d] = Allocated(r, c)]
    BY <1>1, <2>2, <2>3 DEF NewDevice
  <2>5. Allocated(r, c) # Null /\ Allocated(r, c).common = c
    <3>1. r \in Requests
      BY <1>t DEF TypeOK
    <3>2. Allocated(r, c) \in Devices /\ Allocated(r, c).common = c
      BY <3>1 DEF Allocated, Requests, Devices
    <3> QED
      BY <3>2, NullIs
  <2>6. Holds' = [Holds EXCEPT ![d] = c] /\ Holds[d] = Null
    BY <1>t, <2>2, <2>4, <2>5 DEF Holds, Used
  <2> QED
    BY <2>6, RefStep
<1>2. ASSUME NEW d \in Devs, Match(d) PROVE [R!Next]_R!refVars
  <2>1. dev[d] # Null /\ dev[d] \in Devices /\ dev[d].common \in Alive
    <3>1. dev[d] # Null
      BY <1>2, <1>t, AtIs DEF Match, TypeOK, Steps
    <3> QED
      BY <1>t, <3>1, UsedType
  <2>2. CASE Partner(d) = Null
    <3>1. dev' = [dev EXCEPT ![d].fd = TRUE]
      BY <1>2, <2>2 DEF Match
    <3>2. dev'[d] \in Devices /\ dev'[d].common = dev[d].common
          /\ \A e \in Devs \ {d} : dev'[e] = dev[e]
      BY <1>t, <2>1, <3>1 DEF Devices
    <3> QED
      BY <2>1, <3>2, NullIs, RefStutter
  <2>3. CASE Partner(d) # Null
    <3>1. Partner(d) \in Used
      BY <2>3, PartnerIs
    <3>2. dev[Partner(d)].common \in Alive
      BY <1>t, <3>1, UsedType DEF Used
    <3>3. PICK c \in Alive : c = dev[Partner(d)].common
      BY <3>2
    <3>4. dev' = [dev EXCEPT ![d].fd = TRUE, ![d].common = c]
      BY <1>2, <2>3, <3>3 DEF Match
    <3>5. dev'[d] \in Devices /\ dev'[d].common = c /\ \A e \in Devs \ {d} : dev'[e] = dev[e]
      BY <1>t, <2>1, <3>4 DEF Devices, Alive
    <3>6. Holds' = [Holds EXCEPT ![d] = c] /\ Holds[d] # Null /\ c \in Commons
      BY <2>1, <3>5, NullIs DEF Holds, Alive
    <3> QED
      BY <3>6, RefStep
  <2> QED
    BY <2>2, <2>3
<1>3. ASSUME NEW d \in Devs, ChooseType(d) \/ On(d) \/ Off(d) PROVE [R!Next]_R!refVars
  <2>0. dev[d] # Null
    BY <1>3, <1>t, AtIs DEF ChooseType, On, Off, TypeOK, Steps
  <2>1. dev[d] \in Devices
    BY <1>t, <2>0, UsedType
  <2>2. \/ dev' = dev
        \/ dev' = [dev EXCEPT ![d].type = FirstType(dev[d].node),
                              ![d].source = "driver", ![d].parent = TRUE]
        \/ dev' = [dev EXCEPT ![d].on = TRUE]
        \/ dev' = [dev EXCEPT ![d].on = TRUE, ![d].fd = TRUE]
        \/ dev' = [dev EXCEPT ![d].on = FALSE, ![d].fd = FALSE]
    BY <1>3 DEF ChooseType, On, Off
  <2>3. dev'[d].common = dev[d].common /\ \A e \in Devs \ {d} : dev'[e] = dev[e]
    BY <1>t, <2>1, <2>2 DEF Devices
  <2>4. dev'[d] # Null
    <3>1. inputs' = inputs
      BY <1>3 DEF ChooseType, On, Off
    <3>2. Entries(inputs) = Used /\ Entries(inputs)' = Used'
      BY DEF Sound, Listing
    <3>3. Used' = Used
      BY <3>1, <3>2 DEF Entries
    <3> QED
      BY <2>0, <3>3 DEF Used
  <2> QED
    BY <2>0, <2>3, <2>4, RefStutter
<1>4. ASSUME NEW d \in Devs, AddTool(d) \/ Event(d) PROVE [R!Next]_R!refVars
  BY <1>4, RefStutter DEF AddTool, Event
<1>5. ASSUME NEW d \in Devs, Finish(d) PROVE [R!Next]_R!refVars
  <2>0. dev[d] # Null
    BY <1>5, <1>t, AtIs DEF Finish, TypeOK, Steps
  <2>1. dev[d] \in Devices
    BY <1>t, <2>0, UsedType
  <2>2. dev' = [dev EXCEPT ![d].fd = FALSE]
    BY <1>5 DEF Finish
  <2>3. dev'[d] \in Devices /\ dev'[d].common = dev[d].common /\ \A e \in Devs \ {d} : dev'[e] = dev[e]
    BY <1>t, <2>1, <2>2 DEF Devices
  <2> QED
    BY <2>0, <2>3, NullIs, RefStutter
<1>6. ASSUME NEW d \in Devs, Refuse(d) \/ Fault(d) PROVE [R!Next]_R!refVars
  <2>1. \E step \in Steps : At(d, step)
    BY <1>6 DEF Refuse, Fault, Steps
  <2>2. dev[d] # Null
    BY <1>t, <2>1, AtIs DEF TypeOK
  <2>3. dev' = [dev EXCEPT ![d] = Null]
    BY <1>6 DEF Refuse, Fault, Fail, UnInit
  <2> QED
    BY <2>2, <2>3, RefDrop
<1>7. ASSUME NEW d \in Devs, Remove(d) PROVE [R!Next]_R!refVars
  BY <1>7, RefDrop DEF Remove, UnInit
<1>8. ASSUME NEW n \in Nodes, Plug(n) \/ Unplug(n) PROVE [R!Next]_R!refVars
  BY <1>8, RefStutter DEF Plug, Unplug
<1>9. CASE UNCHANGED vars
  BY <1>9, RefStutter DEF vars
<1> QED
  BY <1>1, <1>2, <1>3, <1>4, <1>5, <1>6, <1>7, <1>8, <1>9 DEF Next, PreInit

\* The driver's reference counting is RefCounting: the step in which the last device of
\* a WacomCommonRec leaves it, be it wcmUnInit, a PreInit that fails or one that joins
\* another tablet, is the step that frees it, and none frees it before.
THEOREM CountingRefined == Spec => RefSpec
<1>1. Init => R!Init
  <2>1. Init => Used = {} /\ Alive = {}
    BY DEF Init, Used, Alive
  <2> QED
    BY <2>1 DEF Init, R!Init
<1>2. Sound /\ Sound' /\ [Next]_vars => [R!Next]_R!refVars
  BY RefNext
<1> QED
  BY <1>1, <1>2, SoundAlways, PTL DEF Spec, RefSpec, R!Spec

=============================================================================
