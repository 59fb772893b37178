---------------------------- MODULE Buttons_proofs ----------------------------
(***************************************************************************)
(* Proofs about Buttons: panscroll mode ends with its button, the server   *)
(* has pressed what is held, and no distance is lost while panning.        *)
(***************************************************************************)
EXTENDS Buttons, Loops, FiniteSetTheorems, TLAPS

-----------------------------------------------------------------------------
(***************************************************************************)
(* The loops.                                                              *)
(***************************************************************************)
LEMMA PressLoop ==
  ASSUME NEW d, NEW act, Len(act) \in Nat
  PROVE  \E f : /\ f[0] = d
                /\ \A i \in 1 .. Len(act) : f[i] = Perform(f[i - 1], act[i])
                /\ Press(d, act) = f[Len(act)]
<1> DEFINE Step(f, i) == IF i = 0 THEN d ELSE Perform(f[i - 1], act[i])
           I == {n \in Nat : \E f : f = [i \in 0 .. n |-> Step(f, i)]}
           F == CHOOSE f : f = [i \in 0 .. Len(act) |-> Step(f, i)]
<1>1. 0 \in I
  <2> DEFINE f == [i \in 0 .. 0 |-> d]
  <2>1. f = [i \in 0 .. 0 |-> Step(f, i)]
    OBVIOUS
  <2> QED
    BY <2>1
<1>2. ASSUME NEW n \in I PROVE n + 1 \in I
  <2>1. PICK f : f = [i \in 0 .. n |-> Step(f, i)]
    OBVIOUS
  <2> DEFINE g == [i \in 0 .. n + 1 |-> Step(f, i)]
  <2>2. \A i \in 0 .. n : f[i] = g[i]
    BY <2>1
  <2>3. g = [i \in 0 .. n + 1 |-> Step(f, i)]
    OBVIOUS
  <2> HIDE DEF g
  <2>4. \A i \in 0 .. n + 1 : Step(f, i) = Step(g, i)
    <3> TAKE i \in 0 .. n + 1
    <3>1. i = 0 \/ i - 1 \in 0 .. n
      OBVIOUS
    <3> QED
      BY <2>2, <3>1
  <2> HIDE DEF Step
  <2>5. g = [i \in 0 .. n + 1 |-> Step(g, i)]
    BY <2>3, <2>4
  <2>6. n + 1 \in Nat
    OBVIOUS
  <2> QED
    BY <2>5, <2>6
<1>3. F = [i \in 0 .. Len(act) |-> Step(F, i)]
  <2>1. I = Nat
    BY <1>1, <1>2, Induct
  <2> QED
    BY <2>1
<1>4. Press(d, act) = F[Len(act)]
  BY DEF Press
<1> HIDE DEF F
<1>5. F[0] = d /\ \A i \in 1 .. Len(act) : F[i] = Perform(F[i - 1], act[i])
  BY <1>3
<1> QED
  BY <1>4, <1>5

LEMMA ReleaseLoop ==
  ASSUME NEW d, NEW act, Len(act) \in Nat
  PROVE  \E f : /\ f[0] = d
                /\ \A i \in 1 .. Len(act) : f[i] = Undo(f[i - 1], act, i)
                /\ Release(d, act) = f[Len(act)]
<1> DEFINE Step(f, i) == IF i = 0 THEN d ELSE Undo(f[i - 1], act, i)
           I == {n \in Nat : \E f : f = [i \in 0 .. n |-> Step(f, i)]}
           F == CHOOSE f : f = [i \in 0 .. Len(act) |-> Step(f, i)]
<1>1. 0 \in I
  <2> DEFINE f == [i \in 0 .. 0 |-> d]
  <2>1. f = [i \in 0 .. 0 |-> Step(f, i)]
    OBVIOUS
  <2> QED
    BY <2>1
<1>2. ASSUME NEW n \in I PROVE n + 1 \in I
  <2>1. PICK f : f = [i \in 0 .. n |-> Step(f, i)]
    OBVIOUS
  <2> DEFINE g == [i \in 0 .. n + 1 |-> Step(f, i)]
  <2>2. \A i \in 0 .. n : f[i] = g[i]
    BY <2>1
  <2>3. g = [i \in 0 .. n + 1 |-> Step(f, i)]
    OBVIOUS
  <2> HIDE DEF g
  <2>4. \A i \in 0 .. n + 1 : Step(f, i) = Step(g, i)
    <3> TAKE i \in 0 .. n + 1
    <3>1. i = 0 \/ i - 1 \in 0 .. n
      OBVIOUS
    <3> QED
      BY <2>2, <3>1
  <2> HIDE DEF Step
  <2>5. g = [i \in 0 .. n + 1 |-> Step(g, i)]
    BY <2>3, <2>4
  <2>6. n + 1 \in Nat
    OBVIOUS
  <2> QED
    BY <2>5, <2>6
<1>3. F = [i \in 0 .. Len(act) |-> Step(F, i)]
  <2>1. I = Nat
    BY <1>1, <1>2, Induct
  <2> QED
    BY <2>1
<1>4. Release(d, act) = F[Len(act)]
  BY DEF Release
<1> HIDE DEF F
<1>5. F[0] = d /\ \A i \in 1 .. Len(act) : F[i] = Undo(F[i - 1], act, i)
  BY <1>3
<1> QED
  BY <1>4, <1>5

LEMMA ChangesLoop ==
  ASSUME NEW d, NEW old, NEW now, NEW first \in Nat, NButtons \in Nat, first <= NButtons
  PROVE  \E f : /\ f[first] = d
                /\ \A i \in first + 1 .. NButtons : f[i] = SendChange(f[i - 1], old, now, i - 1)
                /\ SendChanges(d, old, now, first) = f[NButtons]
<1> DEFINE Step(f, i) == IF i = first THEN d ELSE SendChange(f[i - 1], old, now, i - 1)
           I == {n \in Nat : \E f : f = [i \in first .. (first + n) |-> Step(f, i)]}
           F == CHOOSE f : f = [i \in first .. NButtons |-> Step(f, i)]
<1>1. 0 \in I
  <2> DEFINE f == [i \in first .. first |-> d]
  <2>1. f = [i \in first .. first |-> Step(f, i)]
    OBVIOUS
  <2>2. first + 0 = first
    OBVIOUS
  <2> HIDE DEF Step, f
  <2> QED
    BY <2>1, <2>2
<1>2. ASSUME NEW n \in I PROVE n + 1 \in I
  <2>1. PICK f : f = [i \in first .. (first + n) |-> Step(f, i)]
    OBVIOUS
  <2> DEFINE g == [i \in first .. (first + n) + 1 |-> Step(f, i)]
  <2>2. \A i \in first .. (first + n) : f[i] = g[i]
    BY <2>1
  <2>3. g = [i \in first .. (first + n) + 1 |-> Step(f, i)]
    OBVIOUS
  <2> HIDE DEF g
  <2>4. \A i \in first .. (first + n) + 1 : Step(f, i) = Step(g, i)
    <3> TAKE i \in first .. (first + n) + 1
    <3>1. i = first \/ i - 1 \in first .. (first + n)
      OBVIOUS
    <3> QED
      BY <2>2, <3>1
  <2> HIDE DEF Step
  <2>5. g = [i \in first .. (first + n) + 1 |-> Step(g, i)]
    BY <2>3, <2>4
  <2>6. n + 1 \in Nat /\ first + (n + 1) = (first + n) + 1
    OBVIOUS
  <2> QED
    BY <2>5, <2>6
<1>3. F = [i \in first .. NButtons |-> Step(F, i)]
  <2>1. I = Nat
    BY <1>1, <1>2, Induct
  <2>2. NButtons - first \in Nat /\ first + (NButtons - first) = NButtons
    OBVIOUS
  <2> HIDE DEF Step
  <2>3. \E f : f = [i \in first .. (first + (NButtons - first)) |-> Step(f, i)]
    BY <2>1, <2>2
  <2> QED
    BY <2>2, <2>3
<1>4. SendChanges(d, old, now, first) = F[NButtons]
  BY DEF SendChanges
<1> HIDE DEF F
<1>5. F[first] = d /\ \A i \in first + 1 .. NButtons : F[i] = SendChange(F[i - 1], old, now, i - 1)
  BY <1>3
<1> QED
  BY <1>4, <1>5

LEMMA KeysLoop ==
  ASSUME NEW d, NEW keys, NKeys \in Nat
  PROVE  \E f : /\ f[0] = d
                /\ \A i \in 1 .. NKeys : f[i] = SendKey(f[i - 1], d.keys, keys, i - 1)
                /\ SendKeys(d, keys) = f[NKeys]
<1> DEFINE Step(f, i) == IF i = 0 THEN d ELSE SendKey(f[i - 1], d.keys, keys, i - 1)
           I == {n \in Nat : \E f : f = [i \in 0 .. n |-> Step(f, i)]}
           F == CHOOSE f : f = [i \in 0 .. NKeys |-> Step(f, i)]
<1>1. 0 \in I
  <2> DEFINE f == [i \in 0 .. 0 |-> d]
  <2>1. f = [i \in 0 .. 0 |-> Step(f, i)]
    OBVIOUS
  <2> QED
    BY <2>1
<1>2. ASSUME NEW n \in I PROVE n + 1 \in I
  <2>1. PICK f : f = [i \in 0 .. n |-> Step(f, i)]
    OBVIOUS
  <2> DEFINE g == [i \in 0 .. n + 1 |-> Step(f, i)]
  <2>2. \A i \in 0 .. n : f[i] = g[i]
    BY <2>1
  <2>3. g = [i \in 0 .. n + 1 |-> Step(f, i)]
    OBVIOUS
  <2> HIDE DEF g
  <2>4. \A i \in 0 .. n + 1 : Step(f, i) = Step(g, i)
    <3> TAKE i \in 0 .. n + 1
    <3>1. i = 0 \/ i - 1 \in 0 .. n
      OBVIOUS
    <3> QED
      BY <2>2, <3>1
  <2> HIDE DEF Step
  <2>5. g = [i \in 0 .. n + 1 |-> Step(g, i)]
    BY <2>3, <2>4
  <2>6. n + 1 \in Nat
    OBVIOUS
  <2> QED
    BY <2>5, <2>6
<1>3. F = [i \in 0 .. NKeys |-> Step(F, i)]
  <2>1. I = Nat
    BY <1>1, <1>2, Induct
  <2> QED
    BY <2>1
<1>4. SendKeys(d, keys) = F[NKeys]
  BY DEF SendKeys
<1> HIDE DEF F
<1>5. F[0] = d /\ \A i \in 1 .. NKeys : F[i] = SendKey(F[i - 1], d.keys, keys, i - 1)
  BY <1>3
<1> QED
  BY <1>4, <1>5
LEMMA NotchLoop ==
  ASSUME NEW d0, NEW distance, Abs(Quotient(distance, Threshold)) \in Nat
  PROVE  LET N == Abs(Quotient(distance, Threshold))
             b == IF Quotient(distance, Threshold) > 0 THEN 4 ELSE 5
         IN  \E f : /\ f[0] = [d0 EXCEPT !.pan = Remainder(distance, Threshold)]
                    /\ \A i \in 1 .. N : f[i] = Notch(f[i - 1], b)
                    /\ ButtonPerNotch(d0, distance) = f[N]
<1> DEFINE d == [d0 EXCEPT !.pan = Remainder(distance, Threshold)]
           N == Abs(Quotient(distance, Threshold))
           b == IF Quotient(distance, Threshold) > 0 THEN 4 ELSE 5
<1>0. N \in Nat
  OBVIOUS
<1> HIDE DEF N, d, b
<1> DEFINE Step(f, i) == IF i = 0 THEN d ELSE Notch(f[i - 1], b)
           I == {n \in Nat : \E f : f = [i \in 0 .. n |-> Step(f, i)]}
           F == CHOOSE f : f = [i \in 0 .. N |-> Step(f, i)]
<1>1. 0 \in I
  <2> DEFINE f == [i \in 0 .. 0 |-> d]
  <2>1. f = [i \in 0 .. 0 |-> Step(f, i)]
    OBVIOUS
  <2> QED
    BY <2>1
<1>2. ASSUME NEW n \in I PROVE n + 1 \in I
  <2>1. PICK f : f = [i \in 0 .. n |-> Step(f, i)]
    OBVIOUS
  <2> DEFINE g == [i \in 0 .. n + 1 |-> Step(f, i)]
  <2>2. \A i \in 0 .. n : f[i] = g[i]
    BY <2>1
  <2>3. g = [i \in 0 .. n + 1 |-> Step(f, i)]
    OBVIOUS
  <2> HIDE DEF g
  <2>4. \A i \in 0 .. n + 1 : Step(f, i) = Step(g, i)
    <3> TAKE i \in 0 .. n + 1
    <3>1. i = 0 \/ i - 1 \in 0 .. n
      OBVIOUS
    <3> QED
      BY <2>2, <3>1
  <2> HIDE DEF Step
  <2>5. g = [i \in 0 .. n + 1 |-> Step(g, i)]
    BY <2>3, <2>4
  <2>6. n + 1 \in Nat
    OBVIOUS
  <2> QED
    BY <2>5, <2>6
<1>3. F = [i \in 0 .. N |-> Step(F, i)]
  <2>1. I = Nat
    BY <1>1, <1>2, Induct
  <2> QED
    BY <1>0, <2>1
<1>4. ButtonPerNotch(d0, distance) = F[N]
  BY DEF ButtonPerNotch, N, d, b
<1> HIDE DEF F
<1>5. F[0] = d /\ \A i \in 1 .. N : F[i] = Notch(F[i - 1], b)
  BY <1>0, <1>3
<1> QED
  BY <1>4, <1>5 DEF N, d, b

-----------------------------------------------------------------------------
(***************************************************************************)
(* Types, and what one event of an action does.                            *)
(***************************************************************************)
Pressable == {"button", "key"} \X Nat
Sendable  == {"button", "key"} \X Nat \X BOOLEAN
Devices   == [prox : BOOLEAN, buttons : SUBSET ButtonSet, keys : SUBSET Keys, y : Int,
              ring : Int, scroll : BOOLEAN, absolute : BOOLEAN, pan : Int,
              down : SUBSET Pressable, out : Seq(Sendable)]

\* x is a device of the same oldState as d.
SameOld(x, d) == /\ x \in Devices
                 /\ x.prox = d.prox /\ x.buttons = d.buttons /\ x.keys = d.keys
                 /\ x.y = d.y /\ x.ring = d.ring

\* x is d after that event was sent.
Sent(x, d, type, code, press) ==
  /\ SameOld(x, d) /\ x.scroll = d.scroll /\ x.pan = d.pan
  /\ x.down = IF press THEN d.down \cup {<<type, code>>} ELSE d.down \ {<<type, code>>}
  /\ x.out = Append(d.out, <<type, code, press>>)

LEMMA EmitDoes ==
  ASSUME NEW d \in Devices, NEW type \in {"button", "key"}, NEW code \in Nat, NEW press \in BOOLEAN
  PROVE  Sent(Emit(d, type, code, press), d, type, code, press)
<1> DEFINE down == IF press THEN d.down \cup {<<type, code>>} ELSE d.down \ {<<type, code>>}
           out  == Append(d.out, <<type, code, press>>)
<1>1. <<type, code>> \in Pressable /\ <<type, code, press>> \in Sendable
  BY DEF Pressable, Sendable
<1>2. d.down \in SUBSET Pressable /\ d.out \in Seq(Sendable)
  BY DEF Devices
<1>3. down \in SUBSET Pressable
  BY <1>1, <1>2
<1>4. out \in Seq(Sendable)
  BY <1>1, <1>2
<1>5. Emit(d, type, code, press) = [d EXCEPT !.down = down, !.out = out]
  BY DEF Emit
<1> HIDE DEF down, out
<1>6. Emit(d, type, code, press) \in Devices
  BY <1>3, <1>4, <1>5 DEF Devices
<1>7. LET x == Emit(d, type, code, press)
      IN  /\ x.prox = d.prox /\ x.buttons = d.buttons /\ x.keys = d.keys /\ x.y = d.y
          /\ x.ring = d.ring /\ x.scroll = d.scroll /\ x.pan = d.pan /\ x.down = down /\ x.out = out
  BY <1>5 DEF Devices
<1> QED
  BY <1>6, <1>7 DEF Sent, SameOld, down, out

\* Nothing was sent.
Still(x, d, scroll, pan) ==
  SameOld(x, d) /\ x.scroll = scroll /\ x.pan = pan /\ x.down = d.down /\ x.out = d.out

LEMMA ModeDoes ==
  ASSUME NEW d \in Devices
  PROVE  /\ Still(d, d, d.scroll, d.pan)
         /\ Still([d EXCEPT !.absolute = ~@ \/ conf.kind = "pad"], d, d.scroll, d.pan)
         /\ Still([d EXCEPT !.scroll = TRUE, !.pan = 0], d, TRUE, 0)
         /\ Still([d EXCEPT !.scroll = FALSE], d, FALSE, d.pan)
<1>1. Still(d, d, d.scroll, d.pan)
  BY DEF Still, SameOld
<1>2. ASSUME NEW mode \in BOOLEAN PROVE Still([d EXCEPT !.absolute = mode], d, d.scroll, d.pan)
  BY DEF Still, SameOld, Devices
<1>3. (~d.absolute \/ conf.kind = "pad") \in BOOLEAN
  OBVIOUS
<1>4. Still([d EXCEPT !.absolute = ~@ \/ conf.kind = "pad"], d, d.scroll, d.pan)
  BY <1>2, <1>3
<1>5. Still([d EXCEPT !.scroll = TRUE, !.pan = 0], d, TRUE, 0)
  <2> DEFINE x == [d EXCEPT !.scroll = TRUE, !.pan = 0]
  <2>1. x \in Devices
    <3>1. ASSUME NEW flag \in BOOLEAN, NEW n \in Int
          PROVE  [d EXCEPT !.scroll = flag, !.pan = n] \in Devices
      BY DEF Devices
    <3>2. TRUE \in BOOLEAN /\ 0 \in Int
      OBVIOUS
    <3> QED
      BY <3>1, <3>2, Zenon
  <2>2. /\ x.prox = d.prox /\ x.buttons = d.buttons /\ x.keys = d.keys /\ x.y = d.y
        /\ x.ring = d.ring /\ x.pan = 0 /\ x.down = d.down /\ x.out = d.out
    BY DEF Devices
  <2>3. x.scroll = TRUE
    BY DEF Devices
  <2> QED
    BY <2>1, <2>2, <2>3 DEF Still, SameOld
<1>6. Still([d EXCEPT !.scroll = FALSE], d, FALSE, d.pan)
  BY DEF Still, SameOld, Devices
<1> QED
  BY <1>1, <1>4, <1>5, <1>6

\* Whether an entry of an action reaches the server when it is performed.
Heard(d, e) == Clicking(e) /\ ~(Code(e) = <<"button", 1>> /\ d.scroll)

Performed(x, d, e) ==
  IF Heard(d, e) THEN Sent(x, d, e.type, e.code, e.press)
  ELSE IF e.type = "panscroll" THEN Still(x, d, TRUE, 0) ELSE Still(x, d, d.scroll, d.pan)

LEMMA PerformDoes ==
  ASSUME NEW d \in Devices, NEW e \in Entries
  PROVE  Performed(Perform(d, e), d, e)
<1>0. e.code \in Nat /\ e.press \in BOOLEAN /\ e.type \in {"button", "key", "modetoggle", "panscroll"}
  BY DEF Entries
<1>1. CASE e.type = "button"
  <2>1. Heard(d, e) <=> ~(e.code = 1 /\ d.scroll)
    BY <1>1 DEF Heard, Clicking, Code
  <2>2. Perform(d, e) = IF e.code = 1 /\ d.scroll THEN d ELSE Emit(d, "button", e.code, e.press)
    BY <1>1 DEF Perform
  <2>3. CASE e.code = 1 /\ d.scroll
    BY <1>1, <2>1, <2>2, <2>3, ModeDoes DEF Performed
  <2>4. CASE ~(e.code = 1 /\ d.scroll)
    <3>1. Sent(Emit(d, "button", e.code, e.press), d, "button", e.code, e.press)
      BY <1>0, EmitDoes
    <3> QED
      BY <1>1, <2>1, <2>2, <2>4, <3>1 DEF Performed
  <2> QED
    BY <2>3, <2>4
<1>2. CASE e.type = "key"
  <2>1. Heard(d, e)
    BY <1>2 DEF Heard, Clicking, Code
  <2>2. Perform(d, e) = Emit(d, "key", e.code, e.press)
    BY <1>2 DEF Perform
  <2>3. Sent(Emit(d, "key", e.code, e.press), d, "key", e.code, e.press)
    BY <1>0, EmitDoes
  <2> QED
    BY <1>2, <2>1, <2>2, <2>3 DEF Performed
<1>3. CASE e.type = "modetoggle"
  <2>1. ~Heard(d, e)
    BY <1>3 DEF Heard, Clicking
  <2>2. Perform(d, e) = [d EXCEPT !.absolute = ~@ \/ conf.kind = "pad"]
    BY <1>3 DEF Perform
  <2> QED
    BY <1>3, <2>1, <2>2, ModeDoes DEF Performed
<1>4. CASE e.type = "panscroll"
  <2>1. ~Heard(d, e)
    BY <1>4 DEF Heard, Clicking
  <2>2. Perform(d, e) = [d EXCEPT !.scroll = TRUE, !.pan = 0]
    BY <1>4 DEF Perform
  <2> QED
    BY <1>4, <2>1, <2>2, ModeDoes DEF Performed
<1> QED
  BY <1>0, <1>1, <1>2, <1>3, <1>4

\* Whether the release of an entry is sent with the release of its button.
Undone(act, i) == Clicking(act[i]) /\ act[i].press /\ CountPresses(act, i) # 0

Undid(x, d, act, i) ==
  IF Undone(act, i) THEN Sent(x, d, act[i].type, act[i].code, FALSE)
  ELSE IF act[i].type = "panscroll" THEN Still(x, d, FALSE, d.pan) ELSE Still(x, d, d.scroll, d.pan)

LEMMA UndoDoes ==
  ASSUME NEW d \in Devices, NEW act \in ActionLists, NEW i \in 1 .. Len(act)
  PROVE  Undid(Undo(d, act, i), d, act, i)
<1>0. act[i] \in Entries
  BY DEF ActionLists
<1>1. CASE act[i].type = "panscroll"
  <2>1. ~Undone(act, i)
    BY <1>1 DEF Undone, Clicking
  <2>2. Undo(d, act, i) = [d EXCEPT !.scroll = FALSE]
    BY <1>1 DEF Undo
  <2> QED
    BY <1>1, <2>1, <2>2, ModeDoes DEF Undid
<1>2. CASE act[i].type # "panscroll" /\ Undone(act, i)
  <2>1. Undo(d, act, i) = Emit(d, act[i].type, act[i].code, FALSE)
    BY <1>2 DEF Undo, Undone, Clicking
  <2>2. act[i].type \in {"button", "key"} /\ act[i].code \in Nat
    BY <1>0, <1>2 DEF Undone, Clicking, Entries
  <2>3. Sent(Emit(d, act[i].type, act[i].code, FALSE), d, act[i].type, act[i].code, FALSE)
    BY <2>2, EmitDoes
  <2> QED
    BY <1>2, <2>1, <2>3 DEF Undid
<1>3. CASE act[i].type # "panscroll" /\ ~Undone(act, i)
  <2>1. Undo(d, act, i) = d
    BY <1>3 DEF Undo, Undone, Clicking
  <2> QED
    BY <1>3, <2>1, ModeDoes DEF Undid
<1> QED
  BY <1>1, <1>2, <1>3

LEMMA ClicksAppend ==
  ASSUME NEW out \in Seq(Sendable), NEW e \in Sendable
  PROVE  /\ Clicks(out) \in Int
         /\ e = <<"button", 4, TRUE>> => Clicks(Append(out, e)) = Clicks(out) + 1
         /\ e = <<"button", 5, TRUE>> => Clicks(Append(out, e)) = Clicks(out) - 1
         /\ e # <<"button", 4, TRUE>> /\ e # <<"button", 5, TRUE>> =>
              Clicks(Append(out, e)) = Clicks(out)
<1> DEFINE up == <<"button", 4, TRUE>>
           dn == <<"button", 5, TRUE>>
           Of(s, c) == {i \in DOMAIN s : s[i] = c}
           n == Len(out) + 1
           more == Append(out, e)
<1>0. up # dn
  OBVIOUS
<1>1. /\ Len(out) \in Nat /\ DOMAIN out = 1 .. Len(out) /\ DOMAIN more = 1 .. n
      /\ more[n] = e /\ \A i \in 1 .. Len(out) : more[i] = out[i]
  OBVIOUS
<1>5. Clicks(out) = Cardinality(Of(out, up)) - Cardinality(Of(out, dn))
  BY DEF Clicks
<1>6. Clicks(more) = Cardinality(Of(more, up)) - Cardinality(Of(more, dn))
  BY DEF Clicks
<1> HIDE DEF more, up, dn
<1>2. ASSUME NEW c PROVE IsFiniteSet(Of(out, c)) /\ Cardinality(Of(out, c)) \in Nat /\ n \notin Of(out, c)
  <2>1. IsFiniteSet(1 .. Len(out))
    BY <1>1, FS_Interval
  <2>2. Of(out, c) \subseteq 1 .. Len(out)
    BY <1>1
  <2>3. IsFiniteSet(Of(out, c))
    BY <2>1, <2>2, FS_Subset
  <2>4. n \notin 1 .. Len(out)
    BY <1>1
  <2> QED
    BY <2>2, <2>3, <2>4, FS_CardinalityType
<1>3. ASSUME NEW c, e = c
      PROVE  Cardinality(Of(more, c)) = Cardinality(Of(out, c)) + 1
  <2>1. 1 .. n = (1 .. Len(out)) \cup {n}
    BY <1>1
  <2>2. Of(more, c) = Of(out, c) \cup {n}
    BY <1>1, <1>3, <2>1
  <2> HIDE DEF Of
  <2> QED
    BY <1>2, <2>2, FS_AddElement
<1>4. ASSUME NEW c, e # c
      PROVE  Of(more, c) = Of(out, c)
  <2>1. 1 .. n = (1 .. Len(out)) \cup {n}
    BY <1>1
  <2> QED
    BY <1>1, <1>4, <2>1
<1> HIDE DEF Of
<1>7. /\ Cardinality(Of(out, up)) \in Nat /\ Cardinality(Of(out, dn)) \in Nat
      /\ e = up => Cardinality(Of(more, up)) = Cardinality(Of(out, up)) + 1
      /\ e = dn => Cardinality(Of(more, dn)) = Cardinality(Of(out, dn)) + 1
      /\ e # up => Of(more, up) = Of(out, up)
      /\ e # dn => Of(more, dn) = Of(out, dn)
  BY <1>2, <1>3, <1>4
<1>8. /\ Clicks(out) \in Int
      /\ e = up => Clicks(more) = Clicks(out) + 1
      /\ e = dn => Clicks(more) = Clicks(out) - 1
      /\ e # up /\ e # dn => Clicks(more) = Clicks(out)
  BY <1>0, <1>5, <1>6, <1>7
<1> QED
  BY <1>8 DEF more, up, dn

-----------------------------------------------------------------------------
(***************************************************************************)
(* What pressing and releasing a button does.                              *)
(***************************************************************************)
PansUpto(act, i) == \E j \in 1 .. i : act[j].type = "panscroll"

LEMMA PansAtEnd ==
  ASSUME NEW act \in ActionLists
  PROVE  /\ Len(act) \in Nat /\ DOMAIN act = 1 .. Len(act)
         /\ \A i \in 1 .. Len(act) : act[i] \in Entries
         /\ PansUpto(act, Len(act)) <=> Pans(act)
         /\ ~PansUpto(act, 0)
         /\ \A i \in 1 .. Len(act) :
              PansUpto(act, i) <=> PansUpto(act, i - 1) \/ act[i].type = "panscroll"
<1>1. /\ Len(act) \in Nat /\ DOMAIN act = 1 .. Len(act)
      /\ \A i \in 1 .. Len(act) : act[i] \in Entries
  BY DEF ActionLists
<1>2. PansUpto(act, Len(act)) <=> Pans(act)
  BY <1>1 DEF PansUpto, Pans
<1>3. ~PansUpto(act, 0)
  BY DEF PansUpto
<1>4. ASSUME NEW i \in 1 .. Len(act)
      PROVE  PansUpto(act, i) <=> PansUpto(act, i - 1) \/ act[i].type = "panscroll"
  <2>1. 1 .. i = (1 .. i - 1) \cup {i}
    BY <1>1
  <2> QED
    BY <2>1 DEF PansUpto
<1> QED
  BY <1>1, <1>2, <1>3, <1>4

\* x is d after the first i entries of act were performed.
PressedUpto(x, d, act, i) ==
  /\ SameOld(x, d)
  /\ x.scroll <=> d.scroll \/ PansUpto(act, i)
  /\ PansUpto(act, i) => x.pan = 0
  /\ ~PansUpto(act, i) => x.pan = d.pan

LEMMA PressedOn ==
  ASSUME NEW d \in Devices, NEW act \in ActionLists, NEW i \in 1 .. Len(act),
         NEW x, PressedUpto(x, d, act, i - 1), NEW y, Performed(y, x, act[i])
  PROVE  PressedUpto(y, d, act, i)
<1>1. PansUpto(act, i) <=> PansUpto(act, i - 1) \/ act[i].type = "panscroll"
  BY PansAtEnd
<1>2. Heard(x, act[i]) => act[i].type # "panscroll"
  BY DEF Heard, Clicking
<1>3. CASE Heard(x, act[i])
  BY <1>1, <1>2, <1>3 DEF Performed, Sent, PressedUpto, SameOld
<1>4. CASE ~Heard(x, act[i]) /\ act[i].type = "panscroll"
  <2>1. Still(y, x, TRUE, 0)
    BY <1>4 DEF Performed
  <2>2. y.scroll /\ y.pan = 0 /\ SameOld(y, x)
    BY <2>1 DEF Still
  <2> QED
    BY <1>1, <1>4, <2>2 DEF PressedUpto, SameOld
<1>5. CASE ~Heard(x, act[i]) /\ act[i].type # "panscroll"
  BY <1>1, <1>5 DEF Performed, Still, PressedUpto, SameOld
<1> QED
  BY <1>3, <1>4, <1>5

\* The states of the device while act is performed.
PressStates(f, d, act) ==
  /\ f[0] = d /\ f[Len(act)] = Press(d, act)
  /\ \A i \in 0 .. Len(act) : PressedUpto(f[i], d, act, i)
  /\ \A i \in 1 .. Len(act) : Performed(f[i], f[i - 1], act[i])

LEMMA PressSteps ==
  ASSUME NEW d \in Devices, NEW act \in ActionLists
  PROVE  \E f : PressStates(f, d, act)
<1> DEFINE N == Len(act)
<1>0. N \in Nat
  BY PansAtEnd
<1>1. PICK f : /\ f[0] = d
               /\ \A i \in 1 .. N : f[i] = Perform(f[i - 1], act[i])
               /\ Press(d, act) = f[N]
  BY <1>0, PressLoop
<1> HIDE DEF N
<1>2. ASSUME NEW i \in 1 .. N, PressedUpto(f[i - 1], d, act, i - 1)
      PROVE  Performed(f[i], f[i - 1], act[i]) /\ PressedUpto(f[i], d, act, i)
  <2>1. f[i - 1] \in Devices
    BY <1>2 DEF PressedUpto, SameOld
  <2>2. act[i] \in Entries
    BY PansAtEnd DEF N
  <2>3. Performed(f[i], f[i - 1], act[i])
    BY <1>1, <2>1, <2>2, PerformDoes
  <2>4. i \in 1 .. Len(act)
    BY DEF N
  <2> QED
    BY <1>2, <2>3, <2>4, PressedOn
<1>3. PressedUpto(f[0], d, act, 0)
  BY <1>1, PansAtEnd DEF PressedUpto, SameOld
<1>4. ASSUME NEW m \in 0 .. N PROVE PressedUpto(f[m], d, act, m)
  <2> DEFINE I == {n \in 0 .. m : PressedUpto(f[n], d, act, n)}
  <2>1. 0 \in I
    BY <1>3
  <2>2. ASSUME NEW n \in I, n < m PROVE n + 1 \in I
    <3>1. n + 1 \in 1 .. N /\ (n + 1) - 1 = n /\ n + 1 \in 0 .. m
      BY <1>0, <2>2
    <3> DEFINE k == n + 1
    <3>2. k \in 1 .. N /\ k - 1 = n /\ k \in 0 .. m
      BY <3>1
    <3> HIDE DEF k
    <3>3. PressedUpto(f[k], d, act, k)
      BY <1>2, <3>2
    <3> QED
      BY <3>2, <3>3 DEF k
  <2>3. I \in SUBSET (0 .. m) /\ m \in Nat
    BY <1>0
  <2>4. m \in I
    <3> HIDE DEF I
    <3> QED
      BY <2>1, <2>2, <2>3, UpTo
  <2> QED
    BY <2>4
<1>5. ASSUME NEW i \in 1 .. N PROVE Performed(f[i], f[i - 1], act[i])
  <2>1. i - 1 \in 0 .. N
    BY <1>0
  <2> QED
    BY <1>2, <1>4, <2>1
<1> QED
  BY <1>1, <1>4, <1>5 DEF PressStates, N

LEMMA PressDoes ==
  ASSUME NEW d \in Devices, NEW act \in ActionLists
  PROVE  LET x == Press(d, act)
         IN  /\ SameOld(x, d)
             /\ x.scroll <=> d.scroll \/ Pans(act)
             /\ Pans(act) => x.pan = 0
             /\ ~Pans(act) => x.pan = d.pan
<1>1. PICK f : PressStates(f, d, act)
  BY PressSteps
<1>2. PressedUpto(Press(d, act), d, act, Len(act))
  BY <1>1, PansAtEnd DEF PressStates
<1> QED
  BY <1>2, PansAtEnd DEF PressedUpto

\* Whether c is pressed by the first i entries of act and not released by them.
LastPress(act, i, c) ==
  \E j \in 1 .. i : /\ Clicking(act[j]) /\ Code(act[j]) = c /\ act[j].press
                    /\ \A k \in j + 1 .. i : Code(act[k]) = c => act[k].press

LEMMA LastPressOn ==
  ASSUME NEW act \in ActionLists, NEW i \in 1 .. Len(act), NEW c \in Pressable
  PROVE  /\ Code(act[i]) # c => (LastPress(act, i, c) <=> LastPress(act, i - 1, c))
         /\ Code(act[i]) = c /\ act[i].press => LastPress(act, i, c)
         /\ Code(act[i]) = c /\ ~act[i].press => ~LastPress(act, i, c)
         /\ Code(act[i]) = c => Clicking(act[i])
<1>1. Len(act) \in Nat /\ i \in Nat
  BY PansAtEnd
<1>2. /\ 1 .. i = (1 .. i - 1) \cup {i}
      /\ \A j \in 1 .. i - 1 : j + 1 .. i = (j + 1 .. i - 1) \cup {i}
      /\ i + 1 .. i = {}
  BY <1>1
<1>3. ASSUME Code(act[i]) = c PROVE Clicking(act[i])
  <2>1. c[1] \in {"button", "key"}
    BY DEF Pressable
  <2> QED
    BY <1>3, <2>1 DEF Code, Clicking
<1>4. ASSUME Code(act[i]) # c PROVE LastPress(act, i, c) <=> LastPress(act, i - 1, c)
  <2>1. ASSUME LastPress(act, i, c) PROVE LastPress(act, i - 1, c)
    <3>1. PICK j \in 1 .. i : /\ Clicking(act[j]) /\ Code(act[j]) = c /\ act[j].press
                             /\ \A k \in j + 1 .. i : Code(act[k]) = c => act[k].press
      BY <2>1 DEF LastPress
    <3>2. j \in 1 .. i - 1
      BY <1>2, <1>4, <3>1
    <3> QED
      BY <1>2, <3>1, <3>2 DEF LastPress
  <2>2. ASSUME LastPress(act, i - 1, c) PROVE LastPress(act, i, c)
    <3>1. PICK j \in 1 .. i - 1 : /\ Clicking(act[j]) /\ Code(act[j]) = c /\ act[j].press
                                 /\ \A k \in j + 1 .. i - 1 : Code(act[k]) = c => act[k].press
      BY <2>2 DEF LastPress
    <3>2. j \in 1 .. i /\ \A k \in j + 1 .. i : Code(act[k]) = c => act[k].press
      BY <1>2, <1>4, <3>1
    <3> QED
      BY <3>1, <3>2 DEF LastPress
  <2> QED
    BY <2>1, <2>2
<1>5. ASSUME Code(act[i]) = c, act[i].press PROVE LastPress(act, i, c)
  BY <1>2, <1>3, <1>5 DEF LastPress
<1>6. ASSUME Code(act[i]) = c, ~act[i].press PROVE ~LastPress(act, i, c)
  <2> SUFFICES ASSUME NEW j \in 1 .. i, act[j].press,
                      \A k \in j + 1 .. i : Code(act[k]) = c => act[k].press
               PROVE  FALSE
    BY DEF LastPress
  <2>1. j # i
    BY <1>6
  <2>2. i \in j + 1 .. i
    BY <1>1, <2>1
  <2> QED
    BY <1>6, <2>2
<1> QED
  BY <1>3, <1>4, <1>5, <1>6

LEMMA HoldsLast ==
  ASSUME NEW act \in ActionLists, NEW c
  PROVE  /\ c \in Holds(act) <=> LastPress(act, Len(act), c)
         /\ Holds(act) \subseteq Codes(act) /\ Codes(act) \subseteq Pressable
<1>1. Len(act) \in Nat /\ DOMAIN act = 1 .. Len(act) /\ \A i \in 1 .. Len(act) : act[i] \in Entries
  BY PansAtEnd
<1>2. c \in Holds(act) <=> LastPress(act, Len(act), c)
  BY <1>1 DEF Holds, LastPress
<1>3. Holds(act) \subseteq Codes(act)
  BY DEF Holds, Codes
<1>4. Codes(act) \subseteq Pressable
  BY <1>1 DEF Codes, Pressable, Code, Clicking, Entries
<1> QED
  BY <1>2, <1>3, <1>4

Button1 == <<"button", 1>>

\* What c, which was up when the action began, is after its first i entries.
DownUpto(x, d, act, i, c) ==
  /\ c \in x.down => LastPress(act, i, c)
  /\ LastPress(act, i, c) /\ c # Button1 => c \in x.down
  /\ d.scroll /\ c = Button1 => c \notin x.down

LEMMA DownOn ==
  ASSUME NEW d \in Devices, NEW act \in ActionLists, Plain(act), NEW c \in Pressable,
         NEW i \in 1 .. Len(act), NEW x, PressedUpto(x, d, act, i - 1), DownUpto(x, d, act, i - 1, c),
         NEW y, Performed(y, x, act[i])
  PROVE  DownUpto(y, d, act, i, c)
<1> DEFINE e == act[i]
<1>0. e = act[i]
  OBVIOUS
<1> HIDE DEF e
<1>1. CASE Code(e) # c
  <2>1. c \in y.down <=> c \in x.down
    BY <1>0, <1>1 DEF Performed, Sent, Still, Code
  <2>2. LastPress(act, i, c) <=> LastPress(act, i - 1, c)
    BY <1>0, <1>1, LastPressOn
  <2> QED
    BY <2>1, <2>2 DEF DownUpto
<1>2. CASE Code(e) = c /\ Heard(x, e) /\ e.press
  <2>1. LastPress(act, i, c)
    BY <1>0, <1>2, LastPressOn
  <2>2. c \in y.down
    BY <1>0, <1>2 DEF Performed, Sent, Code
  <2>3. ~(d.scroll /\ c = Button1)
    BY <1>2 DEF Heard, PressedUpto, Button1
  <2> QED
    BY <2>1, <2>2, <2>3 DEF DownUpto
<1>3. CASE Code(e) = c /\ Heard(x, e) /\ ~e.press
  <2>1. ~LastPress(act, i, c)
    BY <1>0, <1>3, LastPressOn
  <2>2. c \notin y.down
    BY <1>0, <1>3 DEF Performed, Sent, Code
  <2> QED
    BY <2>1, <2>2 DEF DownUpto
<1>4. CASE Code(e) = c /\ ~Heard(x, e)
  <2>1. Clicking(e)
    BY <1>0, <1>4, LastPressOn
  <2>2. c = Button1 /\ x.scroll
    BY <1>4, <2>1 DEF Heard, Button1
  <2>3. y.down = x.down
    BY <1>0, <1>4 DEF Performed, Still
  <2>4. CASE e.press
    <3>1. LastPress(act, i, c)
      BY <1>0, <1>4, <2>4, LastPressOn
    <3> QED
      BY <2>2, <2>3, <3>1 DEF DownUpto
  <2>5. CASE ~e.press
    <3>1. ~PansUpto(act, i - 1)
      <4> SUFFICES ASSUME NEW j \in 1 .. i - 1, act[j].type = "panscroll"
                   PROVE  FALSE
        BY DEF PansUpto
      <4>1. j \in DOMAIN act /\ i \in DOMAIN act /\ j < i
        BY PansAtEnd
      <4> QED
        BY <1>0, <1>4, <2>2, <2>5, <4>1 DEF Plain, Button1
    <3>2. d.scroll
      BY <2>2, <3>1 DEF PressedUpto
    <3>3. c \notin y.down
      BY <2>2, <2>3, <3>2 DEF DownUpto
    <3>4. ~LastPress(act, i, c)
      BY <1>0, <1>4, <2>5, LastPressOn
    <3> QED
      BY <3>3, <3>4 DEF DownUpto
  <2> QED
    BY <2>4, <2>5
<1> QED
  BY <1>1, <1>2, <1>3, <1>4

\* Pressing a button whose codes are up leaves those down that its action holds.
LEMMA PressDown ==
  ASSUME NEW d \in Devices, NEW act \in ActionLists, Plain(act), NEW c \in Pressable,
         c \notin d.down
  PROVE  LET x == Press(d, act)
         IN  /\ c \in x.down => c \in Holds(act)
             /\ c \in Holds(act) /\ c # Button1 => c \in x.down
<1> DEFINE N == Len(act)
<1>0. N \in Nat
  BY PansAtEnd
<1>1. PICK f : PressStates(f, d, act)
  BY PressSteps
<1> DEFINE I == {n \in 0 .. N : DownUpto(f[n], d, act, n, c)}
<1>2. 0 \in I
  <2>1. ~LastPress(act, 0, c)
    BY DEF LastPress
  <2> QED
    BY <1>0, <1>1, <2>1 DEF DownUpto, PressStates
<1>3. ASSUME NEW n \in I, n < N PROVE n + 1 \in I
  <2> DEFINE k == n + 1
  <2>1. k \in 1 .. N /\ k - 1 = n /\ k \in 0 .. N /\ n \in 0 .. N
    BY <1>0, <1>3
  <2>2. DownUpto(f[n], d, act, n, c)
    OBVIOUS
  <2> HIDE DEF k
  <2>3. PressedUpto(f[k - 1], d, act, k - 1) /\ Performed(f[k], f[k - 1], act[k])
    BY <1>1, <2>1 DEF PressStates
  <2>4. DownUpto(f[k], d, act, k, c)
    BY <2>1, <2>2, <2>3, DownOn
  <2> QED
    BY <2>1, <2>4 DEF k
<1>4. I \in SUBSET (0 .. N)
  OBVIOUS
<1>5. N \in I
  <2> HIDE DEF I, N
  <2> QED
    BY <1>0, <1>2, <1>3, <1>4, UpTo
<1>6. DownUpto(Press(d, act), d, act, N, c)
  BY <1>1, <1>5 DEF PressStates
<1> QED
  BY <1>6, HoldsLast DEF DownUpto

\* What no entry of act names stays as it is, and so does the count of scroll clicks
\* if none of them clicks.
Spared(x, d, act) ==
  /\ \A c : c \notin Codes(act) => (c \in x.down <=> c \in d.down)
  /\ Codes(act) \cap ScrollCodes = {} => Clicks(x.out) = Clicks(d.out)

LEMMA SentSpares ==
  ASSUME NEW act \in ActionLists, NEW i \in 1 .. Len(act), Clicking(act[i]),
         NEW x \in Devices, NEW press \in BOOLEAN,
         NEW y, Sent(y, x, act[i].type, act[i].code, press)
  PROVE  Spared(y, x, act)
<1> DEFINE e == <<act[i].type, act[i].code, press>>
<1>1. act[i] \in Entries /\ i \in DOMAIN act
  BY PansAtEnd
<1>2. Code(act[i]) \in Codes(act)
  BY <1>1 DEF Codes
<1>3. \A c : c \notin Codes(act) => (c \in y.down <=> c \in x.down)
  BY <1>2 DEF Sent, Code
<1>4. ASSUME Codes(act) \cap ScrollCodes = {} PROVE Clicks(y.out) = Clicks(x.out)
  <2>1. e \in Sendable /\ x.out \in Seq(Sendable)
    BY <1>1 DEF Sendable, Entries, Clicking, Devices
  <2>2. Code(act[i]) # <<"button", 4>> /\ Code(act[i]) # <<"button", 5>>
    BY <1>2, <1>4 DEF ScrollCodes
  <2>3. e # <<"button", 4, TRUE>> /\ e # <<"button", 5, TRUE>>
    BY <2>2 DEF Code
  <2>4. y.out = Append(x.out, e)
    BY DEF Sent
  <2> HIDE DEF e
  <2> QED
    BY <2>1, <2>3, <2>4, ClicksAppend
<1> QED
  BY <1>3, <1>4 DEF Spared

LEMMA PressSpares ==
  ASSUME NEW d \in Devices, NEW act \in ActionLists
  PROVE  Spared(Press(d, act), d, act)
<1> DEFINE N == Len(act)
<1>0. N \in Nat
  BY PansAtEnd
<1>1. PICK f : PressStates(f, d, act)
  BY PressSteps
<1> DEFINE I == {n \in 0 .. N : Spared(f[n], d, act)}
<1>2. 0 \in I
  BY <1>0, <1>1 DEF Spared, PressStates
<1>3. ASSUME NEW n \in I, n < N PROVE n + 1 \in I
  <2> DEFINE k == n + 1
  <2>1. k \in 1 .. N /\ k - 1 = n /\ k \in 0 .. N /\ n \in 0 .. N
    BY <1>0, <1>3
  <2>2. Spared(f[n], d, act)
    OBVIOUS
  <2> HIDE DEF k
  <2>3. PressedUpto(f[n], d, act, n) /\ Performed(f[k], f[n], act[k])
    BY <1>1, <2>1 DEF PressStates
  <2>4. f[n] \in Devices /\ act[k].press \in BOOLEAN
    BY <2>1, <2>3, PansAtEnd DEF PressedUpto, SameOld, Entries
  <2>5. CASE Heard(f[n], act[k])
    <3>1. Sent(f[k], f[n], act[k].type, act[k].code, act[k].press) /\ Clicking(act[k])
      BY <2>3, <2>5 DEF Performed, Heard
    <3>2. Spared(f[k], f[n], act)
      BY <2>1, <2>4, <3>1, SentSpares
    <3> QED
      BY <2>1, <2>2, <3>2 DEF k, Spared
  <2>6. CASE ~Heard(f[n], act[k])
    <3>1. f[k].down = f[n].down /\ f[k].out = f[n].out
      BY <2>3, <2>6 DEF Performed, Still
    <3> QED
      BY <2>1, <2>2, <3>1 DEF k, Spared
  <2> QED
    BY <2>5, <2>6
<1>4. I \in SUBSET (0 .. N)
  OBVIOUS
<1>5. N \in I
  <2> HIDE DEF I, N
  <2> QED
    BY <1>0, <1>2, <1>3, <1>4, UpTo
<1> QED
  BY <1>1, <1>5 DEF PressStates

\* x is d after the first i entries of act were undone.
UndoneUpto(x, d, act, i) ==
  /\ SameOld(x, d) /\ x.pan = d.pan
  /\ x.scroll <=> d.scroll /\ ~PansUpto(act, i)
  /\ x.down \subseteq d.down
  /\ Spared(x, d, act)
  /\ \A j \in 1 .. i : Undone(act, j) => Code(act[j]) \notin x.down

LEMMA UndoneOn ==
  ASSUME NEW d \in Devices, NEW act \in ActionLists, NEW i \in 1 .. Len(act),
         NEW x, UndoneUpto(x, d, act, i - 1), NEW y, Undid(y, x, act, i)
  PROVE  UndoneUpto(y, d, act, i)
<1>0. x \in Devices /\ 1 .. i = (1 .. i - 1) \cup {i}
  BY PansAtEnd DEF UndoneUpto, SameOld
<1>1. PansUpto(act, i) <=> PansUpto(act, i - 1) \/ act[i].type = "panscroll"
  BY PansAtEnd
<1>2. Undone(act, i) => act[i].type # "panscroll" /\ Clicking(act[i])
  BY DEF Undone, Clicking
<1>3. CASE Undone(act, i)
  <2>1. Sent(y, x, act[i].type, act[i].code, FALSE)
    BY <1>3 DEF Undid
  <2>2. FALSE \in BOOLEAN
    OBVIOUS
  <2>3. Spared(y, x, act)
    BY <1>0, <1>2, <1>3, <2>1, <2>2, SentSpares
  <2>4. y.down = x.down \ {Code(act[i])}
    BY <2>1 DEF Sent, Code
  <2>5. SameOld(y, d) /\ y.pan = d.pan
    BY <2>1 DEF Sent, UndoneUpto, SameOld
  <2>6. y.scroll <=> d.scroll /\ ~PansUpto(act, i)
    BY <1>1, <1>2, <1>3, <2>1 DEF Sent, UndoneUpto
  <2>7. Spared(y, d, act)
    BY <2>3 DEF Spared, UndoneUpto
  <2>8. \A j \in 1 .. i : Undone(act, j) => Code(act[j]) \notin y.down
    BY <1>0, <2>4 DEF UndoneUpto
  <2>9. y.down \subseteq d.down
    BY <2>4 DEF UndoneUpto
  <2> QED
    BY <2>5, <2>6, <2>7, <2>8, <2>9 DEF UndoneUpto
<1>4. CASE ~Undone(act, i)
  <2>1. y.down = x.down /\ y.out = x.out /\ SameOld(y, x) /\ y.pan = x.pan
    BY <1>4 DEF Undid, Still
  <2>2. y.scroll <=> x.scroll /\ act[i].type # "panscroll"
    <3>1. CASE act[i].type = "panscroll"
      BY <1>4, <3>1, Zenon DEF Undid, Still
    <3>2. CASE act[i].type # "panscroll"
      BY <1>4, <3>2, Zenon DEF Undid, Still
    <3> QED
      BY <3>1, <3>2
  <2>5. SameOld(y, d) /\ y.pan = d.pan
    BY <2>1 DEF UndoneUpto, SameOld
  <2>6. y.scroll <=> d.scroll /\ ~PansUpto(act, i)
    BY <1>1, <2>2 DEF UndoneUpto
  <2>7. Spared(y, d, act)
    BY <2>1 DEF Spared, UndoneUpto
  <2>8. \A j \in 1 .. i : Undone(act, j) => Code(act[j]) \notin y.down
    BY <1>0, <1>4, <2>1 DEF UndoneUpto
  <2>9. y.down \subseteq d.down
    BY <2>1 DEF UndoneUpto
  <2> QED
    BY <2>5, <2>6, <2>7, <2>8, <2>9 DEF UndoneUpto
<1> QED
  BY <1>3, <1>4

LEMMA ReleaseDoes ==
  ASSUME NEW d \in Devices, NEW act \in ActionLists
  PROVE  UndoneUpto(Release(d, act), d, act, Len(act))
<1> DEFINE N == Len(act)
<1>0. N \in Nat
  BY PansAtEnd
<1>1. PICK f : /\ f[0] = d
               /\ \A i \in 1 .. N : f[i] = Undo(f[i - 1], act, i)
               /\ Release(d, act) = f[N]
  BY <1>0, ReleaseLoop
<1> DEFINE I == {n \in 0 .. N : UndoneUpto(f[n], d, act, n)}
<1>2. 0 \in I
  BY <1>0, <1>1, PansAtEnd DEF UndoneUpto, SameOld, Spared
<1>3. ASSUME NEW n \in I, n < N PROVE n + 1 \in I
  <2> DEFINE k == n + 1
  <2>1. k \in 1 .. N /\ k - 1 = n /\ k \in 0 .. N /\ n \in 0 .. N
    BY <1>0, <1>3
  <2>2. UndoneUpto(f[n], d, act, n)
    OBVIOUS
  <2> HIDE DEF k
  <2>3. f[n] \in Devices
    BY <2>2 DEF UndoneUpto, SameOld
  <2>4. Undid(f[k], f[n], act, k)
    BY <1>1, <2>1, <2>3, UndoDoes
  <2>5. UndoneUpto(f[k], d, act, k)
    BY <2>1, <2>2, <2>4, UndoneOn
  <2> QED
    BY <2>1, <2>5 DEF k
<1>4. I \in SUBSET (0 .. N)
  OBVIOUS
<1>5. N \in I
  <2> HIDE DEF I, N
  <2> QED
    BY <1>0, <1>2, <1>3, <1>4, UpTo
<1> QED
  BY <1>1, <1>5

\* The press that an action holds is counted, so it is undone.
LEMMA HeldCounted ==
  ASSUME NEW act \in ActionLists, Plain(act), NEW j \in DOMAIN act, Clicking(act[j]), act[j].press,
         \A k \in j + 1 .. Len(act) : Code(act[k]) = Code(act[j]) => act[k].press
  PROVE  Undone(act, j)
<1> DEFINE Of(press) == {k \in j .. Len(act) : act[k].code = act[j].code /\ act[k].press = press}
<1>1. Len(act) \in Nat /\ DOMAIN act = 1 .. Len(act) /\ \A i \in 1 .. Len(act) : act[i] \in Entries
  BY PansAtEnd
<1>2. Of(FALSE) = {}
  <2> SUFFICES ASSUME NEW k \in j .. Len(act), act[k].code = act[j].code, act[k].press = FALSE
               PROVE  FALSE
    OBVIOUS
  <2>1. k \in DOMAIN act /\ k # j
    BY <1>1
  <2>2. k \in j + 1 .. Len(act)
    BY <1>1, <2>1
  <2>3. Code(act[k]) = Code(act[j])
    BY <2>1 DEF Plain, Code
  <2> QED
    BY <2>2, <2>3
<1>3. j \in Of(TRUE)
  <2>1. act[j].press \in BOOLEAN
    BY <1>1 DEF Entries
  <2>2. j \in j .. Len(act)
    BY <1>1
  <2> QED
    BY <2>1, <2>2
<1>4. IsFiniteSet(Of(TRUE))
  <2>1. IsFiniteSet(j .. Len(act)) /\ Of(TRUE) \subseteq j .. Len(act)
    BY <1>1, FS_Interval
  <2> QED
    BY <2>1, FS_Subset
<1>5. CountPresses(act, j) = Cardinality(Of(TRUE)) - Cardinality(Of(FALSE))
  BY DEF CountPresses
<1> HIDE DEF Of
<1>6. Cardinality(Of(TRUE)) \in Nat /\ Cardinality(Of(TRUE)) # 0 /\ Cardinality(Of(FALSE)) = 0
  BY <1>2, <1>3, <1>4, FS_CardinalityType, FS_EmptySet
<1>7. CountPresses(act, j) # 0
  <2> DEFINE up == Cardinality(Of(TRUE))
             dn == Cardinality(Of(FALSE))
  <2>1. up \in Nat /\ up # 0 /\ dn = 0 /\ CountPresses(act, j) = up - dn
    BY <1>5, <1>6
  <2> HIDE DEF up, dn
  <2> QED
    BY <2>1
<1> QED
  BY <1>7 DEF Undone

\* Releasing a button leaves nothing down that its action holds.
LEMMA ReleaseDown ==
  ASSUME NEW d \in Devices, NEW act \in ActionLists, Plain(act), NEW c \in Holds(act)
  PROVE  c \notin Release(d, act).down
<1>1. PICK j \in DOMAIN act :
        /\ Clicking(act[j]) /\ act[j].press /\ c = Code(act[j])
        /\ \A k \in j + 1 .. Len(act) : Code(act[k]) = Code(act[j]) => act[k].press
  BY DEF Holds
<1>2. Undone(act, j)
  BY <1>1, HeldCounted
<1>3. j \in 1 .. Len(act)
  BY PansAtEnd
<1> QED
  BY <1>1, <1>2, <1>3, ReleaseDoes DEF UndoneUpto

-----------------------------------------------------------------------------
(***************************************************************************)
(* Sending the buttons that changed.                                       *)
(***************************************************************************)
Listed == actions \in [ButtonSet -> ActionLists]

\* The buttons from first on, below n, that are pressed and that are released.
Comes(old, now, first, n, b) == b \in first .. n - 1 /\ b \in now /\ b \notin old
Goes(old, now, first, n, b)  == b \in first .. n - 1 /\ b \in old /\ b \notin now
Pan(b) == Pans(actions[b])

\* No action of a button clicks the scroll buttons.
Unscrolled == \A b \in ButtonSet : Codes(actions[b]) \cap ScrollCodes = {}

\* x is d after they were sent.
ChangedUpto(x, d, old, now, first, n) ==
  /\ SameOld(x, d)
  /\ x.scroll => \/ \E b : Comes(old, now, first, n, b) /\ Pan(b)
                 \/ d.scroll /\ \A b : Goes(old, now, first, n, b) => ~Pan(b)
  /\ \/ x.pan = d.pan /\ (x.scroll => d.scroll)
     \/ x.pan = 0 /\ \E b : Comes(old, now, first, n, b) /\ Pan(b)
  /\ Unscrolled => Clicks(x.out) = Clicks(d.out)

LEMMA ChangedOn ==
  ASSUME Listed, NButtons \in Nat, NEW d \in Devices, NEW old, NEW now, NEW first \in Nat,
         NEW m \in first .. NButtons - 1, NEW x, ChangedUpto(x, d, old, now, first, m)
  PROVE  ChangedUpto(SendChange(x, old, now, m), d, old, now, first, m + 1)
<1> DEFINE y == SendChange(x, old, now, m)
           act == actions[m]
           n == m + 1
<1> SUFFICES ChangedUpto(y, d, old, now, first, n)
  OBVIOUS
<1>0. /\ m \in ButtonSet /\ first .. n - 1 = (first .. m - 1) \cup {m} /\ m \in Nat
      /\ m \notin first .. m - 1
  BY DEF ButtonSet
<1>1. x \in Devices /\ act \in ActionLists
  BY <1>0 DEF ChangedUpto, SameOld, Listed
<1>2. /\ \A b : Comes(old, now, first, m, b) => Comes(old, now, first, n, b)
      /\ \A b : Goes(old, now, first, n, b) => Goes(old, now, first, m, b) \/ (b = m /\ m \in old /\ m \notin now)
  BY <1>0 DEF Comes, Goes
<1>3. Unscrolled => Codes(act) \cap ScrollCodes = {}
  BY <1>0 DEF Unscrolled
<1>4. CASE m \in now /\ m \notin old
  <2>1. y = Press(x, act)
    BY <1>4 DEF SendChange, SendAButton
  <2>2. /\ SameOld(y, x) /\ (y.scroll <=> x.scroll \/ Pan(m))
        /\ Pan(m) => y.pan = 0
        /\ ~Pan(m) => y.pan = x.pan
    BY <1>1, <2>1, PressDoes DEF Pan
  <2>3. Unscrolled => Clicks(y.out) = Clicks(x.out)
    BY <1>1, <1>3, <2>1, PressSpares DEF Spared
  <2>4. Comes(old, now, first, n, m)
    BY <1>0, <1>4 DEF Comes
  <2>5. \A b : Goes(old, now, first, n, b) => Goes(old, now, first, m, b)
    BY <1>2, <1>4
  <2>6. SameOld(y, d) /\ (Unscrolled => Clicks(y.out) = Clicks(d.out))
    BY <2>2, <2>3 DEF ChangedUpto, SameOld
  <2> HIDE DEF y, n
  <2>7. CASE Pan(m)
    BY <2>2, <2>4, <2>6, <2>7 DEF ChangedUpto
  <2>8. CASE ~Pan(m)
    <3>1. y.pan = x.pan /\ (y.scroll <=> x.scroll)
      BY <2>2, <2>8
    <3>2. y.scroll => \/ \E b : Comes(old, now, first, n, b) /\ Pan(b)
                      \/ d.scroll /\ \A b : Goes(old, now, first, n, b) => ~Pan(b)
      BY <1>2, <2>5, <3>1 DEF ChangedUpto
    <3>3. \/ y.pan = d.pan /\ (y.scroll => d.scroll)
          \/ y.pan = 0 /\ \E b : Comes(old, now, first, n, b) /\ Pan(b)
      BY <1>2, <3>1 DEF ChangedUpto
    <3> QED
      BY <2>6, <3>2, <3>3 DEF ChangedUpto
  <2> QED
    BY <2>7, <2>8
<1>5. CASE m \in old /\ m \notin now
  <2>1. y = Release(x, act)
    BY <1>5 DEF SendChange, SendAButton
  <2>2. UndoneUpto(y, x, act, Len(act)) /\ (PansUpto(act, Len(act)) <=> Pan(m))
    BY <1>1, <2>1, ReleaseDoes, PansAtEnd DEF Pan
  <2>3. SameOld(y, x) /\ y.pan = x.pan /\ (y.scroll <=> x.scroll /\ ~Pan(m))
    BY <2>2 DEF UndoneUpto
  <2>4. SameOld(y, d) /\ (Unscrolled => Clicks(y.out) = Clicks(d.out))
    BY <1>3, <2>2, <2>3 DEF ChangedUpto, SameOld, UndoneUpto, Spared
  <2> HIDE DEF y, n
  <2>5. y.scroll => \/ \E b : Comes(old, now, first, n, b) /\ Pan(b)
                    \/ d.scroll /\ \A b : Goes(old, now, first, n, b) => ~Pan(b)
    BY <1>2, <2>3 DEF ChangedUpto
  <2>6. \/ y.pan = d.pan /\ (y.scroll => d.scroll)
        \/ y.pan = 0 /\ \E b : Comes(old, now, first, n, b) /\ Pan(b)
    BY <1>2, <2>3 DEF ChangedUpto
  <2>7. ChangedUpto(y, d, old, now, first, n)
    BY <2>4, <2>5, <2>6 DEF ChangedUpto
  <2> QED
    BY <2>7
<1>6. CASE (m \in old) <=> (m \in now)
  <2>1. y = x
    BY <1>6 DEF SendChange
  <2>2. \A b : Goes(old, now, first, n, b) => Goes(old, now, first, m, b)
    BY <1>2, <1>6
  <2> HIDE DEF y, n
  <2>3. ChangedUpto(y, d, old, now, first, n)
    BY <1>2, <2>1, <2>2 DEF ChangedUpto
  <2> QED
    BY <2>3
<1> QED
  BY <1>4, <1>5, <1>6

LEMMA ChangesDo ==
  ASSUME Listed, NButtons \in Nat, NEW d \in Devices, NEW old, NEW now, NEW first \in 0 .. NButtons
  PROVE  ChangedUpto(SendChanges(d, old, now, first), d, old, now, first, NButtons)
<1> DEFINE M == NButtons - first
<1>0. first \in Nat /\ first <= NButtons /\ M \in Nat
  OBVIOUS
<1>1. PICK f : /\ f[first] = d
               /\ \A i \in first + 1 .. NButtons : f[i] = SendChange(f[i - 1], old, now, i - 1)
               /\ SendChanges(d, old, now, first) = f[NButtons]
  BY <1>0, ChangesLoop
<1> DEFINE I == {n \in 0 .. M : ChangedUpto(f[first + n], d, old, now, first, first + n)}
<1>2. 0 \in I
  <2>1. ChangedUpto(d, d, old, now, first, first)
    BY <1>0 DEF ChangedUpto, SameOld, Goes
  <2>2. first + 0 = first /\ 0 \in 0 .. M
    BY <1>0
  <2> QED
    BY <1>1, <2>1, <2>2
<1>3. ASSUME NEW n \in I, n < M PROVE n + 1 \in I
  <2> DEFINE m == first + n
             k == m + 1
  <2>1. /\ m \in first .. NButtons - 1 /\ k \in first + 1 .. NButtons /\ k - 1 = m
        /\ first + (n + 1) = k /\ n + 1 \in 0 .. M /\ m + 1 = k
    BY <1>0, <1>3
  <2>2. ChangedUpto(f[m], d, old, now, first, m)
    OBVIOUS
  <2> HIDE DEF m, k, M
  <2>3. ChangedUpto(SendChange(f[m], old, now, m), d, old, now, first, k)
    BY <1>0, <2>1, <2>2, ChangedOn
  <2>4. f[k] = SendChange(f[m], old, now, m)
    BY <1>1, <2>1
  <2> QED
    BY <2>1, <2>3, <2>4
<1>4. I \in SUBSET (0 .. M)
  OBVIOUS
<1>5. M \in I
  <2> HIDE DEF I, M
  <2> QED
    BY <1>0, <1>2, <1>3, <1>4, UpTo
<1>6. first + M = NButtons
  OBVIOUS
<1> QED
  BY <1>1, <1>5, <1>6

-----------------------------------------------------------------------------
(***************************************************************************)
(* What is down: what the held buttons hold, and what else is in rest.     *)
(***************************************************************************)
Agree(down, held, rest) ==
  /\ \A c \in down : c \in rest \/ \E b \in held : c \in Holds(actions[b])
  /\ rest \subseteq down
  /\ \A b \in held : \A c \in Holds(actions[b]) : c # Button1 => c \in down

\* The codes of the buttons are apart from each other and from rest.
Apart(rest) ==
  \A b \in ButtonSet : /\ Plain(actions[b]) /\ Codes(actions[b]) \cap rest = {}
                       /\ \A o \in ButtonSet \ {b} : Codes(actions[b]) \cap Codes(actions[o]) = {}

KeptApart(b, held, down, rest) ==
  /\ actions[b] \in ActionLists /\ Plain(actions[b])
  /\ Codes(actions[b]) \subseteq Pressable /\ Holds(actions[b]) \subseteq Codes(actions[b])
  /\ \A c \in Codes(actions[b]) : /\ c \notin rest
                                  /\ \A o \in ButtonSet \ {b} : c \notin Holds(actions[o])
                                  /\ b \notin held => c \notin down
                                  /\ c \in down => c \in Holds(actions[b])

LEMMA HoldsApart ==
  ASSUME Listed, NEW rest, Apart(rest), NEW held \in SUBSET ButtonSet, NEW b \in ButtonSet,
         NEW down, Agree(down, held, rest)
  PROVE  KeptApart(b, held, down, rest)
<1>1. \A o \in ButtonSet : actions[o] \in ActionLists
  BY DEF Listed
<1>2. \A o \in ButtonSet : /\ Codes(actions[o]) \subseteq Pressable
                           /\ Holds(actions[o]) \subseteq Codes(actions[o])
  BY <1>1, HoldsLast
<1>3. ASSUME NEW c \in Codes(actions[b])
      PROVE  c \notin rest /\ \A o \in ButtonSet \ {b} : c \notin Holds(actions[o])
  BY <1>2, <1>3 DEF Apart
<1> QED
  BY <1>1, <1>2, <1>3 DEF Agree, Apart, KeptApart

LEMMA PressAgrees ==
  ASSUME Listed, NEW rest, Apart(rest), NEW held \in SUBSET ButtonSet, NEW b \in ButtonSet \ held,
         NEW d \in Devices, Agree(d.down, held, rest)
  PROVE  Agree(Press(d, actions[b]).down, held \cup {b}, rest)
<1> DEFINE act == actions[b]
           down == Press(d, act).down
<1>1. /\ act \in ActionLists /\ Plain(act) /\ Codes(act) \subseteq Pressable
      /\ Holds(act) \subseteq Codes(act)
      /\ \A c \in Codes(act) : /\ c \notin rest /\ c \notin d.down
                               /\ \A o \in ButtonSet \ {b} : c \notin Holds(actions[o])
  <2>1. KeptApart(b, held, d.down, rest)
    BY HoldsApart
  <2> QED
    BY <2>1 DEF KeptApart
<1>2. \A c : c \notin Codes(act) => (c \in down <=> c \in d.down)
  BY <1>1, PressSpares DEF Spared
<1>3. \A c \in Codes(act) : /\ c \in down => c \in Holds(act)
                            /\ c \in Holds(act) /\ c # Button1 => c \in down
  BY <1>1, PressDown
<1> HIDE DEF down
<1>4. ASSUME NEW c \in down
      PROVE  c \in rest \/ \E o \in held \cup {b} : c \in Holds(actions[o])
  BY <1>2, <1>3 DEF Agree
<1>5. rest \subseteq down
  BY <1>1, <1>2 DEF Agree
<1>6. ASSUME NEW o \in held \cup {b}, NEW c \in Holds(actions[o]), c # Button1
      PROVE  c \in down
  <2>1. CASE o = b
    BY <1>1, <1>3, <1>6, <2>1
  <2>2. CASE o # b
    <3>1. c \in d.down
      BY <1>6, <2>2 DEF Agree
    <3> QED
      BY <1>1, <1>2, <3>1
  <2> QED
    BY <2>1, <2>2
<1>7. Agree(down, held \cup {b}, rest)
  BY <1>4, <1>5, <1>6 DEF Agree
<1> QED
  BY <1>7 DEF down

LEMMA ReleaseAgrees ==
  ASSUME Listed, NEW rest, Apart(rest), NEW held \in SUBSET ButtonSet, NEW b \in held,
         NEW d \in Devices, Agree(d.down, held, rest)
  PROVE  Agree(Release(d, actions[b]).down, held \ {b}, rest)
<1> DEFINE act == actions[b]
           down == Release(d, act).down
<1>0. b \in ButtonSet
  OBVIOUS
<1>1. /\ act \in ActionLists /\ Plain(act) /\ Holds(act) \subseteq Codes(act)
      /\ \A c \in Codes(act) : /\ c \notin rest
                               /\ c \in d.down => c \in Holds(act)
                               /\ \A o \in ButtonSet \ {b} : c \notin Holds(actions[o])
  <2>1. KeptApart(b, held, d.down, rest)
    BY <1>0, HoldsApart
  <2> QED
    BY <2>1 DEF KeptApart
<1>2. /\ \A c : c \notin Codes(act) => (c \in down <=> c \in d.down)
      /\ down \subseteq d.down
  BY <1>1, ReleaseDoes DEF Spared, UndoneUpto
<1>3. \A c \in Codes(act) : c \notin down
  BY <1>1, <1>2, ReleaseDown
<1> HIDE DEF down
<1>4. ASSUME NEW c \in down
      PROVE  c \in rest \/ \E o \in held \ {b} : c \in Holds(actions[o])
  BY <1>1, <1>2, <1>3 DEF Agree
<1>5. rest \subseteq down
  BY <1>1, <1>2 DEF Agree
<1>6. ASSUME NEW o \in held \ {b}, NEW c \in Holds(actions[o]), c # Button1
      PROVE  c \in down
  <2>1. c \in d.down
    BY <1>6 DEF Agree
  <2>2. c \notin Codes(act)
    BY <1>1
  <2> QED
    BY <1>2, <2>1, <2>2
<1>7. Agree(down, held \ {b}, rest)
  BY <1>4, <1>5, <1>6 DEF Agree
<1> QED
  BY <1>7 DEF down

\* Of 0 .. N - 1 the numbers below n are those of now, the others those of old.
Swept(N, old, now, n) == {b \in 0 .. N - 1 : IF b < n THEN b \in now ELSE b \in old}

SweptEach(N, old, now) ==
  /\ Swept(N, old, now, 0) = old /\ Swept(N, old, now, N) = now
  /\ \A n \in 0 .. N - 1 :
       /\ n \in Swept(N, old, now, n) <=> n \in old
       /\ n \in now => Swept(N, old, now, n + 1) = Swept(N, old, now, n) \cup {n}
       /\ n \notin now => Swept(N, old, now, n + 1) = Swept(N, old, now, n) \ {n}
       /\ Swept(N, old, now, n) \subseteq 0 .. N - 1

LEMMA SweptOn ==
  ASSUME NEW N \in Nat, NEW old \in SUBSET (0 .. N - 1), NEW now \in SUBSET (0 .. N - 1)
  PROVE  SweptEach(N, old, now)
<1>1. \A b \in 0 .. N - 1 : ~(b < 0) /\ b < N
  OBVIOUS
<1>2. Swept(N, old, now, 0) = old
  BY <1>1 DEF Swept
<1>3. Swept(N, old, now, N) = now
  BY <1>1 DEF Swept
<1>4. ASSUME NEW n \in 0 .. N - 1
      PROVE  /\ n \in Swept(N, old, now, n) <=> n \in old
             /\ n \in now => Swept(N, old, now, n + 1) = Swept(N, old, now, n) \cup {n}
             /\ n \notin now => Swept(N, old, now, n + 1) = Swept(N, old, now, n) \ {n}
             /\ Swept(N, old, now, n) \subseteq 0 .. N - 1
  <2> DEFINE k == n + 1
  <2>1. ~(n < n) /\ n < k /\ \A b \in (0 .. N - 1) \ {n} : (b < k) <=> (b < n)
    OBVIOUS
  <2> HIDE DEF k
  <2>2. n \in now => Swept(N, old, now, k) = Swept(N, old, now, n) \cup {n}
    BY <2>1 DEF Swept
  <2>3. n \notin now => Swept(N, old, now, k) = Swept(N, old, now, n) \ {n}
    BY <2>1 DEF Swept
  <2>4. n \in Swept(N, old, now, n) <=> n \in old
    BY <2>1 DEF Swept
  <2> QED
    BY <2>2, <2>3, <2>4 DEF k, Swept
<1> QED
  BY <1>2, <1>3, <1>4 DEF SweptEach

LEMMA ChangesAgree ==
  ASSUME Listed, NButtons \in Nat, NEW d \in Devices, NEW old \in SUBSET ButtonSet,
         NEW now \in SUBSET ButtonSet, NEW rest, Apart(rest), Agree(d.down, old, rest)
  PROVE  Agree(SendChanges(d, old, now, 0).down, now, rest)
<1> DEFINE N == NButtons
<1>0. ButtonSet = 0 .. N - 1
  BY DEF ButtonSet
<1>7. SweptEach(N, old, now)
  BY <1>0, SweptOn
<1>1. PICK f : /\ f[0] = d
               /\ \A i \in 0 + 1 .. N : f[i] = SendChange(f[i - 1], old, now, i - 1)
               /\ SendChanges(d, old, now, 0) = f[N]
  BY ChangesLoop
<1> DEFINE Inv(n) == f[n] \in Devices /\ Agree(f[n].down, Swept(N, old, now, n), rest)
           I == {n \in 0 .. N : Inv(n)}
<1>2. 0 \in I
  <2>1. Swept(N, old, now, 0) = old
    BY <1>7 DEF SweptEach
  <2> QED
    BY <1>1, <2>1
<1>3. ASSUME NEW n \in I, n < N PROVE n + 1 \in I
  <2> DEFINE k == n + 1
             held == Swept(N, old, now, n)
             act == actions[n]
  <2>1. n \in ButtonSet /\ k \in 0 + 1 .. N /\ k - 1 = n /\ k \in 0 .. N
    BY <1>3 DEF ButtonSet
  <2>2. f[n] \in Devices /\ Agree(f[n].down, held, rest) /\ act \in ActionLists
    BY <2>1 DEF Listed
  <2>3. f[k] = SendChange(f[n], old, now, n)
    BY <1>1, <2>1
  <2>4. /\ held \in SUBSET ButtonSet
        /\ n \in held <=> n \in old
        /\ n \in now => Swept(N, old, now, k) = held \cup {n}
        /\ n \notin now => Swept(N, old, now, k) = held \ {n}
    BY <1>0, <1>7, <2>1 DEF SweptEach
  <2> HIDE DEF k, held
  <2>5. CASE n \in now /\ n \notin old
    <3>1. f[k] = Press(f[n], act)
      BY <2>3, <2>5 DEF SendChange, SendAButton
    <3>2. Agree(f[k].down, held \cup {n}, rest)
      BY <2>1, <2>2, <2>4, <2>5, <3>1, PressAgrees
    <3>3. f[k] \in Devices
      BY <2>2, <3>1, PressDoes DEF SameOld
    <3> QED
      BY <2>1, <2>4, <2>5, <3>2, <3>3 DEF k
  <2>6. CASE n \notin now /\ n \in old
    <3>1. f[k] = Release(f[n], act)
      BY <2>3, <2>6 DEF SendChange, SendAButton
    <3>2. Agree(f[k].down, held \ {n}, rest)
      BY <2>1, <2>2, <2>4, <2>6, <3>1, ReleaseAgrees
    <3>3. f[k] \in Devices
      BY <2>2, <3>1, ReleaseDoes DEF SameOld, UndoneUpto
    <3> QED
      BY <2>1, <2>4, <2>6, <3>2, <3>3 DEF k
  <2>7. CASE n \in now <=> n \in old
    <3>1. f[k] = f[n]
      BY <2>3, <2>7 DEF SendChange
    <3>2. Swept(N, old, now, k) = held
      BY <2>4, <2>7
    <3> QED
      BY <2>1, <2>2, <3>1, <3>2 DEF k
  <2> QED
    BY <2>5, <2>6, <2>7
<1>4. I \in SUBSET (0 .. N)
  OBVIOUS
<1>5. N \in I
  <2> HIDE DEF I
  <2> QED
    BY <1>2, <1>3, <1>4, UpTo
<1>6. Swept(N, old, now, N) = now
  BY <1>7 DEF SweptEach
<1> QED
  BY <1>1, <1>5, <1>6

\* One key up or down, among those that have other codes.
KeysApart(base) == /\ \A k, m \in Keys : KeyCode[k] = KeyCode[m] => k = m
                   /\ base \cap KeyCodes(Keys) = {}

LEMMA KeySent ==
  ASSUME NEW base, NEW S \in SUBSET Keys, NEW n \in Keys, KeysApart(base)
  PROVE  /\ (base \cup KeyCodes(S)) \cup {<<"key", KeyCode[n]>>} = base \cup KeyCodes(S \cup {n})
         /\ (base \cup KeyCodes(S)) \ {<<"key", KeyCode[n]>>} = base \cup KeyCodes(S \ {n})
<1>1. KeyCodes(S) \cup {<<"key", KeyCode[n]>>} = KeyCodes(S \cup {n})
  BY DEF KeyCodes
<1>2. <<"key", KeyCode[n]>> \notin base
  BY DEF KeyCodes, KeysApart
<1>3. KeyCodes(S) \ {<<"key", KeyCode[n]>>} = KeyCodes(S \ {n})
  BY DEF KeyCodes, KeysApart
<1> QED
  BY <1>1, <1>2, <1>3

\* wcmSendKeys: the keys follow, what else is down stays.
KeysSent(x, d, base, S) ==
  /\ SameOld(x, d) /\ x.pan = d.pan /\ (x.scroll <=> d.scroll)
  /\ Clicks(x.out) = Clicks(d.out)
  /\ KeysApart(base) /\ d.down = base \cup KeyCodes(d.keys) => x.down = base \cup KeyCodes(S)

LEMMA KeysAgree ==
  ASSUME NKeys \in Nat, KeyCode \in [Keys -> Nat],
         NEW d \in Devices, NEW keys \in SUBSET Keys, NEW base
  PROVE  KeysSent(SendKeys(d, keys), d, base, keys)
<1> DEFINE N == NKeys
           old == d.keys
<1>0. old \in SUBSET Keys /\ Keys = 0 .. N - 1
  BY DEF Devices, Keys
<1>7. SweptEach(N, old, keys)
  BY <1>0, SweptOn
<1>1. PICK f : /\ f[0] = d
               /\ \A i \in 1 .. N : f[i] = SendKey(f[i - 1], old, keys, i - 1)
               /\ SendKeys(d, keys) = f[N]
  BY KeysLoop
<1> DEFINE I == {n \in 0 .. N : KeysSent(f[n], d, base, Swept(N, old, keys, n))}
<1>2. 0 \in I
  <2>1. Swept(N, old, keys, 0) = old
    BY <1>7 DEF SweptEach
  <2>2. KeysSent(d, d, base, old)
    BY DEF KeysSent, SameOld
  <2> QED
    BY <1>1, <2>1, <2>2
<1>3. ASSUME NEW n \in I, n < N PROVE n + 1 \in I
  <2> DEFINE k == n + 1
             x == f[n]
             y == f[k]
             S == Swept(N, old, keys, n)
             T == Swept(N, old, keys, k)
             code == KeyCode[n]
  <2>1. n \in Keys /\ k \in 1 .. N /\ k - 1 = n /\ k \in 0 .. N
    BY <1>3 DEF Keys
  <2>2. KeysSent(x, d, base, S) /\ x \in Devices
    BY DEF SameOld, KeysSent
  <2>3. y = SendKey(x, old, keys, n)
    BY <1>1, <2>1
  <2>4. /\ S \in SUBSET Keys
        /\ n \in S <=> n \in old
        /\ n \in keys => T = S \cup {n}
        /\ n \notin keys => T = S \ {n}
    BY <1>0, <1>7, <2>1 DEF SweptEach
  <2>5. code \in Nat
    BY <2>1
  <2> HIDE DEF x, y, k, S, T, code, old
  <2>6. ASSUME NEW press \in BOOLEAN, y = Emit(x, "key", code, press)
        PROVE  /\ SameOld(y, d) /\ y.pan = d.pan /\ (y.scroll <=> d.scroll)
               /\ Clicks(y.out) = Clicks(d.out)
               /\ y.down = IF press THEN x.down \cup {<<"key", code>>} ELSE x.down \ {<<"key", code>>}
    <3>1. Sent(y, x, "key", code, press)
      BY <2>2, <2>5, <2>6, EmitDoes
    <3> DEFINE e == <<"key", code, press>>
    <3>2. e \in Sendable /\ x.out \in Seq(Sendable) /\ e # <<"button", 4, TRUE>> /\ e # <<"button", 5, TRUE>>
      BY <2>2, <2>5 DEF Sendable, Devices
    <3>3. y.out = Append(x.out, e)
      BY <3>1 DEF Sent
    <3> HIDE DEF e
    <3>4. Clicks(y.out) = Clicks(x.out)
      BY <3>2, <3>3, ClicksAppend
    <3> QED
      BY <2>2, <3>1, <3>4 DEF Sent, KeysSent, SameOld
  <2>7. CASE n \in keys /\ n \notin old
    <3>1. y = Emit(x, "key", code, TRUE)
      BY <2>3, <2>7 DEF SendKey, code
    <3>2. /\ SameOld(y, d) /\ y.pan = d.pan /\ (y.scroll <=> d.scroll)
          /\ Clicks(y.out) = Clicks(d.out) /\ y.down = x.down \cup {<<"key", code>>}
      BY <2>6, <3>1
    <3>3. KeysApart(base) /\ d.down = base \cup KeyCodes(d.keys) => y.down = base \cup KeyCodes(T)
      BY <2>1, <2>2, <2>4, <2>7, <3>2, KeySent DEF KeysSent, code
    <3>4. KeysSent(y, d, base, T)
      BY <3>2, <3>3 DEF KeysSent
    <3> QED
      BY <2>1, <3>4 DEF y, k, T, old
  <2>8. CASE n \notin keys /\ n \in old
    <3>1. y = Emit(x, "key", code, FALSE)
      <4>1. (n \in keys) = FALSE
        BY <2>8
      <4> QED
        BY <2>3, <2>8, <4>1, Zenon DEF SendKey, code
    <3>2. /\ SameOld(y, d) /\ y.pan = d.pan /\ (y.scroll <=> d.scroll)
          /\ Clicks(y.out) = Clicks(d.out) /\ y.down = x.down \ {<<"key", code>>}
      BY <2>6, <3>1
    <3>3. KeysApart(base) /\ d.down = base \cup KeyCodes(d.keys) => y.down = base \cup KeyCodes(T)
      BY <2>1, <2>2, <2>4, <2>8, <3>2, KeySent DEF KeysSent, code
    <3>4. KeysSent(y, d, base, T)
      BY <3>2, <3>3 DEF KeysSent
    <3> QED
      BY <2>1, <3>4 DEF y, k, T, old
  <2>9. CASE n \in keys <=> n \in old
    <3>1. y = x /\ T = S
      BY <2>3, <2>4, <2>9 DEF SendKey
    <3>2. KeysSent(y, d, base, T)
      BY <2>2, <3>1
    <3> QED
      BY <2>1, <3>2 DEF y, k, T, old
  <2> QED
    BY <2>7, <2>8, <2>9
<1>4. I \in SUBSET (0 .. N)
  OBVIOUS
<1>5. N \in I
  <2> HIDE DEF I
  <2> QED
    BY <1>2, <1>3, <1>4, UpTo
<1>6. Swept(N, old, keys, N) = keys
  BY <1>7 DEF SweptEach
<1> QED
  BY <1>1, <1>5, <1>6

-----------------------------------------------------------------------------
(***************************************************************************)
(* wcmSendButtons: panscroll mode stays with a button that is held.        *)
(***************************************************************************)
OnTPC == conf.tpc /\ conf.kind = "stylus"

\* Panscroll mode is on for one of these buttons; on a Tablet PC, with the tip down
\* but not for the tip.
ScrollBy(scroll, buttons) ==
  /\ OnTPC => ~Pan(0)
  /\ scroll => (\E b \in buttons : Pan(b)) /\ (OnTPC => 0 \in buttons)

OneOnly == \A b, c \in ButtonSet : Pan(b) /\ Pan(c) => b = c

ButtonsSent(x, d, buttons) ==
  /\ SameOld(x, d)
  /\ ScrollBy(d.scroll, d.buttons) => ScrollBy(x.scroll, buttons)
  /\ x.scroll => x.pan = 0 \/ (x.pan = d.pan /\ d.scroll)
  /\ Unscrolled => Clicks(x.out) = Clicks(d.out)
  /\ OneOnly /\ ScrollBy(d.scroll, d.buttons) /\ d.scroll /\ 0 \in d.buttons => x.pan = d.pan

LEMMA ComesGoes ==
  ASSUME NEW old \in SUBSET ButtonSet, NEW now \in SUBSET ButtonSet, NEW first \in Nat, NButtons \in Nat
  PROVE  /\ \A b : Comes(old, now, first, NButtons, b) => b \in now /\ b \notin old
         /\ \A b \in old \ now : b >= first => Goes(old, now, first, NButtons, b)
BY DEF Comes, Goes, ButtonSet

\* The old buttons as they are, all to be sent.
LEMMA SentPlainly ==
  ASSUME Listed, NButtons \in Nat, NEW d \in Devices, NEW now \in SUBSET ButtonSet
  PROVE  LET x == SendChanges(d, d.buttons, now, 0)
         IN  /\ SameOld(x, d)
             /\ (d.scroll => \E b \in d.buttons : Pan(b)) => (x.scroll => \E b \in now : Pan(b))
             /\ x.scroll => x.pan = 0 \/ (x.pan = d.pan /\ d.scroll)
             /\ Unscrolled => Clicks(x.out) = Clicks(d.out)
             /\ OneOnly /\ (\E b \in d.buttons : Pan(b)) => x.pan = d.pan
<1> DEFINE x == SendChanges(d, d.buttons, now, 0)
           old == d.buttons
<1>0. old \in SUBSET ButtonSet /\ 0 \in 0 .. NButtons
  BY DEF Devices
<1>1. ChangedUpto(x, d, old, now, 0, NButtons)
  BY <1>0, ChangesDo
<1>2. \A b \in old \ now : b >= 0
  BY <1>0 DEF ButtonSet
<1>3. /\ \A b : Comes(old, now, 0, NButtons, b) => b \in now /\ b \notin old
      /\ \A b \in old \ now : Goes(old, now, 0, NButtons, b)
  BY <1>0, <1>2, ComesGoes
<1> HIDE DEF x, old
<1>4. ASSUME d.scroll => \E b \in old : Pan(b), x.scroll
      PROVE  \E b \in now : Pan(b)
  BY <1>1, <1>3, <1>4 DEF ChangedUpto
<1>5. ASSUME OneOnly, NEW b \in old, Pan(b)
      PROVE  x.pan = d.pan
  BY <1>0, <1>1, <1>3, <1>5 DEF ChangedUpto, OneOnly
<1>6. x.scroll => x.pan = 0 \/ (x.pan = d.pan /\ d.scroll)
  BY <1>1 DEF ChangedUpto
<1>7. SameOld(x, d) /\ (Unscrolled => Clicks(x.out) = Clicks(d.out))
  BY <1>1 DEF ChangedUpto
<1>8. /\ SameOld(x, d)
      /\ (d.scroll => \E b \in old : Pan(b)) => (x.scroll => \E b \in now : Pan(b))
      /\ x.scroll => x.pan = 0 \/ (x.pan = d.pan /\ d.scroll)
      /\ Unscrolled => Clicks(x.out) = Clicks(d.out)
      /\ OneOnly /\ (\E b \in old : Pan(b)) => x.pan = d.pan
  BY <1>4, <1>5, <1>6, <1>7
<1> QED
  BY <1>8 DEF x, old

LEMMA SendButtonsDoes ==
  ASSUME Listed, NButtons \in Nat \ {0}, NEW d \in Devices, NEW buttons \in SUBSET ButtonSet
  PROVE  ButtonsSent(SendButtons(d, buttons), d, buttons)
<1> DEFINE x == SendButtons(d, buttons)
           first == IF buttons \subseteq {0} THEN 0 ELSE 1
<1>0. d.buttons \in SUBSET ButtonSet /\ first \in 0 .. NButtons /\ first \in Nat
  BY DEF Devices
<1>1. CASE ~OnTPC
  <2>1. x = SendChanges(d, d.buttons, buttons, 0)
    BY <1>1 DEF OnTPC, SendButtons
  <2> QED
    BY <1>1, <2>1, SentPlainly DEF ButtonsSent, ScrollBy
<1>2. CASE OnTPC
  <2> DEFINE tip == 0 \in buttons
             was == 0 \in d.buttons
  <2>0. /\ ~tip => x = SendChanges(d, d.buttons, {}, first)
        /\ tip /\ ~was => x = SendChanges(d, {}, buttons, first)
        /\ tip /\ was /\ buttons # d.buttons => x = SendChanges(d, d.buttons, buttons \ {0}, 0)
        /\ tip /\ was /\ buttons = d.buttons => x = SendChanges(d, d.buttons, buttons, first)
    BY <1>2 DEF OnTPC, SendButtons, TabletPC
  <2> HIDE DEF x, first, tip, was
  <2>1. CASE ~tip
    <3>1. ChangedUpto(x, d, d.buttons, {}, first, NButtons)
      BY <1>0, <2>0, <2>1, ChangesDo
    <3>2. /\ \A b : ~Comes(d.buttons, {}, first, NButtons, b)
          /\ \A b \in d.buttons : b >= first => Goes(d.buttons, {}, first, NButtons, b)
      BY <1>0, ComesGoes
    <3>3. ~Pan(0) => \A b \in d.buttons : Pan(b) => b >= first
      BY <1>0 DEF ButtonSet, first
    <3>4. ScrollBy(d.scroll, d.buttons) => ~x.scroll
      BY <1>2, <3>1, <3>2, <3>3 DEF ChangedUpto, ScrollBy
    <3>5. SameOld(x, d) /\ x.pan = d.pan /\ (x.scroll => d.scroll) /\ (Unscrolled => Clicks(x.out) = Clicks(d.out))
      BY <3>1, <3>2 DEF ChangedUpto
    <3> QED
      BY <3>4, <3>5 DEF ButtonsSent, ScrollBy, x
  <2>2. CASE tip /\ ~was
    <3>1. ChangedUpto(x, d, {}, buttons, first, NButtons)
      BY <1>0, <2>0, <2>2, ChangesDo
    <3>2. \A b : Comes({}, buttons, first, NButtons, b) => b \in buttons
      BY <1>0, ComesGoes
    <3>3. ScrollBy(d.scroll, d.buttons) => ~d.scroll
      BY <1>2, <2>2 DEF ScrollBy, was
    <3>4. ScrollBy(d.scroll, d.buttons) => ScrollBy(x.scroll, buttons)
      BY <2>2, <3>1, <3>2, <3>3 DEF ChangedUpto, ScrollBy, tip
    <3>5. SameOld(x, d) /\ (x.scroll => x.pan = 0 \/ (x.pan = d.pan /\ d.scroll)) /\ (Unscrolled => Clicks(x.out) = Clicks(d.out))
      BY <3>1 DEF ChangedUpto
    <3> QED
      BY <2>2, <3>4, <3>5 DEF ButtonsSent, was, x
  <2>3. CASE tip /\ was /\ buttons # d.buttons
    <3> DEFINE now == buttons \ {0}
    <3>1. x = SendChanges(d, d.buttons, now, 0)
      BY <2>0, <2>3
    <3>2. now \in SUBSET ButtonSet
      OBVIOUS
    <3> HIDE DEF now
    <3>3. /\ SameOld(x, d)
          /\ (d.scroll => \E b \in d.buttons : Pan(b)) => (x.scroll => \E b \in now : Pan(b))
          /\ x.scroll => x.pan = 0 \/ (x.pan = d.pan /\ d.scroll)
          /\ Unscrolled => Clicks(x.out) = Clicks(d.out)
          /\ OneOnly /\ (\E b \in d.buttons : Pan(b)) => x.pan = d.pan
      BY <3>1, <3>2, SentPlainly
    <3>4. ScrollBy(d.scroll, d.buttons) => ScrollBy(x.scroll, buttons)
      BY <2>3, <3>3 DEF ScrollBy, tip, now
    <3>5. OneOnly /\ ScrollBy(d.scroll, d.buttons) /\ d.scroll => x.pan = d.pan
      BY <3>3 DEF ScrollBy
    <3> QED
      BY <3>3, <3>4, <3>5 DEF ButtonsSent, x
  <2>4. CASE tip /\ was /\ buttons = d.buttons
    <3>1. ChangedUpto(x, d, buttons, buttons, first, NButtons)
      BY <1>0, <2>0, <2>4, ChangesDo
    <3>2. \A b : ~Comes(buttons, buttons, first, NButtons, b)
      BY <1>0, ComesGoes
    <3>3. SameOld(x, d) /\ x.pan = d.pan /\ (x.scroll => d.scroll) /\ (Unscrolled => Clicks(x.out) = Clicks(d.out))
      BY <3>1, <3>2 DEF ChangedUpto
    <3> QED
      BY <2>4, <3>3 DEF ButtonsSent, ScrollBy, x
  <2> QED
    BY <2>1, <2>2, <2>3, <2>4
<1> QED
  BY <1>1, <1>2

-----------------------------------------------------------------------------
(***************************************************************************)
(* Panning and the wheels.                                                 *)
(***************************************************************************)
LEMMA Truncates ==
  ASSUME NEW a \in Int, NEW t \in Nat \ {0}
  PROVE  /\ Quotient(a, t) \in Int /\ Remainder(a, t) \in Int /\ Abs(Quotient(a, t)) \in Nat
         /\ t * Quotient(a, t) + Remainder(a, t) = a
         /\ Abs(Remainder(a, t)) < t
<1>1. ASSUME NEW n \in Nat PROVE n \div t \in Nat /\ n - t * (n \div t) \in 0 .. t - 1
  OBVIOUS
<1>2. Quotient(a, t) \in Int
  BY DEF Quotient
<1> DEFINE q == Quotient(a, t)
<1>3. t * q \in Int
  BY <1>2
<1>4. Remainder(a, t) = a - t * q
  BY DEF Remainder
<1>5. CASE a >= 0
  <2>1. q = a \div t
    BY <1>5 DEF Quotient
  <2> HIDE DEF q
  <2>2. a - t * q \in 0 .. t - 1
    BY <1>1, <1>5, <2>1
  <2> QED
    BY <1>2, <1>3, <1>4, <2>2 DEF Abs, q
<1>6. CASE a < 0
  <2> DEFINE n == -a
             m == n \div t
  <2>1. q = -m
    BY <1>6 DEF Quotient
  <2>2. n \in Nat
    BY <1>6
  <2> HIDE DEF q
  <2>3. m \in Nat /\ n - t * m \in 0 .. t - 1
    BY <1>1, <2>2
  <2>4. t * q = -(t * m) /\ t * m \in Int
    <3> HIDE DEF m
    <3> QED
      BY <2>1, <2>3
  <2> HIDE DEF m
  <2> QED
    BY <1>2, <1>3, <1>4, <2>3, <2>4 DEF Abs, q
<1> QED
  BY <1>5, <1>6

LEMMA NotchDoes ==
  ASSUME NEW d \in Devices, NEW b \in {4, 5}
  PROVE  LET x == Notch(d, b)
         IN  /\ SameOld(x, d) /\ x.scroll = d.scroll /\ x.pan = d.pan
             /\ x.down = d.down \ {<<"button", b>>}
             /\ Clicks(d.out) \in Int
             /\ b = 4 => Clicks(x.out) = Clicks(d.out) + 1
             /\ b = 5 => Clicks(x.out) = Clicks(d.out) - 1
<1> DEFINE y == Emit(d, "button", b, TRUE)
           x == Emit(y, "button", b, FALSE)
           e == <<"button", b, TRUE>>
           u == <<"button", b, FALSE>>
<1>1. Sent(y, d, "button", b, TRUE)
  BY EmitDoes
<1>2. y \in Devices
  BY <1>1 DEF Sent, SameOld
<1> HIDE DEF y
<1>3. Sent(x, y, "button", b, FALSE)
  BY <1>2, EmitDoes
<1> HIDE DEF x
<1>4. /\ e \in Sendable /\ u \in Sendable /\ d.out \in Seq(Sendable) /\ y.out \in Seq(Sendable)
      /\ u # <<"button", 4, TRUE>> /\ u # <<"button", 5, TRUE>>
      /\ b = 4 <=> e = <<"button", 4, TRUE>>
      /\ b = 5 <=> e = <<"button", 5, TRUE>>
  <2>1. e \in Sendable /\ u \in Sendable
    <3>1. ASSUME NEW press \in BOOLEAN PROVE <<"button", b, press>> \in Sendable
      BY DEF Sendable
    <3>2. TRUE \in BOOLEAN /\ FALSE \in BOOLEAN
      OBVIOUS
    <3> QED
      BY <3>1, <3>2, Zenon
  <2>2. d.out \in Seq(Sendable) /\ y.out \in Seq(Sendable)
    BY <1>2 DEF Devices
  <2>3. u # <<"button", 4, TRUE>> /\ u # <<"button", 5, TRUE>>
    OBVIOUS
  <2>4. (b = 4 <=> e = <<"button", 4, TRUE>>) /\ (b = 5 <=> e = <<"button", 5, TRUE>>)
    OBVIOUS
  <2> HIDE DEF e, u
  <2> QED
    BY <2>1, <2>2, <2>3, <2>4
<1>5. y.out = Append(d.out, e) /\ x.out = Append(y.out, u)
  BY <1>1, <1>3 DEF Sent
<1> HIDE DEF e, u
<1>6. Clicks(x.out) = Clicks(y.out)
  BY <1>4, <1>5, ClicksAppend
<1>7. /\ Clicks(d.out) \in Int
      /\ b = 4 => Clicks(y.out) = Clicks(d.out) + 1
      /\ b = 5 => Clicks(y.out) = Clicks(d.out) - 1
  BY <1>4, <1>5, ClicksAppend
<1>8. x.down = d.down \ {<<"button", b>>}
  BY <1>1, <1>3 DEF Sent
<1>9. SameOld(x, d) /\ x.scroll = d.scroll /\ x.pan = d.pan
  BY <1>1, <1>3 DEF Sent, SameOld
<1>10. x = Notch(d, b)
  BY DEF Notch, x, y
<1> QED
  BY <1>6, <1>7, <1>8, <1>9, <1>10

\* x is d after so many more scroll clicks.
Clicked(x, d, pan, clicks) ==
  /\ SameOld(x, d) /\ x.pan = pan /\ (x.scroll <=> d.scroll)
  /\ x.down \subseteq d.down /\ d.down \ ScrollCodes \subseteq x.down
  /\ Clicks(x.out) = Clicks(d.out) + clicks

LEMMA PerNotchDoes ==
  ASSUME NEW d \in Devices, NEW a \in Int, Threshold \in Nat \ {0}
  PROVE  Clicked(ButtonPerNotch(d, a), d, Remainder(a, Threshold), Quotient(a, Threshold))
<1> DEFINE q == Quotient(a, Threshold)
           N == Abs(q)
           b == IF q > 0 THEN 4 ELSE 5
           sign == IF q > 0 THEN 1 ELSE -1
           pan == Remainder(a, Threshold)
           start == [d EXCEPT !.pan = pan]
<1>0. N \in Nat /\ q \in Int /\ pan \in Int
  BY Truncates
<1>1. PICK f : /\ f[0] = start
               /\ \A i \in 1 .. N : f[i] = Notch(f[i - 1], b)
               /\ ButtonPerNotch(d, a) = f[N]
  BY <1>0, NotchLoop
<1>2. start \in Devices
  BY <1>0 DEF Devices
<1>3. /\ start.prox = d.prox /\ start.buttons = d.buttons /\ start.keys = d.keys /\ start.y = d.y
      /\ start.ring = d.ring /\ start.scroll = d.scroll /\ start.pan = pan /\ start.down = d.down
      /\ start.out = d.out
  BY DEF Devices
<1>4. d.out \in Seq(Sendable) /\ <<"button", 4, TRUE>> \in Sendable
  BY DEF Devices, Sendable
<1>5. Clicks(d.out) \in Int
  BY <1>4, ClicksAppend
<1> HIDE DEF start, pan
<1>6. Clicked(start, d, pan, 0)
  BY <1>2, <1>3, <1>5 DEF Clicked, SameOld
<1> DEFINE Inv(x, n) == Clicked(x, d, pan, n * sign)
           I == {n \in 0 .. N : Inv(f[n], n)}
<1>7. 0 \in I
  <2>1. 0 * sign = 0 /\ 0 \in 0 .. N
    BY <1>0
  <2> HIDE DEF sign, N
  <2> QED
    BY <1>1, <1>6, <2>1
<1>8. ASSUME NEW n \in I, n < N PROVE n + 1 \in I
  <2> DEFINE k == n + 1
             x == f[n]
             y == f[k]
             was == n * sign
             now == k * sign
  <2>1. k \in 1 .. N /\ k - 1 = n /\ k \in 0 .. N
    BY <1>0, <1>8
  <2>2. Clicked(x, d, pan, was)
    OBVIOUS
  <2>3. was \in Int /\ now = was + sign /\ b \in {4, 5} /\ (b = 4 => sign = 1) /\ (b = 5 => sign = -1)
    BY <1>0
  <2>4. y = Notch(x, b)
    BY <1>1, <2>1
  <2> HIDE DEF k, x, y, was, now, sign, b, N
  <2>5. x \in Devices
    BY <2>2 DEF Clicked, SameOld
  <2>6. /\ SameOld(y, x) /\ y.scroll = x.scroll /\ y.pan = x.pan
        /\ y.down = x.down \ {<<"button", b>>}
        /\ Clicks(x.out) \in Int
        /\ b = 4 => Clicks(y.out) = Clicks(x.out) + 1
        /\ b = 5 => Clicks(y.out) = Clicks(x.out) - 1
    BY <2>3, <2>4, <2>5, NotchDoes
  <2>7. Clicks(y.out) = Clicks(d.out) + now
    <3> DEFINE cx == Clicks(x.out)
               cd == Clicks(d.out)
               cy == Clicks(y.out)
    <3>1. cx \in Int /\ cd \in Int /\ cx = cd + was /\ (b = 4 => cy = cx + 1) /\ (b = 5 => cy = cx - 1)
      BY <1>5, <2>2, <2>6 DEF Clicked
    <3> HIDE DEF cx, cd, cy
    <3>2. cy = cd + now
      BY <2>3, <3>1
    <3> QED
      BY <3>2 DEF cy, cd
  <2>8. <<"button", b>> \in ScrollCodes
    BY <2>3 DEF ScrollCodes
  <2>9. SameOld(y, d) /\ y.pan = pan /\ (y.scroll <=> d.scroll)
    BY <2>2, <2>6 DEF Clicked, SameOld
  <2>10. y.down \subseteq d.down /\ d.down \ ScrollCodes \subseteq y.down
    BY <2>2, <2>6, <2>8 DEF Clicked
  <2>11. Clicked(y, d, pan, now)
    BY <2>7, <2>9, <2>10 DEF Clicked
  <2> QED
    BY <2>1, <2>11 DEF y, now, k
<1>9. I \in SUBSET (0 .. N)
  OBVIOUS
<1>10. N \in I
  <2> HIDE DEF I, N
  <2> QED
    BY <1>0, <1>7, <1>8, <1>9, UpTo
<1>11. N * sign = q
  <2> HIDE DEF q
  <2> QED
    BY <1>0 DEF Abs
<1>12. Clicked(f[N], d, pan, N * sign)
  BY <1>10
<1> HIDE DEF N, sign
<1> QED
  BY <1>1, <1>11, <1>12 DEF pan

\* wcmPanscroll.
Panned(x, d, r) ==
  IF ~d.scroll \/ 0 \notin r.buttons THEN Clicked(x, d, 0, 0)
  ELSE IF 0 \notin d.buttons THEN x = d
  ELSE Clicked(x, d, Remainder(d.pan + (r.y - d.y), Threshold),
               Quotient(d.pan + (r.y - d.y), Threshold))

LEMMA PanscrollDoes ==
  ASSUME NEW d \in Devices, NEW r, r.y \in Int, Threshold \in Nat \ {0}
  PROVE  Panned(Panscroll(d, r), d, r)
<1>1. CASE ~d.scroll \/ 0 \notin r.buttons
  <2> DEFINE x == [d EXCEPT !.pan = 0]
  <2>1. x \in Devices
    BY DEF Devices
  <2>2. /\ x.prox = d.prox /\ x.buttons = d.buttons /\ x.keys = d.keys /\ x.y = d.y
        /\ x.ring = d.ring /\ x.scroll = d.scroll /\ x.pan = 0 /\ x.down = d.down /\ x.out = d.out
    BY DEF Devices
  <2>3. Panscroll(d, r) = x
    BY <1>1 DEF Panscroll
  <2>4. d.out \in Seq(Sendable) /\ <<"button", 4, TRUE>> \in Sendable
    BY DEF Devices, Sendable
  <2>5. Clicks(d.out) \in Int
    BY <2>4, ClicksAppend
  <2> HIDE DEF x
  <2>6. Clicked(x, d, 0, 0)
    BY <2>1, <2>2, <2>5 DEF Clicked, SameOld
  <2> QED
    BY <1>1, <2>3, <2>6 DEF Panned
<1>2. CASE d.scroll /\ 0 \in r.buttons /\ 0 \notin d.buttons
  BY <1>2 DEF Panscroll, Panned
<1>3. CASE d.scroll /\ 0 \in r.buttons /\ 0 \in d.buttons
  <2> DEFINE a == d.pan + (r.y - d.y)
  <2>1. a \in Int
    BY DEF Devices
  <2>2. Panscroll(d, r) = ButtonPerNotch(d, a)
    BY <1>3 DEF Panscroll
  <2> HIDE DEF a
  <2>3. Clicked(ButtonPerNotch(d, a), d, Remainder(a, Threshold), Quotient(a, Threshold))
    BY <2>1, PerNotchDoes
  <2> QED
    BY <1>3, <2>2, <2>3 DEF Panned, a
<1> QED
  BY <1>1, <1>2, <1>3

\* A click of a wheel leaves down what was, and panscroll mode on at most.
WheelTurned(x, d) ==
  /\ SameOld(x, d)
  /\ x.scroll => d.scroll /\ x.pan = d.pan
  /\ Separate /\ d.down \cap WheelCodes = {} => x.down = d.down
  /\ WheelCodes \cap ScrollCodes = {} => Clicks(x.out) = Clicks(d.out)

LEMMA WheelStays ==
  ASSUME NEW d \in Devices
  PROVE  WheelTurned(d, d)
BY DEF WheelTurned, SameOld

LEMMA WheelClickDoes ==
  ASSUME WheelAction \in [{"up", "down"} -> ActionLists], NEW d \in Devices, NEW delta, NEW r
  PROVE  WheelTurned(WheelClick(d, delta, r), d)
<1> DEFINE dir == IF delta > 0 THEN "up" ELSE "down"
           act == WheelAction[dir]
           y == Press(d, act)
           x == Release(y, act)
<1>1. dir \in {"up", "down"}
  OBVIOUS
<1> HIDE DEF dir
<1>2. act \in ActionLists
  BY <1>1
<1>3. Codes(act) \subseteq WheelCodes /\ (Separate => Plain(act))
  BY <1>1 DEF WheelCodes, Separate
<1>4. WheelClick(d, delta, r) = d \/ WheelClick(d, delta, r) = x
  BY DEF WheelClick, dir
<1> HIDE DEF act
<1>5. /\ SameOld(y, d) /\ (y.scroll <=> d.scroll \/ Pans(act)) /\ (~Pans(act) => y.pan = d.pan)
      /\ Spared(y, d, act)
  BY <1>2, PressDoes, PressSpares
<1>6. y \in Devices
  BY <1>5 DEF SameOld
<1> HIDE DEF y
<1>7. UndoneUpto(x, y, act, Len(act)) /\ (PansUpto(act, Len(act)) <=> Pans(act))
  BY <1>2, <1>6, ReleaseDoes, PansAtEnd
<1>8. SameOld(x, d)
  BY <1>5, <1>7 DEF UndoneUpto, SameOld
<1>9. x.scroll => d.scroll /\ x.pan = d.pan
  BY <1>5, <1>7 DEF UndoneUpto
<1>10. ASSUME Separate, d.down \cap WheelCodes = {}
       PROVE  x.down = d.down
  <2>1. Codes(act) \subseteq Pressable
    BY <1>2, HoldsLast
  <2>2. \A c \in Codes(act) : c \notin d.down
    BY <1>3, <1>10
  <2>3. \A c \in Codes(act) : c \in y.down => c \in Holds(act)
    BY <1>2, <1>3, <1>10, <2>1, <2>2, PressDown DEF y
  <2>4. \A c \in Holds(act) : c \notin x.down
    BY <1>2, <1>3, <1>6, <1>10, ReleaseDown
  <2>5. \A c \in Codes(act) : c \notin x.down
    BY <1>7, <2>3, <2>4 DEF UndoneUpto
  <2>6. \A c : c \notin Codes(act) => (c \in x.down <=> c \in d.down)
    BY <1>5, <1>7 DEF UndoneUpto, Spared
  <2> QED
    BY <2>2, <2>5, <2>6
<1>11. WheelCodes \cap ScrollCodes = {} => Clicks(x.out) = Clicks(d.out)
  BY <1>3, <1>5, <1>7 DEF UndoneUpto, Spared
<1>12. WheelTurned(x, d)
  BY <1>8, <1>9, <1>10, <1>11 DEF WheelTurned
<1> QED
  BY <1>4, <1>12, WheelStays

LEMMA WheelEventsDo ==
  ASSUME WheelAction \in [{"up", "down"} -> ActionLists], NEW d \in Devices, NEW r
  PROVE  WheelTurned(WheelEvents(d, r), d) /\ (conf.kind = "stylus" => WheelEvents(d, r) = d)
<1> DEFINE delta == ScrollDelta(r.wheel, 0, 0, FALSE)
           ring == ScrollDelta(r.ring, d.ring, MaxRing, TRUE)
           y == IF conf.kind \in {"cursor", "pad"} THEN WheelClick(d, delta, r) ELSE d
           x == IF conf.kind = "pad" THEN WheelClick(y, ring, r) ELSE y
<1>1. WheelEvents(d, r) = x
  BY DEF WheelEvents
<1> HIDE DEF delta, ring
<1>2. WheelTurned(y, d)
  BY WheelClickDoes, WheelStays
<1>3. y \in Devices
  BY <1>2 DEF WheelTurned, SameOld
<1>5. conf.kind = "stylus" => x = d
  OBVIOUS
<1> HIDE DEF y
<1>4. WheelTurned(x, y)
  BY <1>3, WheelClickDoes, WheelStays
<1> HIDE DEF x
<1>6. SameOld(x, d) /\ (x.scroll => d.scroll /\ x.pan = d.pan)
  BY <1>2, <1>4 DEF WheelTurned, SameOld
<1>7. /\ Separate /\ d.down \cap WheelCodes = {} => x.down = d.down
      /\ WheelCodes \cap ScrollCodes = {} => Clicks(x.out) = Clicks(d.out)
  BY <1>2, <1>4 DEF WheelTurned
<1> QED
  BY <1>1, <1>5, <1>6, <1>7 DEF WheelTurned

-----------------------------------------------------------------------------
(***************************************************************************)
(* An event.                                                               *)
(***************************************************************************)
Held(r) == IF r.prox THEN r.buttons ELSE {}

\* What panning and the scroll buttons need of the actions as they are.
Quietly == /\ OneOnly /\ Unscrolled
           /\ conf.kind = "stylus" \/ WheelCodes \cap ScrollCodes = {}

PanIdle(d) == d.scroll /\ 0 \notin d.buttons => d.pan = 0

\* x is s after the report of buttons in proximity.
PanKept(x, s, r) ==
  Quietly /\ ScrollBy(s.scroll, s.buttons) /\ PanIdle(s) /\ x.scroll =>
    IF s.scroll /\ 0 \in s.buttons /\ 0 \in r.buttons
    THEN /\ x.pan = Remainder(s.pan + (r.y - s.y), Threshold)
         /\ Clicks(x.out) = Clicks(s.out) + Quotient(s.pan + (r.y - s.y), Threshold)
    ELSE x.pan = 0

LEMMA CommonDoes ==
  ASSUME ButtonAssumption, Listed, NEW s \in Devices, NEW r, r.buttons \in SUBSET ButtonSet,
         r.y \in Int
  PROVE  LET x == CommonEvents(s, r)
         IN  /\ SameOld(x, s)
             /\ ScrollBy(s.scroll, s.buttons) => ScrollBy(x.scroll, r.buttons)
             /\ PanKept(x, s, r)
<1> DEFINE p == Panscroll(s, r)
           q == IF s.buttons # r.buttons \/ (~s.prox /\ r.buttons = {}) THEN SendButtons(p, r.buttons)
                ELSE p
           x == WheelEvents(q, r)
           a == s.pan + (r.y - s.y)
<1>0. /\ NButtons \in Nat \ {0} /\ Threshold \in Nat \ {0}
      /\ WheelAction \in [{"up", "down"} -> ActionLists]
  BY DEF ButtonAssumption
<1>1. Panned(p, s, r)
  BY <1>0, PanscrollDoes
<1>2. SameOld(p, s) /\ (p.scroll <=> s.scroll)
  BY <1>1 DEF Panned, Clicked, SameOld
<1>3. p \in Devices /\ p.buttons = s.buttons
  BY <1>2 DEF SameOld
<1> HIDE DEF p
<1>4. ButtonsSent(q, p, r.buttons)
  <2>1. CASE q = SendButtons(p, r.buttons)
    <3> HIDE DEF q
    <3> QED
      BY <1>0, <1>3, <2>1, SendButtonsDoes
  <2>2. CASE q = p /\ s.buttons = r.buttons
    <3> HIDE DEF q
    <3> QED
      BY <1>3, <2>2 DEF ButtonsSent, SameOld
  <2> QED
    BY <2>1, <2>2
<1>5. q \in Devices
  BY <1>4 DEF ButtonsSent, SameOld
<1>6. CommonEvents(s, r) = x
  BY DEF CommonEvents, p
<1> HIDE DEF q
<1>7. WheelTurned(x, q) /\ (conf.kind = "stylus" => x = q)
  BY <1>0, <1>5, WheelEventsDo
<1> HIDE DEF x
<1>8. SameOld(x, s)
  BY <1>2, <1>4, <1>7 DEF SameOld, ButtonsSent, WheelTurned
<1>9. ASSUME ScrollBy(s.scroll, s.buttons) PROVE ScrollBy(x.scroll, r.buttons)
  <2>1. ScrollBy(p.scroll, p.buttons)
    BY <1>2, <1>3, <1>9 DEF ScrollBy
  <2>2. ScrollBy(q.scroll, r.buttons)
    BY <1>4, <2>1 DEF ButtonsSent
  <2> QED
    BY <1>7, <2>2 DEF ScrollBy, WheelTurned
<1>10. PanKept(x, s, r)
  <2> SUFFICES ASSUME Quietly, ScrollBy(s.scroll, s.buttons), PanIdle(s), x.scroll
               PROVE  IF s.scroll /\ 0 \in s.buttons /\ 0 \in r.buttons
                      THEN /\ x.pan = Remainder(a, Threshold)
                           /\ Clicks(x.out) = Clicks(s.out) + Quotient(a, Threshold)
                      ELSE x.pan = 0
    BY DEF PanKept
  <2> HIDE DEF a
  <2>1. q.scroll /\ x.pan = q.pan
    BY <1>7 DEF WheelTurned
  <2>2. Clicks(x.out) = Clicks(p.out)
    BY <1>4, <1>7 DEF WheelTurned, ButtonsSent, Quietly
  <2>3. ScrollBy(p.scroll, p.buttons)
    BY <1>2, <1>3 DEF ScrollBy
  <2>4. CASE s.scroll /\ 0 \in s.buttons /\ 0 \in r.buttons
    <3>1. Clicked(p, s, Remainder(a, Threshold), Quotient(a, Threshold))
      BY <1>1, <2>4 DEF Panned, a
    <3>2. q.pan = p.pan
      BY <1>2, <1>3, <1>4, <2>3, <2>4 DEF ButtonsSent, Quietly
    <3> QED
      BY <2>1, <2>2, <2>4, <3>1, <3>2 DEF Clicked
  <2>5. CASE ~(s.scroll /\ 0 \in s.buttons /\ 0 \in r.buttons)
    <3>1. s.scroll /\ 0 \in r.buttons => p = s /\ s.pan = 0
      BY <1>1, <2>5 DEF Panned, PanIdle
    <3>2. p.pan = 0
      BY <1>1, <3>1 DEF Panned, Clicked
    <3>3. q.pan = 0
      BY <1>4, <2>1, <3>2 DEF ButtonsSent
    <3> QED
      BY <2>1, <2>5, <3>3
  <2> QED
    BY <2>4, <2>5
<1> QED
  BY <1>6, <1>8, <1>9, <1>10

\* The buttons and keys that are down for the server are those that the device holds.
LEMMA CommonAgrees ==
  ASSUME ButtonAssumption, Listed, NEW s \in Devices, NEW r, r.buttons \in SUBSET ButtonSet,
         r.y \in Int, ~conf.tpc, Separate, NEW rest, rest \subseteq KeyCodes(Keys), Apart(rest),
         \A b \in ButtonSet : Codes(actions[b]) \cap (ScrollCodes \cup WheelCodes) = {},
         Agree(s.down, s.buttons, rest)
  PROVE  Agree(CommonEvents(s, r).down, r.buttons, rest)
<1> DEFINE p == Panscroll(s, r)
           q == IF s.buttons # r.buttons \/ (~s.prox /\ r.buttons = {}) THEN SendButtons(p, r.buttons)
                ELSE p
           x == WheelEvents(q, r)
<1>0. /\ NButtons \in Nat \ {0} /\ Threshold \in Nat \ {0}
      /\ WheelAction \in [{"up", "down"} -> ActionLists]
  BY DEF ButtonAssumption
<1>1. Panned(p, s, r)
  BY <1>0, PanscrollDoes
<1>2. SameOld(p, s) /\ p.down \subseteq s.down /\ s.down \ ScrollCodes \subseteq p.down
  BY <1>1 DEF Panned, Clicked, SameOld
<1>3. p \in Devices /\ p.buttons = s.buttons /\ s.buttons \in SUBSET ButtonSet
  BY <1>2 DEF SameOld, Devices
<1> HIDE DEF p
<1>4. ASSUME NEW b \in ButtonSet PROVE Holds(actions[b]) \cap (ScrollCodes \cup WheelCodes) = {}
  <2>1. actions[b] \in ActionLists
    BY DEF Listed
  <2>2. Holds(actions[b]) \subseteq Codes(actions[b])
    BY <2>1, HoldsLast
  <2> QED
    BY <2>2
<1>5. rest \cap ScrollCodes = {} /\ rest \cap WheelCodes = {}
  <2>1. KeyCodes(Keys) \cap ScrollCodes = {}
    BY DEF KeyCodes, ScrollCodes
  <2> QED
    BY <2>1 DEF Separate
<1>6. Agree(p.down, s.buttons, rest)
  BY <1>2, <1>3, <1>4, <1>5 DEF Agree
<1>7. q \in Devices /\ Agree(q.down, r.buttons, rest)
  <2>1. CASE q = SendButtons(p, r.buttons)
    <3>1. q = SendChanges(p, p.buttons, r.buttons, 0)
      BY <2>1 DEF SendButtons
    <3> HIDE DEF q
    <3>2. Agree(q.down, r.buttons, rest)
      BY <1>0, <1>3, <1>6, <3>1, ChangesAgree
    <3>3. 0 \in 0 .. NButtons /\ NButtons \in Nat
      BY <1>0
    <3>4. ChangedUpto(q, p, p.buttons, r.buttons, 0, NButtons)
      BY <1>3, <3>1, <3>3, ChangesDo
    <3> QED
      BY <3>2, <3>4 DEF ChangedUpto, SameOld
  <2>2. CASE q = p /\ s.buttons = r.buttons
    <3> HIDE DEF q
    <3> QED
      BY <1>3, <1>6, <2>2
  <2> QED
    BY <2>1, <2>2
<1>8. CommonEvents(s, r) = x
  BY DEF CommonEvents, p
<1> HIDE DEF q
<1>9. q.down \cap WheelCodes = {}
  BY <1>4, <1>5, <1>7 DEF Agree
<1>10. WheelTurned(x, q)
  BY <1>0, <1>7, WheelEventsDo
<1>11. x.down = q.down
  BY <1>9, <1>10 DEF WheelTurned
<1> QED
  BY <1>7, <1>8, <1>11

\* What is known of a report.
Reported(r) ==
  /\ r.prox \in BOOLEAN /\ r.buttons \in SUBSET ButtonSet /\ r.keys \in SUBSET Keys
  /\ r.y \in Int /\ r.ring \in Int
  /\ conf.kind # "pad" => r.keys = {}
  /\ conf.kind = "pad" /\ ~r.prox => r.buttons = {} /\ r.keys = {}

LEMMA ReportsKnown ==
  ASSUME ButtonAssumption, conf.kind \in Kinds, NEW r \in Reports
  PROVE  Reported(r)
<1>1. 0 \in Rows /\ Rows \subseteq Int /\ Ring \subseteq Int /\ {0} \subseteq Int /\ {0} \subseteq Rows
  BY DEF ButtonAssumption, Ring
<1>2. conf.kind \in {"stylus", "cursor", "pad"}
  BY DEF ButtonAssumption
<1>3. CASE conf.kind = "stylus"
  <2>1. r \in ReportSet({}, Rows, {0}, {0})
    BY <1>3 DEF Reports
  <2> QED
    BY <1>1, <1>3, <2>1 DEF ReportSet, Reported
<1>4. CASE conf.kind = "cursor"
  <2>1. r \in ReportSet({}, Rows, {0}, Wheels)
    BY <1>4 DEF Reports
  <2> QED
    BY <1>1, <1>4, <2>1 DEF ReportSet, Reported
<1>5. CASE conf.kind = "pad"
  <2>1. r \in ReportSet(Keys, {0}, Ring, Wheels) /\ (r.prox \/ (r.buttons = {} /\ r.keys = {}))
    BY <1>5 DEF Reports
  <2> QED
    BY <1>1, <1>5, <2>1 DEF ReportSet, Reported
<1> QED
  BY <1>2, <1>3, <1>4, <1>5

\* oldState out of proximity, and of a device without keys.
Idle(d) == /\ ~d.prox => d.buttons = {} /\ d.keys = {}
           /\ conf.kind # "pad" => d.keys = {}

\* s is what wcmSendEvents begins with.
Started(s, d, r) ==
  /\ s \in Devices /\ s.prox = d.prox /\ s.buttons = d.buttons /\ s.keys = d.keys
  /\ d.prox => s.y = d.y
  /\ s.scroll <=> d.scroll /\ r.prox
  /\ s.pan = d.pan /\ s.down = d.down /\ s.out = <<>>

StartOf(d, r) == Entering([d EXCEPT !.out = <<>>, !.scroll = @ /\ r.prox], r)

LEMMA StartDoes ==
  ASSUME NEW d \in Devices, NEW r, Reported(r), Idle(d)
  PROVE  Started(StartOf(d, r), d, r)
<1> DEFINE flag == d.scroll /\ r.prox
           c == [d EXCEPT !.out = <<>>, !.scroll = flag]
           s == [c EXCEPT !.buttons = {}, !.y = r.y, !.ring = r.ring]
<1>1. flag \in BOOLEAN /\ <<>> \in Seq(Sendable)
  OBVIOUS
<1>2. flag <=> d.scroll /\ r.prox
  OBVIOUS
<1>3. StartOf(d, r) = IF d.prox THEN c ELSE s
  <2>1. [d EXCEPT !.out = <<>>, !.scroll = @ /\ r.prox] = c
    OBVIOUS
  <2>2. c.prox = d.prox
    BY DEF Devices
  <2> HIDE DEF c
  <2> QED
    BY <2>1, <2>2 DEF StartOf, Entering
<1> HIDE DEF flag
<1>4. c \in Devices
  BY <1>1 DEF Devices
<1>5. /\ c.prox = d.prox /\ c.buttons = d.buttons /\ c.keys = d.keys /\ c.y = d.y
      /\ c.pan = d.pan /\ c.down = d.down /\ c.out = <<>>
  BY DEF Devices
<1>6. c.scroll = flag
  BY DEF Devices
<1> HIDE DEF c
<1>7. CASE d.prox
  BY <1>2, <1>3, <1>4, <1>5, <1>6, <1>7 DEF Started
<1>8. CASE ~d.prox
  <2>1. d.buttons = {}
    BY <1>8 DEF Idle
  <2>2. s \in Devices
    BY <1>4 DEF Devices, Reported
  <2>3. /\ s.prox = c.prox /\ s.buttons = {} /\ s.keys = c.keys /\ s.scroll = c.scroll
        /\ s.pan = c.pan /\ s.down = c.down /\ s.out = c.out
    BY <1>4 DEF Devices
  <2> HIDE DEF s
  <2> QED
    BY <1>2, <1>3, <1>5, <1>6, <1>8, <2>1, <2>2, <2>3 DEF Started
<1> QED
  BY <1>7, <1>8

\* wcmSendPadEvents or wcmSendNonPadEvents.
Sending(s, r) == IF conf.kind = "pad" THEN SendPadEvents(s, r) ELSE SendNonPadEvents(s, r)

LEMMA SendingDoes ==
  ASSUME ButtonAssumption, Listed, NEW s \in Devices, NEW r, Reported(r)
  PROVE  LET x == Sending(s, r)
         IN  /\ SameOld(x, s)
             /\ ScrollBy(s.scroll, s.buttons) => ScrollBy(x.scroll, Held(r))
             /\ r.prox => PanKept(x, s, r)
<1> DEFINE x == Sending(s, r)
           w == CommonEvents(s, r)
<1>0. /\ r.buttons \in SUBSET ButtonSet /\ r.y \in Int /\ r.keys \in SUBSET Keys /\ NKeys \in Nat
      /\ KeyCode \in [Keys -> Nat] /\ NButtons \in Nat \ {0}
  BY DEF Reported, ButtonAssumption
<1>1. /\ SameOld(w, s)
      /\ ScrollBy(s.scroll, s.buttons) => ScrollBy(w.scroll, r.buttons)
      /\ PanKept(w, s, r)
  BY <1>0, CommonDoes
<1>2. w \in Devices
  BY <1>1 DEF SameOld
<1> HIDE DEF w
<1>3. CASE conf.kind = "pad"
  <2>1. x = SendKeys(w, r.keys)
    BY <1>3 DEF Sending, SendPadEvents, w
  <2> HIDE DEF x
  <2>2. KeysSent(x, w, {}, r.keys)
    BY <1>0, <1>2, <2>1, KeysAgree
  <2>3. SameOld(x, w) /\ x.pan = w.pan /\ (x.scroll <=> w.scroll) /\ Clicks(x.out) = Clicks(w.out)
    BY <2>2 DEF KeysSent
  <2>4. Held(r) = r.buttons
    BY <1>3 DEF Held, Reported
  <2>5. SameOld(x, s)
    BY <1>1, <2>3 DEF SameOld
  <2>6. ScrollBy(s.scroll, s.buttons) => ScrollBy(x.scroll, Held(r))
    BY <1>1, <2>3, <2>4 DEF ScrollBy
  <2>7. PanKept(x, s, r)
    BY <1>1, <2>3 DEF PanKept
  <2> QED
    BY <2>5, <2>6, <2>7 DEF x
<1>4. CASE conf.kind # "pad" /\ r.prox
  <2>1. x = w
    BY <1>4 DEF Sending, SendNonPadEvents, w
  <2>2. Held(r) = r.buttons
    BY <1>4 DEF Held
  <2> HIDE DEF x
  <2>3. SameOld(x, s) /\ (ScrollBy(s.scroll, s.buttons) => ScrollBy(x.scroll, Held(r))) /\ PanKept(x, s, r)
    BY <1>1, <2>1, <2>2
  <2> QED
    BY <2>3 DEF x
<1>5. CASE conf.kind # "pad" /\ ~r.prox
  <2>1. x = IF s.buttons # {} THEN SendButtons(s, {}) ELSE s
    BY <1>5 DEF Sending, SendNonPadEvents
  <2>2. Held(r) = {}
    BY <1>5 DEF Held
  <2> HIDE DEF x
  <2>3. ButtonsSent(x, s, {})
    <3>1. CASE s.buttons # {}
      <4>1. {} \in SUBSET ButtonSet /\ x = SendButtons(s, {})
        BY <2>1, <3>1
      <4> QED
        BY <1>0, <4>1, SendButtonsDoes
    <3>2. CASE s.buttons = {}
      BY <2>1, <3>2 DEF ButtonsSent, SameOld
    <3> QED
      BY <3>1, <3>2
  <2>4. SameOld(x, s) /\ (ScrollBy(s.scroll, s.buttons) => ScrollBy(x.scroll, Held(r)))
    BY <2>2, <2>3 DEF ButtonsSent
  <2> QED
    BY <1>5, <2>4 DEF x
<1> QED
  BY <1>3, <1>4, <1>5

\* The actions in force, and what they need of those that may be bound.
ActsBound == \A b \in ButtonSet : actions[b] \in Bound(b)

LEMMA BoundApart ==
  ASSUME ActsBound, Separate, NEW rest, rest \subseteq KeyCodes(Keys)
  PROVE  /\ Apart(rest)
         /\ \A b \in ButtonSet :
              Codes(actions[b]) \cap (ScrollCodes \cup WheelCodes \cup KeyCodes(Keys)) = {}
<1>1. ASSUME NEW b \in ButtonSet
      PROVE  /\ Plain(actions[b])
             /\ Codes(actions[b]) \cap (KeyCodes(Keys) \cup ScrollCodes \cup WheelCodes) = {}
             /\ \A o \in ButtonSet \ {b} : Codes(actions[b]) \cap Codes(actions[o]) = {}
  BY DEF ActsBound, Separate
<1> QED
  BY <1>1 DEF Apart

LEMMA SendingAgrees ==
  ASSUME ButtonAssumption, Listed, ActsBound, NEW s \in Devices, NEW r, Reported(r),
         ~conf.tpc, Separate, conf.kind # "pad" => s.keys = {},
         Agree(s.down, s.buttons, KeyCodes(s.keys))
  PROVE  Agree(Sending(s, r).down, Held(r), KeyCodes(IF r.prox THEN r.keys ELSE {}))
<1> DEFINE x == Sending(s, r)
           w == CommonEvents(s, r)
           rest == KeyCodes(s.keys)
<1>0. /\ r.buttons \in SUBSET ButtonSet /\ r.y \in Int /\ r.keys \in SUBSET Keys /\ NKeys \in Nat
      /\ KeyCode \in [Keys -> Nat] /\ NButtons \in Nat \ {0}
  BY DEF Reported, ButtonAssumption
<1>1. rest \subseteq KeyCodes(Keys) /\ s.buttons \in SUBSET ButtonSet
  BY DEF KeyCodes, Devices
<1> HIDE DEF rest
<1>2. /\ Apart(rest)
      /\ \A b \in ButtonSet :
           Codes(actions[b]) \cap (ScrollCodes \cup WheelCodes \cup KeyCodes(Keys)) = {}
  BY <1>1, BoundApart
<1>3. Agree(s.down, s.buttons, rest)
  BY DEF rest
<1>4. Agree(w.down, r.buttons, rest)
  BY <1>0, <1>1, <1>2, <1>3, CommonAgrees
<1>6. w \in Devices /\ w.keys = s.keys
  BY <1>0, CommonDoes DEF SameOld
<1> HIDE DEF w
<1>7. CASE conf.kind = "pad"
  <2> DEFINE base == w.down \ rest
  <2>1. x = SendKeys(w, r.keys)
    BY <1>7 DEF Sending, SendPadEvents, w
  <2>2. w.down = base \cup KeyCodes(w.keys)
    BY <1>4, <1>6 DEF Agree, rest
  <2>3. ASSUME NEW c \in base PROVE c \notin KeyCodes(Keys)
    <3>1. PICK b \in r.buttons : c \in Holds(actions[b])
      BY <1>4, <2>3 DEF Agree
    <3>2. b \in ButtonSet /\ actions[b] \in ActionLists
      BY <1>0 DEF Listed
    <3>3. c \in Codes(actions[b])
      BY <3>1, <3>2, HoldsLast
    <3> QED
      BY <1>2, <3>2, <3>3
  <2> HIDE DEF base, x
  <2>4. KeysApart(base)
    BY <2>3 DEF KeysApart, Separate
  <2>5. KeysSent(x, w, base, r.keys)
    BY <1>0, <1>6, <2>1, KeysAgree
  <2>6. x.down = base \cup KeyCodes(r.keys)
    BY <2>2, <2>4, <2>5 DEF KeysSent
  <2>7. Held(r) = r.buttons /\ (IF r.prox THEN r.keys ELSE {}) = r.keys
    BY <1>7 DEF Held, Reported
  <2>8. ASSUME NEW b \in r.buttons, NEW c \in Holds(actions[b]), c # Button1 PROVE c \in x.down
    <3>1. b \in ButtonSet /\ actions[b] \in ActionLists
      BY <1>0 DEF Listed
    <3>2. c \in Codes(actions[b])
      BY <3>1, HoldsLast
    <3>3. c \notin rest
      BY <1>1, <1>2, <3>1, <3>2
    <3>4. c \in w.down
      BY <1>4, <2>8 DEF Agree
    <3> QED
      BY <2>6, <3>3, <3>4 DEF base
  <2>9. \A c \in base : \E b \in r.buttons : c \in Holds(actions[b])
    BY <1>4 DEF Agree, base
  <2>10. Agree(x.down, r.buttons, KeyCodes(r.keys))
    BY <2>6, <2>8, <2>9 DEF Agree
  <2> QED
    BY <2>7, <2>10 DEF x
<1>8. CASE conf.kind # "pad" /\ r.prox
  <2>1. x = w
    BY <1>8 DEF Sending, SendNonPadEvents, w
  <2>2. Held(r) = r.buttons /\ (IF r.prox THEN r.keys ELSE {}) = s.keys
    BY <1>8 DEF Held, Reported
  <2> QED
    BY <1>4, <2>1, <2>2 DEF rest
<1>9. CASE conf.kind # "pad" /\ ~r.prox
  <2>1. x = IF s.buttons # {} THEN SendButtons(s, {}) ELSE s
    BY <1>9 DEF Sending, SendNonPadEvents
  <2>2. Held(r) = {} /\ (IF r.prox THEN r.keys ELSE {}) = s.keys
    BY <1>9 DEF Held
  <2> HIDE DEF x
  <2>3. Agree(x.down, {}, rest)
    <3>1. CASE s.buttons # {}
      <4>1. {} \in SUBSET ButtonSet /\ x = SendChanges(s, s.buttons, {}, 0)
        BY <2>1, <3>1 DEF SendButtons
      <4> QED
        BY <1>0, <1>1, <1>2, <1>3, <4>1, ChangesAgree
    <3>2. CASE s.buttons = {}
      BY <1>3, <2>1, <3>2
    <3> QED
      BY <3>1, <3>2
  <2> QED
    BY <2>2, <2>3 DEF rest, x
<1> QED
  BY <1>7, <1>8, <1>9

\* wcmUpdateOldState: x as it is left for the next event.
Kept(x, s, r) ==
  /\ x \in Devices /\ (x.prox <=> r.prox) /\ x.buttons = Held(r)
  /\ x.keys = (IF r.prox THEN r.keys ELSE {}) /\ x.y = (IF r.prox THEN r.y ELSE 0)
  /\ (x.scroll <=> s.scroll) /\ x.pan = s.pan /\ x.down = s.down /\ x.out = s.out

LEMMA UpdatedDoes ==
  ASSUME NEW s \in Devices, NEW r, Reported(r)
  PROVE  Kept(Updated(s, r), s, r)
<1> DEFINE x == [s EXCEPT !.prox = TRUE, !.buttons = r.buttons, !.keys = r.keys, !.y = r.y,
                          !.ring = r.ring]
           z == [s EXCEPT !.prox = FALSE, !.buttons = {}, !.keys = {}, !.y = 0, !.ring = 0]
<1>1. CASE r.prox
  <2>1. Updated(s, r) = x
    BY <1>1 DEF Updated
  <2>2. x \in Devices
    BY DEF Devices, Reported
  <2>3. /\ x.prox = TRUE /\ x.buttons = r.buttons /\ x.keys = r.keys /\ x.y = r.y
        /\ x.scroll = s.scroll /\ x.pan = s.pan /\ x.down = s.down /\ x.out = s.out
    BY DEF Devices
  <2> HIDE DEF x
  <2> QED
    BY <1>1, <2>1, <2>2, <2>3 DEF Kept, Held
<1>2. CASE ~r.prox
  <2>1. Updated(s, r) = z
    BY <1>2 DEF Updated
  <2>0. {} \in SUBSET ButtonSet /\ {} \in SUBSET Keys /\ 0 \in Int /\ FALSE \in BOOLEAN
    OBVIOUS
  <2>2. z \in Devices
    BY <2>0 DEF Devices
  <2>3. /\ z.prox = FALSE /\ z.buttons = {} /\ z.keys = {} /\ z.y = 0
        /\ z.scroll = s.scroll /\ z.pan = s.pan /\ z.down = s.down /\ z.out = s.out
    BY DEF Devices
  <2> HIDE DEF z
  <2> QED
    BY <1>2, <2>1, <2>2, <2>3 DEF Kept, Held
<1> QED
  BY <1>1, <1>2

LEMMA EventParts ==
  ASSUME NEW d, NEW r
  PROVE  SendEvents(d, r) = Updated(Sending(StartOf(d, r), r), r)
BY DEF SendEvents, StartOf, Sending

\* What the event of report r makes of d.
PanMoves(x, d) ==
  Panning(x) =>
    IF Panning(d)
    THEN /\ x.pan = Remainder(d.pan + (x.y - d.y), Threshold)
         /\ Clicks(x.out) = Quotient(d.pan + (x.y - d.y), Threshold)
    ELSE x.pan = 0

Evented(x, d, r) ==
  /\ x \in Devices /\ Idle(x) /\ (x.prox => x.y = r.y)
  /\ ScrollBy(d.scroll, d.buttons) =>
       /\ ScrollBy(x.scroll, x.buttons)
       /\ Quietly /\ PanIdle(d) => PanIdle(x) /\ PanMoves(x, d)

LEMMA NothingClicked == Clicks(<<>>) = 0
<1>1. \A c : {i \in DOMAIN <<>> : <<>>[i] = <<"button", c, TRUE>>} = {}
  OBVIOUS
<1>2. Cardinality({}) = 0
  BY FS_EmptySet
<1> QED
  BY <1>1, <1>2 DEF Clicks

LEMMA SendEventsDoes ==
  ASSUME ButtonAssumption, Listed, NEW d \in Devices, Idle(d), NEW r, Reported(r)
  PROVE  Evented(SendEvents(d, r), d, r)
<1> DEFINE s == StartOf(d, r)
           t == Sending(s, r)
           x == Updated(t, r)
<1>1. SendEvents(d, r) = x
  BY EventParts
<1>2. Started(s, d, r)
  BY StartDoes
<1> HIDE DEF s
<1>3. s \in Devices
  BY <1>2 DEF Started
<1>4. /\ SameOld(t, s)
      /\ ScrollBy(s.scroll, s.buttons) => ScrollBy(t.scroll, Held(r))
      /\ r.prox => PanKept(t, s, r)
  BY <1>3, SendingDoes
<1>5. t \in Devices
  BY <1>4 DEF SameOld
<1> HIDE DEF t
<1>6. Kept(x, t, r)
  BY <1>5, UpdatedDoes
<1> HIDE DEF x
<1>7. x \in Devices /\ Idle(x) /\ (x.prox => x.y = r.y)
  BY <1>6 DEF Kept, Idle, Held, Reported
<1>8. ASSUME ScrollBy(d.scroll, d.buttons)
      PROVE  ScrollBy(s.scroll, s.buttons) /\ ScrollBy(x.scroll, x.buttons)
  <2>1. ScrollBy(s.scroll, s.buttons)
    BY <1>2, <1>8 DEF Started, ScrollBy
  <2>2. ScrollBy(t.scroll, Held(r))
    BY <1>4, <2>1
  <2> QED
    BY <1>6, <2>1, <2>2 DEF Kept, ScrollBy
<1>9. ASSUME ScrollBy(d.scroll, d.buttons), Quietly, PanIdle(d), x.scroll
      PROVE  /\ 0 \notin x.buttons => x.pan = 0
             /\ 0 \in x.buttons => PanMoves(x, d)
  <2>1. ScrollBy(s.scroll, s.buttons) /\ ScrollBy(x.scroll, x.buttons)
    BY <1>8, <1>9
  <2>2. r.prox /\ x.buttons = r.buttons /\ x.y = r.y /\ t.scroll /\ x.pan = t.pan /\ x.out = t.out
    BY <1>6, <1>9, <2>1 DEF Kept, Held, ScrollBy
  <2>3. PanIdle(s)
    BY <1>2, <1>9 DEF Started, PanIdle
  <2>4. IF s.scroll /\ 0 \in s.buttons /\ 0 \in r.buttons
        THEN /\ t.pan = Remainder(s.pan + (r.y - s.y), Threshold)
             /\ Clicks(t.out) = Clicks(s.out) + Quotient(s.pan + (r.y - s.y), Threshold)
        ELSE t.pan = 0
    BY <1>4, <1>9, <2>1, <2>2, <2>3 DEF PanKept
  <2>5. CASE 0 \notin x.buttons
    BY <2>2, <2>4, <2>5
  <2>6. CASE 0 \in x.buttons /\ Panning(d)
    <3>1. d.prox /\ d.scroll /\ 0 \in d.buttons
      BY <2>6 DEF Panning, Idle
    <3>2. s.scroll /\ 0 \in s.buttons /\ s.y = d.y /\ s.pan = d.pan /\ s.out = <<>>
      BY <1>2, <2>2, <3>1 DEF Started
    <3>3. /\ t.pan = Remainder(d.pan + (r.y - d.y), Threshold)
          /\ Clicks(t.out) = 0 + Quotient(d.pan + (r.y - d.y), Threshold)
      BY <2>2, <2>4, <2>6, <3>2, NothingClicked
    <3>4. d.pan + (r.y - d.y) \in Int /\ Threshold \in Nat \ {0}
      BY DEF Devices, Reported, ButtonAssumption
    <3>5. Quotient(d.pan + (r.y - d.y), Threshold) \in Int
      BY <3>4, Truncates
    <3>6. Clicks(t.out) = Quotient(d.pan + (r.y - d.y), Threshold)
      BY <3>3, <3>5
    <3> QED
      BY <2>2, <2>6, <3>3, <3>6 DEF PanMoves
  <2>7. CASE 0 \in x.buttons /\ ~Panning(d)
    <3>1. ~(s.scroll /\ 0 \in s.buttons)
      BY <1>2, <2>7 DEF Started, Panning
    <3> QED
      BY <2>2, <2>4, <2>7, <3>1 DEF PanMoves
  <2> QED
    BY <2>5, <2>6, <2>7
<1>10. ASSUME ScrollBy(d.scroll, d.buttons), Quietly, PanIdle(d)
       PROVE  PanIdle(x) /\ PanMoves(x, d)
  BY <1>9, <1>10 DEF PanIdle, PanMoves, Panning
<1> QED
  BY <1>1, <1>7, <1>8, <1>10 DEF Evented

-----------------------------------------------------------------------------
(***************************************************************************)
(* Types.                                                                  *)
(***************************************************************************)
ButtonTypeOK ==
  /\ conf \in [kind : Kinds, tpc : TPCChoices]
  /\ Listed /\ ActsBound
  /\ dev \in Devices /\ Idle(dev)
  /\ from \in Int /\ net \in Int

LEMMA BoundListed ==
  ASSUME ButtonAssumption, NEW b \in ButtonSet
  PROVE  Bound(b) \subseteq ActionLists
BY DEF ButtonAssumption, Bound

LEMMA InitTyped ==
  ASSUME ButtonAssumption, Init
  PROVE  ButtonTypeOK
<1>1. Listed /\ ActsBound /\ conf \in [kind : Kinds, tpc : TPCChoices]
  BY DEF Init, ButtonAssumption, Listed, ActsBound, Bound
<1>2. dev \in Devices
  <2>1. <<>> \in Seq(Sendable) /\ {} \in SUBSET Pressable /\ {} \in SUBSET ButtonSet
        /\ {} \in SUBSET Keys /\ TRUE \in BOOLEAN /\ FALSE \in BOOLEAN /\ 0 \in Int
    OBVIOUS
  <2> QED
    BY <2>1 DEF Init, Devices
<1>3. Idle(dev)
  BY DEF Init, Idle
<1> QED
  BY <1>1, <1>2, <1>3 DEF Init, ButtonTypeOK

\* Clicks are counted by whole numbers.
LEMMA ClicksTyped ==
  ASSUME NEW out \in Seq(Sendable)
  PROVE  Clicks(out) \in Int
<1> DEFINE Of(c) == {i \in DOMAIN out : out[i] = <<"button", c, TRUE>>}
<1>1. DOMAIN out = 1 .. Len(out) /\ Len(out) \in Nat
  OBVIOUS
<1>2. IsFiniteSet(DOMAIN out)
  BY <1>1, FS_Interval
<1>3. \A c : IsFiniteSet(Of(c))
  BY <1>2, FS_Subset
<1>4. \A c : Cardinality(Of(c)) \in Nat
  BY <1>3, FS_CardinalityType
<1>5. Clicks(out) = Cardinality(Of(4)) - Cardinality(Of(5))
  BY DEF Clicks
<1> HIDE DEF Of
<1> QED
  BY <1>4, <1>5

LEMMA EventTyped ==
  ASSUME ButtonAssumption, ButtonTypeOK, NEW r \in Reports, Event(r)
  PROVE  ButtonTypeOK' /\ Reported(r) /\ Evented(dev', dev, r)
<1>1. Reported(r) /\ dev \in Devices /\ Idle(dev) /\ Listed /\ ActsBound
  BY ReportsKnown DEF ButtonTypeOK
<1>2. dev' = SendEvents(dev, r) /\ conf' = conf /\ actions' = actions
  BY DEF Event
<1>3. Evented(dev', dev, r)
  BY <1>1, <1>2, SendEventsDoes
<1>4. dev' \in Devices /\ Idle(dev')
  BY <1>3 DEF Evented
<1>5. Idle(dev)'
  BY <1>2, <1>4 DEF Idle
<1>6. Listed' /\ ActsBound'
  BY <1>1, <1>2 DEF Listed, ActsBound
<1>7. Clicks(dev'.out) \in Int
  <2>1. dev'.out \in Seq(Sendable)
    BY <1>4 DEF Devices
  <2> QED
    BY <2>1, ClicksTyped
<1>8. from' \in Int /\ net' \in Int
  BY <1>1, <1>7 DEF Event, ButtonTypeOK, Reported
<1> QED
  BY <1>1, <1>2, <1>3, <1>4, <1>5, <1>6, <1>8 DEF ButtonTypeOK

LEMMA BindTyped ==
  ASSUME ButtonAssumption, ButtonTypeOK, NEW b \in Bindings, Bind(b)
  PROVE  ButtonTypeOK'
<1>1. b.button \in ButtonSet /\ b.action \in ActionLists /\ b.action \in Bound(b.button)
  BY DEF ButtonAssumption, Bound
<1>2. actions' = [actions EXCEPT ![b.button] = b.action] /\ UNCHANGED <<conf, dev, from, net>>
  BY DEF Bind
<1>3. Listed'
  BY <1>1, <1>2 DEF ButtonTypeOK, Listed
<1>4. ActsBound'
  BY <1>1, <1>2 DEF ButtonTypeOK, Listed, ActsBound
<1>5. Idle(dev)'
  BY <1>2 DEF ButtonTypeOK, Idle
<1> QED
  BY <1>2, <1>3, <1>4, <1>5 DEF ButtonTypeOK

\* The variables of Buttons keep their types, for any number of buttons and keys and
\* any actions; a device out of proximity holds no button and no key.
THEOREM TypeCorrect == Spec => []ButtonTypeOK
<1>1. Init => ButtonTypeOK
  BY InitTyped, ButtonAssumption
<1>2. ButtonTypeOK /\ [Next]_vars => ButtonTypeOK'
  <2> SUFFICES ASSUME ButtonTypeOK, [Next]_vars
               PROVE  ButtonTypeOK'
    OBVIOUS
  <2>1. CASE UNCHANGED vars
    BY <2>1 DEF vars, ButtonTypeOK, Listed, ActsBound, Idle
  <2>2. ASSUME NEW r \in Reports, Event(r) PROVE ButtonTypeOK'
    BY <2>2, EventTyped, ButtonAssumption
  <2>3. ASSUME NEW b \in Bindings, Bind(b) PROVE ButtonTypeOK'
    BY <2>3, BindTyped, ButtonAssumption
  <2> QED
    BY <2>1, <2>2, <2>3 DEF Next
<1> QED
  BY <1>1, <1>2, PTL DEF Spec

-----------------------------------------------------------------------------
(***************************************************************************)
(* Panscroll mode, and what is pressed.                                    *)
(***************************************************************************)
ScrollInv == ButtonTypeOK /\ ScrollBy(dev.scroll, dev.buttons)

LEMMA TipQuiet ==
  ASSUME ButtonTypeOK, TipNoPan
  PROVE  OnTPC => ~Pan(0)
<1>1. ASSUME OnTPC PROVE TRUE \in TPCChoices
  BY <1>1 DEF ButtonTypeOK, OnTPC
<1>2. 0 \in ButtonSet
  BY ButtonAssumption DEF ButtonAssumption, ButtonSet
<1>3. actions[0] \in Bound(0)
  BY <1>2 DEF ButtonTypeOK, ActsBound
<1> QED
  BY <1>1, <1>3 DEF TipNoPan, Pan

\* Binding an action to a button that is up leaves panscroll mode to the held ones.
LEMMA BindScrolls ==
  ASSUME ScrollInv, TipNoPan, ~WhileHeld, NEW b \in Bindings, Bind(b)
  PROVE  ScrollInv'
<1>1. ButtonTypeOK'
  BY BindTyped, ButtonAssumption DEF ScrollInv
<1>2. (OnTPC => ~Pan(0))'
  <2>1. ButtonTypeOK' => (OnTPC => ~Pan(0))'
    <3>1. ASSUME ButtonTypeOK', OnTPC' PROVE TRUE \in TPCChoices
      BY <3>1 DEF ButtonTypeOK, OnTPC
    <3>2. 0 \in ButtonSet
      BY ButtonAssumption DEF ButtonAssumption, ButtonSet
    <3>3. ASSUME ButtonTypeOK' PROVE actions'[0] \in Bound(0)
      BY <3>2, <3>3 DEF ButtonTypeOK, ActsBound
    <3> QED
      BY <3>1, <3>3 DEF TipNoPan, Pan
  <2> QED
    BY <1>1, <2>1
<1>3. /\ dev' = dev /\ conf' = conf /\ b.button \notin dev.buttons
      /\ actions' = [actions EXCEPT ![b.button] = b.action]
  BY DEF Bind
<1>4. \A o \in dev.buttons : actions'[o] = actions[o]
  BY <1>3 DEF ScrollInv, ButtonTypeOK, Listed, Devices
<1>5. ScrollBy(dev.scroll, dev.buttons)'
  BY <1>2, <1>3, <1>4 DEF ScrollInv, ScrollBy, Pan, OnTPC
<1> QED
  BY <1>1, <1>5 DEF ScrollInv

LEMMA EventScrolls ==
  ASSUME ScrollInv, NEW r \in Reports, Event(r)
  PROVE  ScrollInv' /\ Evented(dev', dev, r)
<1>1. ButtonTypeOK' /\ Evented(dev', dev, r)
  BY EventTyped, ButtonAssumption DEF ScrollInv
<1>2. ScrollBy(dev'.scroll, dev'.buttons)
  BY <1>1 DEF ScrollInv, Evented
<1>3. conf' = conf /\ actions' = actions
  BY DEF Event
<1>4. ScrollBy(dev.scroll, dev.buttons)'
  BY <1>2, <1>3 DEF ScrollBy, OnTPC, Pan
<1> QED
  BY <1>1, <1>4 DEF ScrollInv

LEMMA InitScrolls ==
  ASSUME TipNoPan, Init
  PROVE  ScrollInv
<1>1. ButtonTypeOK
  BY InitTyped, ButtonAssumption
<1>2. OnTPC => ~Pan(0)
  BY <1>1, TipQuiet
<1>3. ~dev.scroll
  BY DEF Init
<1> QED
  BY <1>1, <1>2, <1>3 DEF ScrollInv, ScrollBy

LEMMA StutterScrolls ==
  ASSUME ScrollInv, UNCHANGED vars
  PROVE  ScrollInv'
BY DEF ScrollInv, vars, ButtonTypeOK, Listed, ActsBound, Idle, ScrollBy, OnTPC, Pan

\* Panscroll mode ends with the button that started it, or when the tool leaves,
\* whatever is bound to the buttons (sendAction: SCROLLMODE_FLAG goes with the release
\* of the button; wcmSendEvents: and with proximity).
THEOREM ScrollEnds ==
  ASSUME ~WhileHeld, TipNoPan
  PROVE  Spec => []ScrollHeld
<1>1. Init => ScrollInv
  BY InitScrolls
<1>2. ScrollInv /\ [Next]_vars => ScrollInv'
  BY StutterScrolls, EventScrolls, BindScrolls DEF Next
<1>3. ScrollInv => ScrollHeld
  BY DEF ScrollInv, ScrollBy, ScrollHeld, Pan
<1> QED
  BY <1>1, <1>2, <1>3, PTL DEF Spec

AgreeInv ==
  ButtonTypeOK /\ (~conf.tpc => Agree(dev.down, dev.buttons, KeyCodes(dev.keys)))

LEMMA EventAgrees ==
  ASSUME AgreeInv, Separate, NEW r \in Reports, Event(r)
  PROVE  AgreeInv'
<1>1. ButtonTypeOK' /\ Reported(r)
  BY EventTyped, ButtonAssumption DEF AgreeInv
<1>2. dev' = SendEvents(dev, r) /\ conf' = conf /\ actions' = actions
  BY DEF Event
<1>3. ASSUME ~conf.tpc
      PROVE  Agree(dev'.down, dev'.buttons, KeyCodes(dev'.keys))
  <2> DEFINE s == StartOf(dev, r)
             t == Sending(s, r)
  <2>1. Started(s, dev, r) /\ Listed /\ ActsBound /\ (conf.kind # "pad" => dev.keys = {})
    BY <1>1, StartDoes DEF AgreeInv, ButtonTypeOK, Idle
  <2>2. dev' = Updated(t, r)
    BY <1>2, EventParts
  <2> HIDE DEF s
  <2>3. /\ s \in Devices /\ (conf.kind # "pad" => s.keys = {})
        /\ Agree(s.down, s.buttons, KeyCodes(s.keys))
    BY <1>3, <2>1 DEF Started, AgreeInv
  <2>4. Agree(t.down, Held(r), KeyCodes(IF r.prox THEN r.keys ELSE {}))
    BY <1>1, <1>3, <2>1, <2>3, SendingAgrees, ButtonAssumption
  <2>5. t \in Devices
    BY <1>1, <2>1, <2>3, SendingDoes, ButtonAssumption DEF SameOld
  <2> HIDE DEF t
  <2>6. Kept(dev', t, r)
    BY <1>1, <2>2, <2>5, UpdatedDoes
  <2> QED
    BY <2>4, <2>6 DEF Kept
<1>4. (~conf.tpc => Agree(dev.down, dev.buttons, KeyCodes(dev.keys)))'
  BY <1>2, <1>3 DEF Agree
<1> QED
  BY <1>1, <1>4 DEF AgreeInv

LEMMA BindAgrees ==
  ASSUME AgreeInv, ~WhileHeld, NEW b \in Bindings, Bind(b)
  PROVE  AgreeInv'
<1>1. ButtonTypeOK'
  BY BindTyped, ButtonAssumption DEF AgreeInv
<1>2. /\ dev' = dev /\ conf' = conf /\ b.button \notin dev.buttons
      /\ actions' = [actions EXCEPT ![b.button] = b.action]
  BY DEF Bind
<1>3. \A o \in dev.buttons : actions'[o] = actions[o]
  BY <1>2 DEF AgreeInv, ButtonTypeOK, Listed, Devices
<1>4. (~conf.tpc => Agree(dev.down, dev.buttons, KeyCodes(dev.keys)))'
  BY <1>2, <1>3 DEF AgreeInv, Agree
<1> QED
  BY <1>1, <1>4 DEF AgreeInv

\* For any number of buttons, any sequences of presses and releases bound to them that
\* press nothing of each other, and any keys, the server has pressed what the held
\* buttons and keys hold and nothing else (wcmSendButtons and wcmSendKeys send every
\* change, sendAction releases what the action of the button left pressed).
THEOREM ServerAgrees ==
  ASSUME ~WhileHeld, Separate
  PROVE  Spec => []ButtonsAgree
<1>1. Init => AgreeInv
  <2>1. ASSUME Init PROVE ButtonTypeOK
    BY <2>1, InitTyped, ButtonAssumption
  <2>2. ASSUME Init PROVE Agree(dev.down, dev.buttons, KeyCodes(dev.keys))
    BY <2>2 DEF Init, Agree, KeyCodes
  <2> QED
    BY <2>1, <2>2 DEF AgreeInv
<1>2. AgreeInv /\ [Next]_vars => AgreeInv'
  <2> SUFFICES ASSUME AgreeInv, [Next]_vars
               PROVE  AgreeInv'
    OBVIOUS
  <2>1. CASE UNCHANGED vars
    BY <2>1 DEF AgreeInv, vars, ButtonTypeOK, Listed, ActsBound, Idle, Agree
  <2> QED
    BY <2>1, EventAgrees, BindAgrees DEF Next
<1>3. AgreeInv => ButtonsAgree
  BY DEF AgreeInv, Agree, ButtonsAgree, HeldNow, Button1
<1> QED
  BY <1>1, <1>2, <1>3, PTL DEF Spec

-----------------------------------------------------------------------------
(***************************************************************************)
(* The distance panned.                                                    *)
(***************************************************************************)
PanInv == ScrollInv /\ PanIdle(dev) /\ PanExact

\* With one button to pan by and its clicks apart, actions stay out of panning.
LEMMA ActsQuiet ==
  ASSUME ButtonTypeOK, OnePan
  PROVE  Quietly
<1>1. \A b \in ButtonSet : actions[b] \in Bound(b)
  BY DEF ButtonTypeOK, ActsBound
<1>2. OneOnly
  BY <1>1 DEF OnePan, OneOnly, Pan
<1>3. Unscrolled
  BY <1>1 DEF OnePan, Unscrolled
<1>4. conf.kind = "stylus" \/ WheelCodes \cap ScrollCodes = {}
  BY DEF ButtonTypeOK, OnePan
<1> QED
  BY <1>2, <1>3, <1>4 DEF Quietly

\* One step on the way of the tip: of way, n clicks were sent before, a is left.
LEMMA PanAdds ==
  ASSUME NEW t \in Nat \ {0}, NEW n \in Int, NEW a \in Int, NEW way, way = t * n + a
  PROVE  /\ t * (n + Quotient(a, t)) + Remainder(a, t) = way
         /\ Abs(Remainder(a, t)) < t
<1> DEFINE q == Quotient(a, t)
           m == Remainder(a, t)
<1>1. q \in Int /\ m \in Int /\ t * q + m = a /\ Abs(m) < t
  BY Truncates
<1> HIDE DEF q, m
<1>2. t * (n + q) = t * n + t * q
  BY <1>1
<1>3. t * n \in Int /\ t * q \in Int
  BY <1>1
<1>4. t * (n + q) + m = way
  BY <1>1, <1>2, <1>3
<1> QED
  BY <1>1, <1>4 DEF q, m

LEMMA EventPans ==
  ASSUME PanInv, OnePan, NEW r \in Reports, Event(r)
  PROVE  PanInv'
<1>1. ScrollInv' /\ Evented(dev', dev, r) /\ ButtonTypeOK /\ ButtonTypeOK'
  BY EventScrolls DEF PanInv, ScrollInv
<1>2. Quietly
  BY <1>1, ActsQuiet
<1>3. PanIdle(dev') /\ PanMoves(dev', dev) /\ (dev'.prox => dev'.y = r.y)
  BY <1>1, <1>2 DEF Evented, PanInv, ScrollInv
<1>4. PanIdle(dev)'
  BY <1>3 DEF PanIdle
<1>5. /\ Threshold \in Nat \ {0} /\ dev.pan \in Int /\ dev.y \in Int /\ from \in Int /\ net \in Int
      /\ dev'.y \in Int /\ dev \in Devices /\ dev' \in Devices
  BY <1>1, ButtonAssumption DEF ButtonAssumption, ButtonTypeOK, Devices
<1>6. /\ from' = IF Panning(dev) THEN from ELSE r.y
      /\ net' = IF Panning(dev) /\ Panning(dev') THEN net + Clicks(dev'.out) ELSE 0
  BY DEF Event
<1>7. ASSUME Panning(dev') PROVE dev'.prox
  BY <1>1, <1>7 DEF Panning, Evented, Idle
<1>8. ASSUME Panning(dev'), Panning(dev)
      PROVE  /\ Threshold * net' + dev'.pan = dev'.y - from'
             /\ Abs(dev'.pan) < Threshold
  <2>1. Threshold * net + dev.pan = dev.y - from
    BY <1>8 DEF PanInv, PanExact
  <2>2. /\ dev'.pan = Remainder(dev.pan + (dev'.y - dev.y), Threshold)
        /\ Clicks(dev'.out) = Quotient(dev.pan + (dev'.y - dev.y), Threshold)
    BY <1>3, <1>8 DEF PanMoves
  <2>3. net' = net + Quotient(dev.pan + (dev'.y - dev.y), Threshold) /\ from' = from
    BY <1>6, <1>8, <2>2
  <2> DEFINE a == dev.pan + (dev'.y - dev.y)
             way == dev'.y - from
  <2>4. a \in Int /\ way = Threshold * net + a
    <3> DEFINE sent == Threshold * net
               pan == dev.pan
               old == dev.y
               new == dev'.y
    <3>1. sent \in Int /\ pan \in Int /\ old \in Int /\ new \in Int /\ sent + pan = old - from
      BY <1>5, <2>1
    <3> HIDE DEF sent, pan, old, new
    <3>2. pan + (new - old) \in Int /\ new - from = sent + (pan + (new - old))
      BY <1>5, <3>1
    <3> QED
      BY <3>2 DEF sent, pan, old, new
  <2>5. /\ dev'.pan = Remainder(a, Threshold) /\ net' = net + Quotient(a, Threshold)
        /\ way = dev'.y - from'
    BY <2>2, <2>3
  <2> HIDE DEF a, way
  <2>6. /\ Threshold * (net + Quotient(a, Threshold)) + Remainder(a, Threshold) = way
        /\ Abs(Remainder(a, Threshold)) < Threshold
    BY <1>5, <2>4, PanAdds
  <2> QED
    BY <2>5, <2>6
<1>9. ASSUME Panning(dev'), ~Panning(dev)
      PROVE  /\ Threshold * net' + dev'.pan = dev'.y - from'
             /\ Abs(dev'.pan) < Threshold
  <2>1. dev'.pan = 0 /\ net' = 0 /\ from' = r.y /\ dev'.y = r.y
    BY <1>3, <1>6, <1>7, <1>9 DEF PanMoves
  <2> QED
    BY <1>5, <2>1 DEF Abs
<1>10. PanExact'
  BY <1>8, <1>9 DEF PanExact, Panning
<1> QED
  BY <1>1, <1>4, <1>10 DEF PanInv

LEMMA BindPans ==
  ASSUME PanInv, TipNoPan, ~WhileHeld, NEW b \in Bindings, Bind(b)
  PROVE  PanInv'
<1>1. ScrollInv'
  BY BindScrolls DEF PanInv
<1>2. dev' = dev /\ from' = from /\ net' = net
  BY DEF Bind
<1> QED
  BY <1>1, <1>2 DEF PanInv, PanIdle, PanExact, Panning

\* No distance is lost or scrolled twice while the tip pans, for any threshold and any
\* motion: the clicks sent and what is pending add up to the way of the tip
\* (wcmPanscroll, wcmButtonPerNotch).
THEOREM PanAlways ==
  ASSUME ~WhileHeld, TipNoPan, OnePan
  PROVE  Spec => []PanExact
<1>1. Init => PanInv
  <2>1. Init => ScrollInv
    BY InitScrolls
  <2>2. ASSUME Init PROVE PanIdle(dev) /\ PanExact
    BY <2>2 DEF Init, PanIdle, PanExact, Panning
  <2> QED
    BY <2>1, <2>2 DEF PanInv
<1>2. PanInv /\ [Next]_vars => PanInv'
  <2> SUFFICES ASSUME PanInv, [Next]_vars
               PROVE  PanInv'
    OBVIOUS
  <2>1. CASE UNCHANGED vars
    <3>1. ScrollInv'
      BY <2>1, StutterScrolls DEF PanInv
    <3> QED
      BY <2>1, <3>1 DEF PanInv, vars, PanIdle, PanExact, Panning
  <2> QED
    BY <2>1, EventPans, BindPans DEF Next
<1>3. PanInv => PanExact
  BY DEF PanInv
<1> QED
  BY <1>1, <1>2, <1>3, PTL DEF Spec
=============================================================================
