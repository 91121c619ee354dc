-------------------------- MODULE TransportProofs --------------------------
(***************************************************************************)
(* Theorems about Transport: any threads, transports and bundles, stacks   *)
(* of any depth.                                                           *)
(***************************************************************************)
EXTENDS Transport, Induction, SequenceTheorems, FiniteSetTheorems, TLAPS

-----------------------------------------------------------------------------
(* Stacks *)

Kinds == {"scope", "ca", "send", "builtin"}
Frame == [kind : Kinds, now : Transports \union Bundles \union {"empty", "system", "clear"},
          was : Transports \union Bundles \union {"none", "empty", "system"},
          seen : [transport : Transports \union {"none"}, bundle : Bundles \union {"system"},
                  https : BOOLEAN]]

\* Below and Innermost look only at the frames under the i-th.
LEMMA SamePrefix ==
    ASSUME NEW s, NEW u, NEW i \in Nat, NEW kind, NEW otherwise, \A j \in 1 .. i - 1 : s[j] = u[j]
    PROVE  /\ Below(s, i, kind) = Below(u, i, kind)
           /\ Innermost(s, i, kind, otherwise) = Innermost(u, i, kind, otherwise)
<1>1. PICK under : under = Below(s, i, kind) /\ under = Below(u, i, kind)
  BY DEF Below
<1>2. under # {} => (CHOOSE j \in under : \A k \in under : k <= j) \in under
  <2>1. under \subseteq 1 .. i
    BY <1>1 DEF Below
  <2>. QED BY <2>1, LargestElement
<1>3. under \subseteq 1 .. i - 1
  BY <1>1 DEF Below
<1>. QED BY <1>1, <1>2, <1>3 DEF Innermost

\* What is in force is what some frame under the i-th put in force, or the default.
LEMMA InnermostIsOne ==
    ASSUME NEW s, NEW i \in Nat, NEW kind, NEW otherwise, Below(s, i, kind) # {}
    PROVE  \E j \in Below(s, i, kind) : /\ \A k \in Below(s, i, kind) : k <= j
                                        /\ Innermost(s, i, kind, otherwise) = s[j].now
<1>1. Below(s, i, kind) \subseteq 1 .. i
  BY DEF Below
<1>2. PICK under : under = Below(s, i, kind)
  OBVIOUS
<1>3. \E j \in under : \A k \in under : k <= j
  BY <1>1, <1>2, LargestElement
<1>4. PICK j \in under : j = CHOOSE l \in under : \A k \in under : k <= l
  BY <1>3
<1>5. \A k \in under : k <= j
  BY <1>3, <1>4
<1>. QED BY <1>2, <1>4, <1>5 DEF Innermost

\* A frame of the kind hides what is under it ...
LEMMA InnermostHere ==
    ASSUME NEW s, NEW i \in Nat, i # 0, NEW above \in Nat, above = i + 1, NEW otherwise,
           NEW f, f = s[i]
    PROVE  /\ i \in Below(s, above, f.kind)
           /\ Innermost(s, above, f.kind, otherwise) = f.now
<1>1. i \in Below(s, above, f.kind)
  BY DEF Below
<1>2. PICK j \in Below(s, above, f.kind) : /\ \A k \in Below(s, above, f.kind) : k <= j
                                           /\ Innermost(s, above, f.kind, otherwise) = s[j].now
  BY <1>1, InnermostIsOne
<1>3. j \in 1 .. i /\ i <= j
  BY <1>1, <1>2 DEF Below
<1>4. j = i
  BY <1>3
<1>. QED BY <1>1, <1>2, <1>4

\* ... and one of another kind does not.
LEMMA InnermostThrough ==
    ASSUME NEW s, NEW i \in Nat, i # 0, NEW above \in Nat, above = i + 1, NEW kind, NEW otherwise,
           s[i].kind # kind
    PROVE  /\ Below(s, above, kind) = Below(s, i, kind)
           /\ Innermost(s, above, kind, otherwise) = Innermost(s, i, kind, otherwise)
<1>3. Below(s, above, kind) = Below(s, i, kind)
  <2>1. 1 .. above - 1 = (1 .. i - 1) \union {i}
    OBVIOUS
  <2>. QED BY <2>1 DEF Below
<1>1. PICK under : under = Below(s, i, kind) /\ under = Below(s, above, kind)
  BY <1>3
<1>2. Innermost(s, above, kind, otherwise) = Innermost(s, i, kind, otherwise)
  BY <1>1 DEF Innermost
<1>. QED BY <1>1, <1>2

\* Both, for the frame on top.
LEMMA TopFrame ==
    ASSUME NEW u, NEW n \in Nat, n # 0, NEW kind
    PROVE  /\ u[n].kind = kind => n \in Below(u, n + 1, kind) /\ Innermost(u, n + 1, kind, "none") = u[n].now
           /\ u[n].kind # kind => /\ Below(u, n + 1, kind) = Below(u, n, kind)
                                  /\ Innermost(u, n + 1, kind, "none") = Innermost(u, n, kind, "none")
<1>1. PICK above \in Nat : above = n + 1
  OBVIOUS
<1>2. u[n].kind = kind => n \in Below(u, above, kind) /\ Innermost(u, above, kind, "none") = u[n].now
  <2>1. PICK g : g = u[n]
    OBVIOUS
  <2>2. n \in Below(u, above, g.kind) /\ Innermost(u, above, g.kind, "none") = g.now
    BY <1>1, <2>1, InnermostHere
  <2>. QED BY <2>1, <2>2
<1>3. u[n].kind # kind => /\ Below(u, above, kind) = Below(u, n, kind)
                          /\ Innermost(u, above, kind, "none") = Innermost(u, n, kind, "none")
  BY <1>1, InnermostThrough
<1>. QED BY <1>1, <1>2, <1>3

\* Where every frame of the kind puts something in force, "none" means that there is no such frame.
LEMMA InnermostElse ==
    ASSUME NEW s, NEW i \in Nat, NEW kind, NEW otherwise, \A j \in Below(s, i, kind) : s[j].now # "none"
    PROVE  Innermost(s, i, kind, otherwise) =
              IF Innermost(s, i, kind, "none") # "none" THEN Innermost(s, i, kind, "none") ELSE otherwise
<1>1. CASE Below(s, i, kind) = {}
  BY <1>1 DEF Innermost
<1>2. CASE Below(s, i, kind) # {}
  <2>1. Innermost(s, i, kind, otherwise) = Innermost(s, i, kind, "none")
    BY <1>2 DEF Innermost
  <2>2. Innermost(s, i, kind, "none") # "none"
    BY <1>2, InnermostIsOne
  <2>. QED BY <2>1, <2>2
<1>. QED BY <1>1, <1>2

-----------------------------------------------------------------------------
(* What a stack says: each frame of those under it, and the thread's variables of them all *)

FrameOk(s, i) ==
    /\ s[i].kind = "scope" => /\ s[i].now \in Transports \union {"empty"}
                              /\ s[i].was = Innermost(s, i, "scope", "none")
    /\ s[i].kind = "ca" => /\ s[i].now \in Bundles \union {"system"}
                           /\ s[i].was = Innermost(s, i, "ca", "none")
    /\ s[i].kind = "send" =>
          /\ s[i].was = "none"
          /\ Below(s, i, "send") = {} /\ s[i].now = Innermost(s, i, "scope", s[i].seen.transport)
    /\ s[i].kind = "builtin" =>
          /\ s[i].was = "none"
          /\ \/ Below(s, i, "send") # {}
             \/ Innermost(s, i, "scope", s[i].seen.transport) \in {"none", "empty"}
          /\ s[i].now = IF s[i].seen.https THEN Innermost(s, i, "ca", s[i].seen.bundle) ELSE "clear"

StackOk(s, transport, bundle) ==
    /\ \A i \in 1 .. Len(s) : FrameOk(s, i)
    /\ transport = Innermost(s, Len(s) + 1, "scope", "none")
    /\ bundle = Innermost(s, Len(s) + 1, "ca", "none")

\* The stack has a running transport on it.
Inside(s) == Below(s, Len(s) + 1, "send") # {}

\* A frame says the same on two stacks that agree up to it.
LEMMA SameFrame ==
    ASSUME NEW s, NEW u, NEW i \in Nat, \A j \in 1 .. i - 1 : s[j] = u[j], s[i] = u[i], FrameOk(s, i)
    PROVE  FrameOk(u, i)
<1>1. Below(s, i, "send") = Below(u, i, "send")
  BY SamePrefix
<1>2. /\ Innermost(s, i, "scope", "none") = Innermost(u, i, "scope", "none")
      /\ Innermost(s, i, "ca", "none") = Innermost(u, i, "ca", "none")
  BY SamePrefix
<1>3. /\ Innermost(s, i, "scope", s[i].seen.transport) = Innermost(u, i, "scope", s[i].seen.transport)
      /\ Innermost(s, i, "ca", s[i].seen.bundle) = Innermost(u, i, "ca", s[i].seen.bundle)
  BY SamePrefix
<1>. QED BY <1>1, <1>2, <1>3 DEF FrameOk

\* From one stack to the next by a frame, which hides what was in force or gives it back.
Pushes(s, transport, bundle, f, u, transport2, bundle2) ==
    /\ s \in Seq(Frame) /\ f \in Frame /\ u = Append(s, f)
    /\ StackOk(s, transport, bundle) /\ FrameOk(u, Len(s) + 1)
    /\ transport2 = IF f.kind = "scope" THEN f.now ELSE transport
    /\ bundle2 = IF f.kind = "ca" THEN f.now ELSE bundle

Pops(s, transport, bundle, f, u, transport2, bundle2) ==
    /\ s \in Seq(Frame) /\ s # <<>> /\ f = s[Len(s)] /\ u = SubSeq(s, 1, Len(s) - 1)
    /\ StackOk(s, transport, bundle)
    /\ transport2 = IF f.kind = "scope" THEN f.was ELSE transport
    /\ bundle2 = IF f.kind = "ca" THEN f.was ELSE bundle

\* A frame is put on a stack: the variables are as if it had hidden what is under it.
LEMMA PushOk ==
    ASSUME NEW s, NEW transport, NEW bundle, NEW f, NEW u, NEW transport2, NEW bundle2,
           Pushes(s, transport, bundle, f, u, transport2, bundle2)
    PROVE  /\ u \in Seq(Frame) /\ Len(u) = Len(s) + 1 /\ Len(s) \in Nat /\ u[Len(s) + 1] = f
           /\ \A j \in 1 .. Len(s) : u[j] = s[j]
           /\ StackOk(u, transport2, bundle2)
           /\ Inside(u) <=> f.kind = "send" \/ Inside(s)
<1>. USE DEF Pushes
<1>1. /\ u \in Seq(Frame) /\ Len(u) = Len(s) + 1 /\ Len(s) \in Nat /\ u[Len(s) + 1] = f
      /\ \A j \in 1 .. Len(s) : u[j] = s[j]
  BY AppendProperties
<1>2. PICK n \in Nat : n = Len(s) + 1 /\ n # 0
  BY <1>1
<1>3. \A i \in 1 .. Len(u) : FrameOk(u, i)
  <2>. SUFFICES ASSUME NEW i \in 1 .. Len(s) PROVE FrameOk(u, i)
    BY <1>1
  <2>1. (\A j \in 1 .. i - 1 : s[j] = u[j]) /\ s[i] = u[i] /\ i \in Nat
    BY <1>1
  <2>. QED BY <2>1, SameFrame DEF StackOk
<1>4. ASSUME NEW kind
      PROVE  /\ f.kind = kind => n \in Below(u, n + 1, kind) /\ Innermost(u, n + 1, kind, "none") = f.now
             /\ f.kind # kind => /\ Below(u, n + 1, kind) = Below(s, n, kind)
                                 /\ Innermost(u, n + 1, kind, "none") = Innermost(s, n, kind, "none")
  <2>1. \A j \in 1 .. n - 1 : s[j] = u[j]
    BY <1>1, <1>2
  <2>2. Below(s, n, kind) = Below(u, n, kind) /\ Innermost(s, n, kind, "none") = Innermost(u, n, kind, "none")
    BY ONLY n \in Nat, <2>1, SamePrefix
  <2>3. u[n] = f /\ n \in Nat /\ n # 0
    BY <1>1, <1>2
  <2>4. /\ u[n].kind = kind => n \in Below(u, n + 1, kind) /\ Innermost(u, n + 1, kind, "none") = u[n].now
        /\ u[n].kind # kind => /\ Below(u, n + 1, kind) = Below(u, n, kind)
                               /\ Innermost(u, n + 1, kind, "none") = Innermost(u, n, kind, "none")
    <3>1. n \in Nat /\ n # 0
      BY <2>3
    <3>. QED BY ONLY <3>1, TopFrame
  <2>. QED BY <2>2, <2>3, <2>4
<1>5. Len(u) + 1 = n + 1
  BY <1>1, <1>2
<1>6. /\ transport = Innermost(s, n, "scope", "none") /\ bundle = Innermost(s, n, "ca", "none")
      /\ Inside(s) <=> Below(s, n, "send") # {}
  BY <1>2 DEF StackOk, Inside
<1>7. Innermost(u, n + 1, "scope", "none") = transport2
  BY <1>4, <1>6
<1>8. Innermost(u, n + 1, "ca", "none") = bundle2
  BY <1>4, <1>6
<1>9. Inside(u) <=> f.kind = "send" \/ Inside(s)
  BY <1>4, <1>5, <1>6 DEF Inside
<1>. QED BY <1>1, <1>3, <1>5, <1>7, <1>8, <1>9 DEF StackOk

\* A frame is taken off: the variables are what it had saved.
LEMMA PopOk ==
    ASSUME NEW s, NEW transport, NEW bundle, NEW f, NEW u, NEW transport2, NEW bundle2,
           Pops(s, transport, bundle, f, u, transport2, bundle2)
    PROVE  /\ u \in Seq(Frame) /\ Len(u) = Len(s) - 1 /\ Len(s) \in Nat \ {0} /\ f \in Frame
           /\ \A j \in 1 .. Len(s) - 1 : u[j] = s[j]
           /\ FrameOk(s, Len(s))
           /\ f.kind = "scope" => transport = f.now
           /\ StackOk(u, transport2, bundle2)
           /\ Inside(u) <=> f.kind # "send" /\ Inside(s)
<1>0. /\ s \in Seq(Frame) /\ s # <<>> /\ f = s[Len(s)] /\ u = SubSeq(s, 1, Len(s) - 1)
      /\ StackOk(s, transport, bundle)
      /\ transport2 = (IF f.kind = "scope" THEN f.was ELSE transport)
      /\ bundle2 = (IF f.kind = "ca" THEN f.was ELSE bundle)
  BY DEF Pops
<1>1. PICK n \in Nat : n = Len(s) /\ n # 0
  BY <1>0, EmptySeq
<1>2. /\ u \in Seq(Frame) /\ Len(u) = n - 1 /\ f \in Frame
      /\ \A j \in 1 .. n - 1 : u[j] = s[j]
  BY <1>0, <1>1, SubSeqProperties
<1>3. FrameOk(s, n)
  BY <1>0, <1>1 DEF StackOk
<1>4. \A i \in 1 .. Len(u) : FrameOk(u, i)
  <2>. SUFFICES ASSUME NEW i \in 1 .. n - 1 PROVE FrameOk(u, i)
    BY <1>2
  <2>1. (\A j \in 1 .. i - 1 : s[j] = u[j]) /\ s[i] = u[i] /\ i \in Nat /\ i \in 1 .. Len(s)
    BY <1>1, <1>2
  <2>. QED BY <1>0, <2>1, SameFrame DEF StackOk
<1>5. ASSUME NEW kind
      PROVE  /\ Below(s, n, kind) = Below(u, n, kind)
             /\ Innermost(s, n, kind, "none") = Innermost(u, n, kind, "none")
             /\ f.kind = kind => n \in Below(s, n + 1, kind) /\ Innermost(s, n + 1, kind, "none") = f.now
             /\ f.kind # kind => /\ Below(s, n + 1, kind) = Below(u, n, kind)
                                 /\ Innermost(s, n + 1, kind, "none") = Innermost(u, n, kind, "none")
  <2>1. \A j \in 1 .. n - 1 : s[j] = u[j]
    BY <1>2
  <2>4. n \in Nat /\ n # 0
    BY <1>1
  <2>2. Below(s, n, kind) = Below(u, n, kind) /\ Innermost(s, n, kind, "none") = Innermost(u, n, kind, "none")
    BY ONLY n \in Nat, <2>1, SamePrefix
  <2>3. /\ s[n].kind = kind => n \in Below(s, n + 1, kind) /\ Innermost(s, n + 1, kind, "none") = s[n].now
        /\ s[n].kind # kind => /\ Below(s, n + 1, kind) = Below(s, n, kind)
                               /\ Innermost(s, n + 1, kind, "none") = Innermost(s, n, kind, "none")
    BY ONLY <2>4, TopFrame
  <2>. QED BY <1>0, <1>1, <2>2, <2>3
<1>6. Len(u) + 1 = n
  BY <1>2
<1>7. /\ transport = Innermost(s, n + 1, "scope", "none") /\ bundle = Innermost(s, n + 1, "ca", "none")
      /\ Inside(s) <=> Below(s, n + 1, "send") # {}
  BY <1>0, <1>1 DEF StackOk, Inside
<1>8. /\ Innermost(u, n, "scope", "none") = transport2
      /\ f.kind = "scope" => transport = f.now
  BY <1>0, <1>1, <1>3, <1>5, <1>7 DEF FrameOk
<1>9. Innermost(u, n, "ca", "none") = bundle2
  BY <1>0, <1>1, <1>3, <1>5, <1>7 DEF FrameOk
<1>10. Inside(u) <=> f.kind # "send" /\ Inside(s)
  <2>1. f.kind = "send" => Below(u, n, "send") = {}
    BY <1>0, <1>1, <1>3, <1>5 DEF FrameOk
  <2>2. f.kind # "send" => Below(s, n + 1, "send") = Below(u, n, "send")
    BY <1>5
  <2>. QED BY <1>6, <1>7, <2>1, <2>2 DEF Inside
<1>11. StackOk(u, transport2, bundle2)
  BY <1>0, <1>4, <1>6, <1>8, <1>9 DEF StackOk
<1>. QED BY <1>1, <1>2, <1>3, <1>8, <1>10, <1>11

-----------------------------------------------------------------------------
(* The threads *)

Typed ==
    /\ default_transport \in Transports \union {"none"}
    /\ default_ca_bundle \in Bundles \union {"system"}
    /\ scoped_transport \in [Threads -> Transports \union {"none", "empty"}]
    /\ scoped_ca_bundle \in [Threads -> Bundles \union {"none", "system"}]
    /\ in_transport \in [Threads -> BOOLEAN]
    /\ frames \in [Threads -> Seq(Frame)]

\* Every thread's variables are what its call stack says.
Stacked ==
    \A t \in Threads : /\ StackOk(frames[t], scoped_transport[t], scoped_ca_bundle[t])
                       /\ in_transport[t] <=> Inside(frames[t])

\* The frames that own a transport: scopes and running requests.
Holders(stacks, x) ==
    {h \in Threads \X Nat : /\ h[2] \in 1 .. Len(stacks[h[1]])
                            /\ stacks[h[1]][h[2]].kind \in {"scope", "send"}
                            /\ stacks[h[1]][h[2]].now = x}

\* A transport's count is the number of its owners.
OwnersCounted ==
    /\ refs \in [Transports -> Nat]
    /\ \A x \in Transports :
          /\ IsFiniteSet(Holders(frames, x))
          /\ refs[x] = Cardinality(Holders(frames, x)) + IF default_transport = x THEN 1 ELSE 0

Inv == Typed /\ Stacked /\ OwnersCounted

\* A stack grew by a frame, and owners with it.
LEMMA HoldersPushed ==
    ASSUME Typed, NEW t \in Threads, NEW f \in Frame, frames' = Pushed(t, f), NEW x
    PROVE  Holders(frames', x) = IF f.kind \in {"scope", "send"} /\ f.now = x
                                 THEN Holders(frames, x) \union {<<t, Len(frames[t]) + 1>>}
                                 ELSE Holders(frames, x)
<1>1. /\ frames \in [Threads -> Seq(Frame)] /\ frames'[t] = Append(frames[t], f)
      /\ \A s \in Threads \ {t} : frames'[s] = frames[s]
  BY DEF Typed, Pushed
<1>2. PICK n \in Nat : n = Len(frames[t])
  BY <1>1
<1>3. /\ Len(frames'[t]) = n + 1 /\ frames'[t][n + 1] = f
      /\ \A j \in 1 .. n : frames'[t][j] = frames[t][j]
  BY <1>1, <1>2, AppendProperties
<1>4. ASSUME NEW s \in Threads, NEW i \in Nat
      PROVE  <<s, i>> \in Holders(frames', x) <=>
                 \/ <<s, i>> \in Holders(frames, x)
                 \/ s = t /\ i = n + 1 /\ f.kind \in {"scope", "send"} /\ f.now = x
  <2>1. \A stacks : <<s, i>> \in Holders(stacks, x) <=> /\ i \in 1 .. Len(stacks[s])
                                                        /\ stacks[s][i].kind \in {"scope", "send"}
                                                        /\ stacks[s][i].now = x
    BY DEF Holders
  <2>2. CASE s # t
    BY <1>1, <2>1, <2>2
  <2>3. CASE s = t
    <3>1. i \in 1 .. n + 1 <=> i \in 1 .. n \/ i = n + 1
      OBVIOUS
    <3>. QED BY <1>2, <1>3, <2>1, <2>3, <3>1
  <2>. QED BY <2>2, <2>3
<1>5. \A stacks : Holders(stacks, x) \subseteq Threads \X Nat
  BY DEF Holders
<1>6. \A h \in Threads \X Nat : h \in Holders(frames', x) <=>
                 \/ h \in Holders(frames, x)
                 \/ h = <<t, n + 1>> /\ f.kind \in {"scope", "send"} /\ f.now = x
  BY <1>4
<1>7. <<t, n + 1>> \in Threads \X Nat
  BY <1>2
<1>8. CASE f.kind \in {"scope", "send"} /\ f.now = x
  <2>1. Holders(frames', x) = Holders(frames, x) \union {<<t, n + 1>>}
    BY <1>5, <1>6, <1>7, <1>8
  <2>. QED BY <1>2, <1>8, <2>1
<1>9. CASE ~(f.kind \in {"scope", "send"} /\ f.now = x)
  <2>1. Holders(frames', x) = Holders(frames, x)
    <3>1. \A h \in Threads \X Nat : h \in Holders(frames', x) <=> h \in Holders(frames, x)
      BY <1>6, <1>9
    <3>2. Holders(frames', x) \subseteq Threads \X Nat /\ Holders(frames, x) \subseteq Threads \X Nat
      BY <1>5
    <3>. QED BY ONLY <3>1, <3>2
  <2>. QED BY <1>9, <2>1
<1>. QED BY <1>8, <1>9

\* A stack lost its top frame, and the owner it may have been.
LEMMA HoldersPopped ==
    ASSUME Typed, NEW t \in Threads, frames[t] # <<>>, frames' = Popped(t), NEW x
    PROVE  Holders(frames', x) = Holders(frames, x) \ {<<t, Len(frames[t])>>}
<1>1. /\ frames \in [Threads -> Seq(Frame)] /\ frames'[t] = SubSeq(frames[t], 1, Len(frames[t]) - 1)
      /\ \A s \in Threads \ {t} : frames'[s] = frames[s]
  BY DEF Typed, Popped
<1>2. PICK n \in Nat : n = Len(frames[t]) /\ n # 0
  BY <1>1, EmptySeq
<1>3. Len(frames'[t]) = n - 1 /\ \A j \in 1 .. n - 1 : frames'[t][j] = frames[t][j]
  BY <1>1, <1>2, SubSeqProperties
<1>4. ASSUME NEW s \in Threads, NEW i \in Nat
      PROVE  <<s, i>> \in Holders(frames', x) <=> <<s, i>> \in Holders(frames, x) /\ ~(s = t /\ i = n)
  <2>1. \A stacks : <<s, i>> \in Holders(stacks, x) <=> /\ i \in 1 .. Len(stacks[s])
                                                        /\ stacks[s][i].kind \in {"scope", "send"}
                                                        /\ stacks[s][i].now = x
    BY DEF Holders
  <2>2. CASE s # t
    BY <1>1, <2>1, <2>2
  <2>3. CASE s = t
    <3>1. i \in 1 .. n - 1 <=> i \in 1 .. n /\ i # n
      OBVIOUS
    <3>. QED BY <1>2, <1>3, <2>1, <2>3, <3>1
  <2>. QED BY <2>2, <2>3
<1>5. \A stacks : Holders(stacks, x) \subseteq Threads \X Nat
  BY DEF Holders
<1>6. \A h \in Threads \X Nat : h \in Holders(frames', x) <=> h \in Holders(frames, x) /\ h # <<t, n>>
  BY <1>4
<1>. QED BY <1>2, <1>5, <1>6

\* A thread puts a frame on its stack; the count of what the frame owns goes up by one.
LEMMA PushStep ==
    ASSUME Inv, NEW t \in Threads, NEW f \in Frame, frames' = Pushed(t, f),
           FrameOk(Append(frames[t], f), Len(frames[t]) + 1),
           UNCHANGED <<default_transport, default_ca_bundle>>,
           scoped_transport' = IF f.kind = "scope" THEN [scoped_transport EXCEPT ![t] = f.now]
                                                   ELSE scoped_transport,
           scoped_ca_bundle' = IF f.kind = "ca" THEN [scoped_ca_bundle EXCEPT ![t] = f.now]
                                                ELSE scoped_ca_bundle,
           in_transport' = IF f.kind = "send" THEN [in_transport EXCEPT ![t] = TRUE] ELSE in_transport,
           refs' = IF f.kind \in {"scope", "send"} THEN Counted(f.now, "none") ELSE refs
    PROVE  Inv'
<1>1. /\ frames \in [Threads -> Seq(Frame)] /\ frames' = [frames EXCEPT ![t] = Append(frames[t], f)]
      /\ StackOk(frames[t], scoped_transport[t], scoped_ca_bundle[t])
  BY DEF Inv, Typed, Stacked, Pushed
<1>2. PICK u : u = Append(frames[t], f)
  OBVIOUS
<1>a. PICK transport2 : transport2 = IF f.kind = "scope" THEN f.now ELSE scoped_transport[t]
  OBVIOUS
<1>b. PICK bundle2 : bundle2 = IF f.kind = "ca" THEN f.now ELSE scoped_ca_bundle[t]
  OBVIOUS
<1>3. /\ u \in Seq(Frame) /\ StackOk(u, transport2, bundle2)
      /\ Inside(u) <=> f.kind = "send" \/ Inside(frames[t])
  <2>1. PICK s : s = frames[t]
    OBVIOUS
  <2>2. PICK transport : transport = scoped_transport[t]
    OBVIOUS
  <2>3. PICK bundle : bundle = scoped_ca_bundle[t]
    OBVIOUS
  <2>4. s \in Seq(Frame) /\ u = Append(s, f) /\ FrameOk(u, Len(s) + 1) /\ StackOk(s, transport, bundle)
    BY <1>1, <1>2, <2>1, <2>2, <2>3
  <2>5. /\ transport2 = IF f.kind = "scope" THEN f.now ELSE transport
        /\ bundle2 = IF f.kind = "ca" THEN f.now ELSE bundle
    BY <1>a, <1>b, <2>2, <2>3
  <2>6. u \in Seq(Frame) /\ StackOk(u, transport2, bundle2) /\ (Inside(u) <=> f.kind = "send" \/ Inside(s))
    <3>1. Pushes(s, transport, bundle, f, u, transport2, bundle2)
      BY <2>4, <2>5 DEF Pushes
    <3>. QED BY ONLY <3>1, PushOk
  <2>. QED BY <2>1, <2>6
<1>4. /\ f.kind = "scope" => f.now \in Transports \union {"empty"}
      /\ f.kind = "ca" => f.now \in Bundles \union {"system"}
  <2>1. u[Len(frames[t]) + 1] = f
    BY <1>1, <1>2, AppendProperties
  <2>. QED BY <1>2, <2>1 DEF FrameOk
<1>5. Typed'
  BY <1>1, <1>2, <1>3, <1>4 DEF Inv, Typed
<1>6. Stacked'
  <2>. SUFFICES ASSUME NEW s \in Threads
                PROVE  /\ StackOk(frames'[s], scoped_transport'[s], scoped_ca_bundle'[s])
                       /\ in_transport'[s] <=> Inside(frames'[s])
    BY DEF Stacked
  <2>1. CASE s = t
    <3>1. /\ frames'[t] = u
          /\ scoped_transport'[t] = transport2 /\ scoped_ca_bundle'[t] = bundle2
      BY <1>1, <1>2, <1>a, <1>b DEF Inv, Typed
    <3>2. in_transport'[t] <=> f.kind = "send" \/ in_transport[t]
      BY DEF Inv, Typed
    <3>3. in_transport[t] <=> Inside(frames[t])
      BY DEF Inv, Stacked
    <3>4. in_transport'[t] <=> Inside(u)
      BY <1>3, <3>2, <3>3
    <3>. QED BY <1>3, <2>1, <3>1, <3>4
  <2>2. CASE s # t
    <3>1. /\ frames'[s] = frames[s] /\ scoped_transport'[s] = scoped_transport[s]
          /\ scoped_ca_bundle'[s] = scoped_ca_bundle[s]
      BY <1>1, <2>2 DEF Inv, Typed
    <3>2. in_transport'[s] <=> in_transport[s]
      BY <2>2 DEF Inv, Typed
    <3>3. in_transport[s] <=> Inside(frames[s])
      BY DEF Inv, Stacked
    <3>4. StackOk(frames[s], scoped_transport[s], scoped_ca_bundle[s])
      BY DEF Inv, Stacked
    <3>. QED BY <3>1, <3>2, <3>3, <3>4
  <2>. QED BY <2>1, <2>2
<1>7. OwnersCounted'
  <2>1. ASSUME NEW x \in Transports
        PROVE  /\ IsFiniteSet(Holders(frames', x)) /\ Cardinality(Holders(frames', x)) \in Nat
               /\ Cardinality(Holders(frames', x)) = Cardinality(Holders(frames, x)) +
                     (IF f.kind \in {"scope", "send"} /\ f.now = x THEN 1 ELSE 0)
    <3>1. IsFiniteSet(Holders(frames, x)) /\ Cardinality(Holders(frames, x)) \in Nat
      BY FS_CardinalityType DEF Inv, OwnersCounted
    <3>2. <<t, Len(frames[t]) + 1>> \notin Holders(frames, x)
      <4>1. Len(frames[t]) \in Nat
        BY <1>1
      <4>. QED BY <4>1 DEF Holders
    <3>3. PICK h : h = <<t, Len(frames[t]) + 1>>
      OBVIOUS
    <3>4. CASE f.kind \in {"scope", "send"} /\ f.now = x
      <4>1. Holders(frames', x) = Holders(frames, x) \union {h}
        BY <3>3, <3>4, HoldersPushed DEF Inv
      <4>2. /\ IsFiniteSet(Holders(frames, x) \union {h})
            /\ Cardinality(Holders(frames, x) \union {h}) = Cardinality(Holders(frames, x)) + 1
        BY <3>1, <3>2, <3>3, FS_AddElement
      <4>. QED BY <3>1, <3>4, <4>1, <4>2
    <3>5. CASE ~(f.kind \in {"scope", "send"} /\ f.now = x)
      <4>1. Holders(frames', x) = Holders(frames, x)
        BY <3>5, HoldersPushed DEF Inv
      <4>. QED BY <3>1, <3>5, <4>1
    <3>. QED BY <3>4, <3>5
  <2>2. "none" \notin Transports
    BY TransportAssumption
  <2>3. /\ refs' \in [Transports -> Nat]
        /\ \A x \in Transports : /\ refs[x] \in Nat
                                 /\ refs'[x] = refs[x] + (IF f.kind \in {"scope", "send"} /\ f.now = x THEN 1 ELSE 0)
    <3>1. refs \in [Transports -> Nat]
      BY DEF Inv, OwnersCounted
    <3>. QED BY <2>2, <3>1 DEF Counted
  <2>4. \A x \in Transports : refs[x] = Cardinality(Holders(frames, x)) + IF default_transport = x THEN 1 ELSE 0
    BY DEF Inv, OwnersCounted
  <2>5. \A x \in Transports : Cardinality(Holders(frames, x)) \in Nat
    BY FS_CardinalityType DEF Inv, OwnersCounted
  <2>6. ASSUME NEW x \in Transports
        PROVE  refs'[x] = Cardinality(Holders(frames', x)) + IF default_transport' = x THEN 1 ELSE 0
    <3>1. PICK c \in Nat : c = Cardinality(Holders(frames, x))
      BY <2>5
    <3>2. PICK g \in {0, 1} : g = IF f.kind \in {"scope", "send"} /\ f.now = x THEN 1 ELSE 0
      OBVIOUS
    <3>3. Cardinality(Holders(frames', x)) = c + g
      BY <2>1, <3>1, <3>2
    <3>4. refs'[x] = refs[x] + g
      BY <2>3, <3>2
    <3>. QED BY <2>4, <3>1, <3>3, <3>4
  <2>. QED BY <2>1, <2>3, <2>6 DEF OwnersCounted
<1>. QED BY <1>5, <1>6, <1>7 DEF Inv

\* A thread takes its top frame off; the count of what the frame owned goes down by one.
LEMMA PopStep ==
    ASSUME Inv, NEW t \in Threads, frames[t] # <<>>, NEW f, f = Top(t), frames' = Popped(t),
           UNCHANGED <<default_transport, default_ca_bundle>>,
           scoped_transport' = IF f.kind = "scope" THEN [scoped_transport EXCEPT ![t] = f.was]
                                                   ELSE scoped_transport,
           scoped_ca_bundle' = IF f.kind = "ca" THEN [scoped_ca_bundle EXCEPT ![t] = f.was]
                                                ELSE scoped_ca_bundle,
           in_transport' = IF f.kind = "send" THEN [in_transport EXCEPT ![t] = FALSE] ELSE in_transport,
           refs' = IF f.kind \in {"scope", "send"} THEN Counted("none", f.now) ELSE refs
    PROVE  Inv'
<1>1. /\ frames \in [Threads -> Seq(Frame)]
      /\ frames' = [frames EXCEPT ![t] = SubSeq(frames[t], 1, Len(frames[t]) - 1)]
      /\ f = frames[t][Len(frames[t])]
      /\ StackOk(frames[t], scoped_transport[t], scoped_ca_bundle[t])
  BY DEF Inv, Typed, Stacked, Popped, Top
<1>2. PICK u : u = SubSeq(frames[t], 1, Len(frames[t]) - 1)
  OBVIOUS
<1>a. PICK transport2 : transport2 = IF f.kind = "scope" THEN f.was ELSE scoped_transport[t]
  OBVIOUS
<1>b. PICK bundle2 : bundle2 = IF f.kind = "ca" THEN f.was ELSE scoped_ca_bundle[t]
  OBVIOUS
<1>3. /\ u \in Seq(Frame) /\ Len(frames[t]) \in Nat \ {0} /\ FrameOk(frames[t], Len(frames[t]))
      /\ StackOk(u, transport2, bundle2)
      /\ Inside(u) <=> f.kind # "send" /\ Inside(frames[t])
  <2>1. PICK s : s = frames[t]
    OBVIOUS
  <2>2. PICK transport : transport = scoped_transport[t]
    OBVIOUS
  <2>3. PICK bundle : bundle = scoped_ca_bundle[t]
    OBVIOUS
  <2>4. /\ s \in Seq(Frame) /\ s # <<>> /\ u = SubSeq(s, 1, Len(s) - 1) /\ f = s[Len(s)]
        /\ StackOk(s, transport, bundle)
    BY <1>1, <1>2, <2>1, <2>2, <2>3
  <2>5. /\ transport2 = IF f.kind = "scope" THEN f.was ELSE transport
        /\ bundle2 = IF f.kind = "ca" THEN f.was ELSE bundle
    BY <1>a, <1>b, <2>2, <2>3
  <2>6. /\ u \in Seq(Frame) /\ Len(s) \in Nat \ {0} /\ FrameOk(s, Len(s)) /\ StackOk(u, transport2, bundle2)
        /\ Inside(u) <=> f.kind # "send" /\ Inside(s)
    <3>1. Pops(s, transport, bundle, f, u, transport2, bundle2)
      BY <2>4, <2>5 DEF Pops
    <3>. QED BY ONLY <3>1, PopOk
  <2>. QED BY <2>1, <2>6
<1>4. /\ f.kind = "scope" => f.was \in Transports \union {"none", "empty"}
      /\ f.kind = "ca" => f.was \in Bundles \union {"none", "system"}
  <2>1. PICK n \in Nat : n = Len(frames[t]) /\ n # 0
    BY <1>3
  <2>2. /\ f.kind = "scope" => f.was = Innermost(frames[t], n, "scope", "none")
        /\ f.kind = "ca" => f.was = Innermost(frames[t], n, "ca", "none")
    BY <1>1, <1>3, <2>1 DEF FrameOk
  <2>3. \A i \in 1 .. n : FrameOk(frames[t], i)
    BY <1>1, <2>1 DEF StackOk
  <2>4. Innermost(frames[t], n, "scope", "none") \in Transports \union {"none", "empty"}
    <3>1. CASE Below(frames[t], n, "scope") = {}
      BY <3>1 DEF Innermost
    <3>2. CASE Below(frames[t], n, "scope") # {}
      <4>1. PICK j \in Below(frames[t], n, "scope") : Innermost(frames[t], n, "scope", "none") = frames[t][j].now
        BY <3>2, InnermostIsOne
      <4>2. j \in 1 .. n /\ frames[t][j].kind = "scope"
        BY <4>1 DEF Below
      <4>. QED BY <2>3, <4>1, <4>2 DEF FrameOk
    <3>. QED BY <3>1, <3>2
  <2>5. Innermost(frames[t], n, "ca", "none") \in Bundles \union {"none", "system"}
    <3>1. CASE Below(frames[t], n, "ca") = {}
      BY <3>1 DEF Innermost
    <3>2. CASE Below(frames[t], n, "ca") # {}
      <4>1. PICK j \in Below(frames[t], n, "ca") : Innermost(frames[t], n, "ca", "none") = frames[t][j].now
        BY <3>2, InnermostIsOne
      <4>2. j \in 1 .. n /\ frames[t][j].kind = "ca"
        BY <4>1 DEF Below
      <4>. QED BY <2>3, <4>1, <4>2 DEF FrameOk
    <3>. QED BY <3>1, <3>2
  <2>. QED BY <2>2, <2>4, <2>5
<1>5. Typed'
  BY <1>1, <1>2, <1>3, <1>4 DEF Inv, Typed
<1>6. Stacked'
  <2>. SUFFICES ASSUME NEW s \in Threads
                PROVE  /\ StackOk(frames'[s], scoped_transport'[s], scoped_ca_bundle'[s])
                       /\ in_transport'[s] <=> Inside(frames'[s])
    BY DEF Stacked
  <2>1. CASE s = t
    <3>1. /\ frames'[t] = u
          /\ scoped_transport'[t] = transport2 /\ scoped_ca_bundle'[t] = bundle2
      BY <1>1, <1>2, <1>a, <1>b DEF Inv, Typed
    <3>2. in_transport'[t] <=> f.kind # "send" /\ in_transport[t]
      BY DEF Inv, Typed
    <3>3. in_transport[t] <=> Inside(frames[t])
      BY DEF Inv, Stacked
    <3>4. in_transport'[t] <=> Inside(u)
      BY <1>3, <3>2, <3>3
    <3>. QED BY <1>3, <2>1, <3>1, <3>4
  <2>2. CASE s # t
    <3>1. /\ frames'[s] = frames[s] /\ scoped_transport'[s] = scoped_transport[s]
          /\ scoped_ca_bundle'[s] = scoped_ca_bundle[s]
      BY <1>1, <2>2 DEF Inv, Typed
    <3>2. in_transport'[s] <=> in_transport[s]
      BY <2>2 DEF Inv, Typed
    <3>3. in_transport[s] <=> Inside(frames[s])
      BY DEF Inv, Stacked
    <3>4. StackOk(frames[s], scoped_transport[s], scoped_ca_bundle[s])
      BY DEF Inv, Stacked
    <3>. QED BY <3>1, <3>2, <3>3, <3>4
  <2>. QED BY <2>1, <2>2
<1>7. OwnersCounted'
  <2>1. PICK h : h = <<t, Len(frames[t])>>
    OBVIOUS
  <2>2. ASSUME NEW x \in Transports
        PROVE  /\ IsFiniteSet(Holders(frames', x)) /\ Cardinality(Holders(frames, x)) \in Nat
               /\ Cardinality(Holders(frames', x)) \in Nat
               /\ Cardinality(Holders(frames, x)) = Cardinality(Holders(frames', x)) +
                     (IF f.kind \in {"scope", "send"} /\ f.now = x THEN 1 ELSE 0)
    <3>1. IsFiniteSet(Holders(frames, x)) /\ Cardinality(Holders(frames, x)) \in Nat
      BY FS_CardinalityType DEF Inv, OwnersCounted
    <3>2. h \in Holders(frames, x) <=> f.kind \in {"scope", "send"} /\ f.now = x
      BY <1>1, <1>3, <2>1 DEF Holders
    <3>3. Holders(frames', x) = Holders(frames, x) \ {h}
      BY <2>1, HoldersPopped DEF Inv
    <3>4. /\ IsFiniteSet(Holders(frames, x) \ {h})
          /\ Cardinality(Holders(frames, x) \ {h}) =
                IF h \in Holders(frames, x) THEN Cardinality(Holders(frames, x)) - 1
                                            ELSE Cardinality(Holders(frames, x))
      BY <3>1, FS_RemoveElement
    <3>5. Cardinality(Holders(frames', x)) \in Nat
      BY <3>3, <3>4, FS_CardinalityType
    <3>. QED BY <3>1, <3>2, <3>3, <3>4, <3>5
  <2>3. "none" \notin Transports
    BY TransportAssumption
  <2>4. refs \in [Transports -> Nat] /\ \A x \in Transports :
            refs[x] = Cardinality(Holders(frames, x)) + IF default_transport = x THEN 1 ELSE 0
    BY DEF Inv, OwnersCounted
  <2>5. \A x \in Transports : refs'[x] = refs[x] - (IF f.kind \in {"scope", "send"} /\ f.now = x THEN 1 ELSE 0)
    BY <2>3, <2>4 DEF Counted
  <2>6. ASSUME NEW x \in Transports
        PROVE  /\ refs'[x] = Cardinality(Holders(frames', x)) + IF default_transport' = x THEN 1 ELSE 0
               /\ refs'[x] \in Nat
    <3>1. PICK c \in Nat : c = Cardinality(Holders(frames', x))
      BY <2>2
    <3>2. PICK g \in {0, 1} : g = IF f.kind \in {"scope", "send"} /\ f.now = x THEN 1 ELSE 0
      OBVIOUS
    <3>3. Cardinality(Holders(frames, x)) = c + g
      BY <2>2, <3>1, <3>2
    <3>4. refs'[x] = refs[x] - g
      BY <2>5, <3>2
    <3>. QED BY <2>4, <3>1, <3>3, <3>4
  <2>7. refs' \in [Transports -> Nat]
    <3>1. refs' = [x \in Transports |-> refs'[x]]
      BY <2>4 DEF Counted
    <3>. QED BY <2>6, <3>1
  <2>. QED BY <2>2, <2>6, <2>7 DEF OwnersCounted
<1>. QED BY <1>5, <1>6, <1>7 DEF Inv

\* The stack u of a thread that is about to put f on its own, in the n-th place.
Grows(t, f, u, n) == f \in Frame /\ u = Append(frames[t], f) /\ n = Len(frames[t]) + 1

\* What a frame that is about to be put on the stack finds under it.
LEMMA FoundBelow ==
    ASSUME Inv, NEW t \in Threads, NEW f, NEW u, NEW n, Grows(t, f, u, n)
    PROVE  /\ n \in Nat /\ u[n] = f
           /\ Innermost(u, n, "scope", "none") = scoped_transport[t]
           /\ Innermost(u, n, "ca", "none") = scoped_ca_bundle[t]
           /\ Innermost(u, n, "scope", default_transport) = CurrentTransport(t)
           /\ Innermost(u, n, "ca", default_ca_bundle) = CurrentCaBundle(t)
           /\ Below(u, n, "send") # {} <=> in_transport[t]
<1>1. PICK s \in Seq(Frame) : s = frames[t]
  BY DEF Inv, Typed
<1>2. /\ n \in Nat /\ n = Len(s) + 1 /\ u[n] = f
      /\ \A j \in 1 .. n - 1 : u[j] = s[j]
  BY <1>1, AppendProperties DEF Grows
<1>3. StackOk(s, scoped_transport[t], scoped_ca_bundle[t])
  BY <1>1 DEF Inv, Stacked
<1>4. in_transport[t] <=> Below(s, n, "send") # {}
  BY <1>1, <1>2 DEF Inv, Stacked, Inside
<1>5. ASSUME NEW kind, NEW otherwise
      PROVE  Below(u, n, kind) = Below(s, n, kind) /\ Innermost(u, n, kind, otherwise) = Innermost(s, n, kind, otherwise)
  <2>1. n \in Nat /\ \A j \in 1 .. n - 1 : u[j] = s[j]
    BY <1>2
  <2>. QED BY ONLY <2>1, SamePrefix
<1>6. /\ Innermost(s, n, "scope", "none") = scoped_transport[t]
      /\ Innermost(s, n, "ca", "none") = scoped_ca_bundle[t]
  BY <1>2, <1>3 DEF StackOk
<1>7. \A j \in 1 .. n - 1 : FrameOk(s, j)
  BY <1>1, <1>2, <1>3 DEF StackOk
<1>8. ASSUME NEW kind \in {"scope", "ca"}, NEW j \in Below(s, n, kind)
      PROVE  s[j].now # "none"
  BY <1>7, <1>8, TransportAssumption DEF Below, FrameOk
<1>9. Innermost(s, n, "scope", default_transport) = CurrentTransport(t)
  <2>1. Innermost(s, n, "scope", default_transport) =
           IF Innermost(s, n, "scope", "none") # "none" THEN Innermost(s, n, "scope", "none") ELSE default_transport
    BY <1>2, <1>8, InnermostElse
  <2>. QED BY <1>6, <2>1 DEF CurrentTransport
<1>10. Innermost(s, n, "ca", default_ca_bundle) = CurrentCaBundle(t)
  <2>1. Innermost(s, n, "ca", default_ca_bundle) =
           IF Innermost(s, n, "ca", "none") # "none" THEN Innermost(s, n, "ca", "none") ELSE default_ca_bundle
    BY <1>2, <1>8, InnermostElse
  <2>. QED BY <1>6, <2>1 DEF CurrentCaBundle
<1>11. Below(u, n, "send") = Below(s, n, "send")
  BY <1>5
<1>. QED BY <1>2, <1>4, <1>5, <1>6, <1>9, <1>10, <1>11

-----------------------------------------------------------------------------
(* The actions *)

\* A scope of either sort opens.
LEMMA ScopeOpens ==
    ASSUME Inv, NEW t \in Threads
    PROVE  /\ \A x \in Fresh \union {"empty"} : TransportScope(t, x) => Inv'
           /\ \A b \in Bundles \union {"system"} : CaBundleScope(t, b) => Inv'
<1>1. ASSUME NEW x \in Fresh \union {"empty"}, TransportScope(t, x)
      PROVE  Inv'
  <2>1. PICK f : f = [kind |-> "scope", now |-> x, was |-> scoped_transport[t], seen |-> Unset]
    OBVIOUS
  <2>2. f \in Frame /\ f.kind = "scope" /\ f.now = x /\ f.was = scoped_transport[t]
    BY <2>1 DEF Inv, Typed, Frame, Kinds, Unset, Fresh
  <2>3. PICK u : u = Append(frames[t], f)
    OBVIOUS
  <2>4. PICK n : n = Len(frames[t]) + 1
    OBVIOUS
  <2>5. u[n] = f /\ Innermost(u, n, "scope", "none") = scoped_transport[t]
    <3>1. Grows(t, f, u, n)
      BY <2>2, <2>3, <2>4 DEF Grows
    <3>. QED BY <3>1, FoundBelow
  <2>6. FrameOk(u, n)
    BY <2>2, <2>5 DEF FrameOk, Fresh
  <2>7. frames' = Pushed(t, f)
    BY <1>1, <2>1 DEF TransportScope
  <2>. QED BY <1>1, <2>2, <2>3, <2>4, <2>6, <2>7, PushStep DEF TransportScope
<1>2. ASSUME NEW b \in Bundles \union {"system"}, CaBundleScope(t, b)
      PROVE  Inv'
  <2>1. PICK f : f = [kind |-> "ca", now |-> b, was |-> scoped_ca_bundle[t], seen |-> Unset]
    OBVIOUS
  <2>2. f \in Frame /\ f.kind = "ca" /\ f.now = b /\ f.was = scoped_ca_bundle[t]
    BY <2>1 DEF Inv, Typed, Frame, Kinds, Unset
  <2>3. PICK u : u = Append(frames[t], f)
    OBVIOUS
  <2>4. PICK n : n = Len(frames[t]) + 1
    OBVIOUS
  <2>5. u[n] = f /\ Innermost(u, n, "ca", "none") = scoped_ca_bundle[t]
    <3>1. Grows(t, f, u, n)
      BY <2>2, <2>3, <2>4 DEF Grows
    <3>. QED BY <3>1, FoundBelow
  <2>6. FrameOk(u, n)
    BY <2>2, <2>5 DEF FrameOk
  <2>7. frames' = Pushed(t, f)
    BY <1>2, <2>1 DEF CaBundleScope
  <2>. QED BY <1>2, <2>2, <2>3, <2>4, <2>6, <2>7, PushStep DEF CaBundleScope
<1>. QED BY <1>1, <1>2

\* A request is sent, or refused before it is.
LEMMA RequestSent ==
    ASSUME Inv, NEW t \in Threads, NEW r \in Requests, HttpSend(t, r)
    PROVE  Inv'
<1>1. CASE UNCHANGED <<frames, in_transport, refs>>
  <2>1. UNCHANGED <<default_transport, default_ca_bundle, scoped_transport, scoped_ca_bundle, in_transport,
                    frames, refs>>
    BY <1>1 DEF HttpSend
  <2>. QED BY <2>1 DEF Inv, Typed, Stacked, OwnersCounted
<1>2. PICK n : n = Len(frames[t]) + 1
  OBVIOUS
<1>3. /\ Seen(r) \in [transport : Transports \union {"none"}, bundle : Bundles \union {"system"}, https : BOOLEAN]
      /\ Seen(r).transport = default_transport /\ Seen(r).bundle = default_ca_bundle
  BY DEF Seen, Requests, Inv, Typed
<1>4. Seen(r).https <=> r.https
  BY DEF Seen
<1>5. CASE Carrier(t) \in {"none", "empty"} /\ BuiltInSend(t, r) /\ ~BuiltInRefuses(t, r)
  <2>1. PICK f : f = [kind |-> "builtin", now |-> Trusted(t, r), was |-> "none", seen |-> Seen(r)]
    OBVIOUS
  <2>2. Trusted(t, r) \in Bundles \union {"system", "clear"}
    BY DEF Trusted, CurrentCaBundle, Inv, Typed
  <2>3. f \in Frame /\ f.kind = "builtin" /\ f.now = Trusted(t, r) /\ f.was = "none" /\ f.seen = Seen(r)
    BY <1>3, <2>1, <2>2 DEF Frame, Kinds
  <2>4. PICK u : u = Append(frames[t], f)
    OBVIOUS
  <2>5. /\ u[n] = f
        /\ Innermost(u, n, "scope", default_transport) = CurrentTransport(t)
        /\ Innermost(u, n, "ca", default_ca_bundle) = CurrentCaBundle(t)
    <3>1. Grows(t, f, u, n)
      BY <1>2, <2>3, <2>4 DEF Grows
    <3>. QED BY <3>1, FoundBelow
  <2>6. Below(u, n, "send") # {} <=> in_transport[t]
    <3>1. Grows(t, f, u, n)
      BY <1>2, <2>3, <2>4 DEF Grows
    <3>. QED BY <3>1, FoundBelow
  <2>7. Below(u, n, "send") # {} \/ CurrentTransport(t) \in {"none", "empty"}
    BY <1>5, <2>6 DEF Carrier
  <2>8. f.now = IF f.seen.https THEN CurrentCaBundle(t) ELSE "clear"
    BY <1>4, <2>3 DEF Trusted
  <2>9. FrameOk(u, n)
    BY <1>3, <2>3, <2>5, <2>7, <2>8 DEF FrameOk
  <2>10. frames' = Pushed(t, f)
    BY <1>5, <2>1 DEF BuiltInSend
  <2>11. UNCHANGED <<default_transport, default_ca_bundle, scoped_transport, scoped_ca_bundle, in_transport, refs>>
    BY <1>5 DEF HttpSend, BuiltInSend
  <2>. QED BY <1>2, <2>3, <2>4, <2>9, <2>10, <2>11, PushStep
<1>6. CASE /\ Carrier(t) \in Transports /\ r.ok
           /\ frames' = Pushed(t, [kind |-> "send", now |-> Carrier(t), was |-> "none", seen |-> Seen(r)])
           /\ in_transport' = [in_transport EXCEPT ![t] = TRUE]
           /\ refs' = Kept(Carrier(t))
  <2>1. PICK f : f = [kind |-> "send", now |-> Carrier(t), was |-> "none", seen |-> Seen(r)]
    OBVIOUS
  <2>2. f \in Frame /\ f.kind = "send" /\ f.now = Carrier(t) /\ f.was = "none" /\ f.seen = Seen(r)
    BY <1>3, <1>6, <2>1 DEF Frame, Kinds
  <2>3. PICK u : u = Append(frames[t], f)
    OBVIOUS
  <2>4. u[n] = f /\ Innermost(u, n, "scope", default_transport) = CurrentTransport(t)
    <3>1. Grows(t, f, u, n)
      BY <1>2, <2>2, <2>3 DEF Grows
    <3>. QED BY <3>1, FoundBelow
  <2>5. Below(u, n, "send") # {} <=> in_transport[t]
    <3>1. Grows(t, f, u, n)
      BY <1>2, <2>2, <2>3 DEF Grows
    <3>. QED BY <3>1, FoundBelow
  <2>6. ~in_transport[t] /\ Carrier(t) = CurrentTransport(t)
    BY <1>6, TransportAssumption DEF Carrier
  <2>7. FrameOk(u, n)
    BY <1>3, <2>2, <2>4, <2>5, <2>6 DEF FrameOk
  <2>8. frames' = Pushed(t, f) /\ refs' = Counted(f.now, "none")
    BY <1>6, <2>1, <2>2 DEF Kept
  <2>9. UNCHANGED <<default_transport, default_ca_bundle, scoped_transport, scoped_ca_bundle>>
    BY DEF HttpSend
  <2>. QED BY <1>2, <1>6, <2>2, <2>3, <2>7, <2>8, <2>9, PushStep
<1>. QED BY <1>1, <1>5, <1>6 DEF HttpSend, BuiltInSend

\* A scope ends, an answer comes, a transport leaves.
LEMMA FrameEnds ==
    ASSUME Inv, NEW t \in Threads
    PROVE  /\ EndTransportScope(t) => Inv'
           /\ EndCaBundleScope(t) => Inv'
           /\ BuiltInAnswers(t) => Inv'
           /\ \A how \in {"returns", "throws"} : TransportLeaves(t, how) => Inv'
<1>1. PICK f : f = Top(t)
  OBVIOUS
<1>2. ASSUME EndTransportScope(t) PROVE Inv'
  <2>1. frames[t] # <<>> /\ f.kind = "scope" /\ frames' = Popped(t)
    BY <1>1, <1>2 DEF EndTransportScope, Is
  <2>2. scoped_transport[t] = f.now
    <3>1. PICK s \in Seq(Frame) : s = frames[t]
      BY DEF Inv, Typed
    <3>2. PICK n \in Nat : n = Len(s) /\ n # 0
      BY <2>1, <3>1, EmptySeq
    <3>3. s[n] = f
      BY <1>1, <3>1, <3>2 DEF Top
    <3>4. Innermost(s, n + 1, "scope", "none") = f.now
      BY <2>1, <3>2, <3>3, TopFrame
    <3>. QED BY <3>1, <3>2, <3>4 DEF Inv, Stacked, StackOk
  <2>3. scoped_transport' = [scoped_transport EXCEPT ![t] = f.was] /\ refs' = Counted("none", f.now)
    BY <1>1, <1>2, <2>2 DEF EndTransportScope, Previous
  <2>4. UNCHANGED <<default_transport, default_ca_bundle, scoped_ca_bundle, in_transport>>
    BY <1>2 DEF EndTransportScope
  <2>. QED BY <1>1, <2>1, <2>3, <2>4, PopStep
<1>3. ASSUME EndCaBundleScope(t) PROVE Inv'
  <2>1. /\ frames[t] # <<>> /\ f.kind = "ca" /\ frames' = Popped(t)
        /\ scoped_ca_bundle' = [scoped_ca_bundle EXCEPT ![t] = f.was]
    BY <1>1, <1>3 DEF EndCaBundleScope, Is, Previous
  <2>2. UNCHANGED <<default_transport, default_ca_bundle, scoped_transport, in_transport, refs>>
    BY <1>3 DEF EndCaBundleScope
  <2>. QED BY <1>1, <2>1, <2>2, PopStep
<1>4. ASSUME BuiltInAnswers(t) PROVE Inv'
  <2>1. /\ frames[t] # <<>> /\ f.kind = "builtin" /\ frames' = Popped(t)
        /\ UNCHANGED <<default_transport, default_ca_bundle, scoped_transport, scoped_ca_bundle, in_transport, refs>>
    BY <1>1, <1>4 DEF BuiltInAnswers, Is
  <2>. QED BY <1>1, <2>1, PopStep
<1>5. ASSUME NEW how \in {"returns", "throws"}, TransportLeaves(t, how) PROVE Inv'
  <2>1. /\ frames[t] # <<>> /\ f.kind = "send" /\ frames' = Popped(t)
        /\ in_transport' = [in_transport EXCEPT ![t] = FALSE] /\ refs' = Counted("none", f.now)
        /\ UNCHANGED <<default_transport, default_ca_bundle, scoped_transport, scoped_ca_bundle>>
    BY <1>1, <1>5 DEF TransportLeaves, Is, Left
  <2>. QED BY <1>1, <2>1, PopStep
<1>. QED BY <1>2, <1>3, <1>4, <1>5

\* The process's defaults change, and the files on its disk.
LEMMA DefaultsChange ==
    ASSUME Inv
    PROVE  /\ \A x \in Fresh \union {"none"} : SetDefaultTransport(x) => Inv'
           /\ \A b \in Bundles \union {"system"} : SetDefaultCaBundle(b) => Inv'
           /\ \A b \in Bundles : FileChanges(b) => Inv'
<1>1. ASSUME NEW x \in Fresh \union {"none"}, SetDefaultTransport(x)
      PROVE  Inv'
  <2>1. Typed' /\ Stacked'
    BY <1>1 DEF SetDefaultTransport, Inv, Typed, Stacked, Fresh
  <2>2. ASSUME NEW y \in Transports
        PROVE  /\ refs'[y] = Cardinality(Holders(frames, y)) + (IF x = y THEN 1 ELSE 0)
               /\ refs'[y] \in Nat
    <3>1. PICK c \in Nat : c = Cardinality(Holders(frames, y))
      BY FS_CardinalityType DEF Inv, OwnersCounted
    <3>2. refs[y] = c + (IF default_transport = y THEN 1 ELSE 0)
      BY <3>1 DEF Inv, OwnersCounted
    <3>3. refs'[y] = refs[y] + (IF y = x THEN 1 ELSE 0) - (IF y = default_transport THEN 1 ELSE 0)
      BY <1>1 DEF SetDefaultTransport, Counted
    <3>. QED BY <3>1, <3>2, <3>3
  <2>3. refs' \in [Transports -> Nat]
    <3>1. refs' = [y \in Transports |-> refs'[y]]
      BY <1>1 DEF SetDefaultTransport, Counted
    <3>. QED BY <2>2, <3>1
  <2>4. frames' = frames /\ default_transport' = x
    BY <1>1 DEF SetDefaultTransport
  <2>. QED BY <2>1, <2>2, <2>3, <2>4 DEF Inv, OwnersCounted
<1>2. ASSUME NEW b \in Bundles \union {"system"}, SetDefaultCaBundle(b)
      PROVE  Inv'
  BY <1>2 DEF SetDefaultCaBundle, Inv, Typed, Stacked, OwnersCounted
<1>3. ASSUME NEW b \in Bundles, FileChanges(b)
      PROVE  Inv'
  BY <1>3 DEF FileChanges, Inv, Typed, Stacked, OwnersCounted
<1>. QED BY <1>1, <1>2, <1>3

-----------------------------------------------------------------------------
(* The theorems *)

\* No thread has called anything.
LEMMA InitInv ==
    ASSUME InitTransport
    PROVE  Inv
<1>1. Typed
  BY DEF InitTransport, Typed
<1>2. Stacked
  <2>. SUFFICES ASSUME NEW t \in Threads
                PROVE  /\ StackOk(frames[t], scoped_transport[t], scoped_ca_bundle[t])
                       /\ in_transport[t] <=> Inside(frames[t])
    BY DEF Stacked
  <2>1. PICK s : s = <<>> /\ s = frames[t] /\ Len(s) = 0
    BY DEF InitTransport
  <2>2. scoped_transport[t] = "none" /\ scoped_ca_bundle[t] = "none"
    BY DEF InitTransport
  <2>3. ~in_transport[t]
    BY DEF InitTransport
  <2>4. \A kind : Below(s, Len(s) + 1, kind) = {}
    BY <2>1 DEF Below
  <2>5. \A kind : Innermost(s, Len(s) + 1, kind, "none") = "none"
    BY <2>4 DEF Innermost
  <2>6. StackOk(s, "none", "none")
    BY <2>1, <2>5 DEF StackOk
  <2>7. ~Inside(s)
    BY <2>4 DEF Inside
  <2>. QED BY <2>1, <2>2, <2>3, <2>6, <2>7
<1>3. OwnersCounted
  <2>1. refs \in [Transports -> Nat] /\ \A x \in Transports : refs[x] = 0 /\ default_transport # x
    BY TransportAssumption DEF InitTransport
  <2>2. \A x : Holders(frames, x) = {}
    BY DEF InitTransport, Holders
  <2>3. IsFiniteSet({}) /\ Cardinality({}) = 0
    BY FS_EmptySet
  <2>4. ASSUME NEW x \in Transports
        PROVE  /\ IsFiniteSet(Holders(frames, x))
               /\ refs[x] = Cardinality(Holders(frames, x)) + IF default_transport = x THEN 1 ELSE 0
    <3>1. IsFiniteSet(Holders(frames, x)) /\ Cardinality(Holders(frames, x)) = 0
      BY <2>2, <2>3
    <3>. QED BY <2>1, <3>1
  <2>. QED BY <2>1, <2>4 DEF OwnersCounted
<1>. QED BY <1>1, <1>2, <1>3 DEF Inv

\* Every step keeps every thread's variables what its stack says, and the owners counted.
LEMMA NextInv ==
    ASSUME Inv, [NextTransport]_transportVars
    PROVE  Inv'
<1>1. CASE UNCHANGED transportVars
  BY <1>1 DEF transportVars, Inv, Typed, Stacked, OwnersCounted
<1>2. CASE NextTransport
  BY <1>2, DefaultsChange, ScopeOpens, FrameEnds, RequestSent DEF NextTransport
<1>. QED BY <1>1, <1>2

\* A stack's scope frame is in force, or the next scope above it restores what it put in force.
LEMMA KeptInForce ==
    ASSUME NEW s \in Seq(Frame), NEW transport, NEW bundle, StackOk(s, transport, bundle),
           NEW i \in 1 .. Len(s), s[i].kind = "scope"
    PROVE  transport = s[i].now \/ \E k \in 1 .. Len(s) : s[k].was = s[i].now
<1>1. PICK n \in Nat : n = Len(s)
  OBVIOUS
<1>2. PICK above : above = {k \in 1 .. n : k > i /\ s[k].kind = "scope"}
  OBVIOUS
<1>3. CASE above = {}
  <2>1. PICK top \in Nat : top = n + 1
    OBVIOUS
  <2>2. i \in Below(s, top, "scope")
    BY <1>1, <2>1 DEF Below
  <2>3. PICK j \in Below(s, top, "scope") : /\ \A k \in Below(s, top, "scope") : k <= j
                                            /\ Innermost(s, top, "scope", "none") = s[j].now
    BY <2>2, InnermostIsOne
  <2>4. j \in 1 .. n /\ s[j].kind = "scope" /\ i <= j
    BY <1>1, <2>1, <2>2, <2>3 DEF Below
  <2>5. j = i
    BY <1>1, <1>2, <1>3, <2>4
  <2>6. transport = Innermost(s, top, "scope", "none")
    BY <1>1, <2>1 DEF StackOk
  <2>. QED BY <2>3, <2>5, <2>6
<1>4. CASE above # {}
  <2>1. above \subseteq Nat
    BY <1>2
  <2>2. PICK k \in above : \A l \in above : k <= l
    BY <1>4, <2>1, LeastElement
  <2>3. k \in Nat /\ k \in 1 .. n /\ k > i /\ s[k].kind = "scope"
    BY <1>2, <2>2
  <2>4. i \in Below(s, k, "scope")
    BY <1>1, <2>3 DEF Below
  <2>5. PICK j \in Below(s, k, "scope") : /\ \A l \in Below(s, k, "scope") : l <= j
                                          /\ Innermost(s, k, "scope", "none") = s[j].now
    BY <2>3, <2>4, InnermostIsOne
  <2>6. j \in 1 .. n /\ s[j].kind = "scope" /\ i <= j /\ j < k
    BY <1>1, <2>3, <2>4, <2>5 DEF Below
  <2>7. j = i
    BY <1>1, <1>2, <2>2, <2>3, <2>6
  <2>8. FrameOk(s, k)
    BY <1>1, <2>3 DEF StackOk
  <2>. QED BY <1>1, <2>3, <2>5, <2>7, <2>8 DEF FrameOk
<1>. QED BY <1>3, <1>4

\* A transport that a stack names as in force under some place of it is owned by a frame of it.
LEMMA InForceIsHeld ==
    ASSUME Inv, NEW t \in Threads, NEW n \in Nat, n <= Len(frames[t]) + 1, NEW kind \in {"scope", "ca"},
           NEW x \in Transports, Innermost(frames[t], n, kind, "none") = x
    PROVE  Holders(frames, x) # {}
<1>1. PICK s \in Seq(Frame) : s = frames[t]
  BY DEF Inv, Typed
<1>2. x # "none" /\ x \notin Bundles \union {"system"}
  BY TransportAssumption
<1>3. Below(s, n, kind) # {}
  BY <1>1, <1>2 DEF Innermost
<1>4. PICK j \in Below(s, n, kind) : Innermost(s, n, kind, "none") = s[j].now
  BY <1>3, InnermostIsOne
<1>5. j \in 1 .. Len(s) /\ j \in Nat /\ s[j].kind = kind
  BY <1>1, <1>4 DEF Below
<1>6. FrameOk(s, j)
  BY <1>1, <1>5 DEF Inv, Stacked, StackOk
<1>7. s[j].now = x /\ kind = "scope"
  BY <1>1, <1>2, <1>4, <1>5, <1>6 DEF FrameOk
<1>8. <<t, j>> \in Holders(frames, x)
  BY <1>1, <1>5, <1>7 DEF Holders
<1>. QED BY <1>8

\* A transport has a count exactly when somebody owns it.
LEMMA CountedIsOwned ==
    ASSUME Inv, NEW x \in Transports
    PROVE  refs[x] > 0 <=> default_transport = x \/ Holders(frames, x) # {}
<1>1. PICK holders : holders = Holders(frames, x)
  OBVIOUS
<1>2. IsFiniteSet(holders) /\ refs[x] = Cardinality(holders) + IF default_transport = x THEN 1 ELSE 0
  BY <1>1 DEF Inv, OwnersCounted
<1>3. Cardinality(holders) \in Nat /\ (Cardinality(holders) = 0 <=> holders = {})
  BY <1>2, FS_CardinalityType, FS_EmptySet
<1>. QED BY <1>1, <1>2, <1>3

\* What the invariant says of the requests under way ...
LEMMA InvCarries ==
    ASSUME Inv
    PROVE  InnermostScopeCarries
<1>. SUFFICES ASSUME NEW t \in Threads, NEW i \in DOMAIN frames[t], NEW s, s = frames[t], NEW f, f = s[i]
              PROVE  /\ f.kind = "send" => /\ Below(s, i, "send") = {}
                                           /\ f.now = Innermost(s, i, "scope", f.seen.transport)
                     /\ f.kind = "builtin" =>
                           /\ \/ Below(s, i, "send") # {}
                              \/ Innermost(s, i, "scope", f.seen.transport) \in {"none", "empty"}
                           /\ f.now = IF f.seen.https THEN Innermost(s, i, "ca", f.seen.bundle) ELSE "clear"
  BY DEF InnermostScopeCarries
<1>1. i \in 1 .. Len(s)
  BY DEF Inv, Typed
<1>2. FrameOk(s, i)
  BY <1>1 DEF Inv, Stacked, StackOk
<1>. QED BY <1>2 DEF FrameOk

\* ... and of the transports.
LEMMA InvAlive ==
    ASSUME Inv
    PROVE  AliveWhileNeeded
<1>. SUFFICES ASSUME NEW x \in Transports
              PROVE  Holders(frames, x) # {} \/ default_transport = x <=>
                        \/ default_transport = x
                        \/ \E t \in Threads : scoped_transport[t] = x
                        \/ \E t \in Threads : \E i \in DOMAIN frames[t] :
                              \/ frames[t][i].was = x
                              \/ frames[t][i].kind = "send" /\ frames[t][i].now = x
  BY CountedIsOwned DEF AliveWhileNeeded
<1>1. ASSUME NEW t \in Threads
      PROVE  frames[t] \in Seq(Frame) /\ Len(frames[t]) \in Nat /\ DOMAIN frames[t] = 1 .. Len(frames[t])
  BY DEF Inv, Typed
<1>2. ASSUME NEW t \in Threads, scoped_transport[t] = x
      PROVE  Holders(frames, x) # {}
  <2>1. PICK n \in Nat : n = Len(frames[t]) + 1
    BY <1>1
  <2>2. Innermost(frames[t], n, "scope", "none") = x
    BY <1>2, <2>1 DEF Inv, Stacked, StackOk
  <2>. QED BY <2>1, <2>2, InForceIsHeld
<1>3. ASSUME NEW t \in Threads, NEW i \in DOMAIN frames[t], frames[t][i].was = x
      PROVE  Holders(frames, x) # {}
  <2>1. i \in Nat /\ i \in 1 .. Len(frames[t]) /\ i <= Len(frames[t]) + 1 /\ frames[t][i].kind \in Kinds
    <3>1. i \in 1 .. Len(frames[t]) /\ i \in Nat /\ i <= Len(frames[t]) + 1
      BY <1>1
    <3>2. frames[t][i] \in Frame
      BY <1>1, <3>1
    <3>. QED BY <3>1, <3>2 DEF Frame
  <2>2. FrameOk(frames[t], i)
    BY <2>1 DEF Inv, Stacked, StackOk
  <2>3. x # "none"
    BY TransportAssumption
  <2>4. PICK kind \in {"scope", "ca"} : Innermost(frames[t], i, kind, "none") = x
    BY <1>3, <2>1, <2>2, <2>3 DEF FrameOk, Kinds
  <2>. QED BY <2>1, <2>4, InForceIsHeld
<1>4. ASSUME NEW t \in Threads, NEW i \in DOMAIN frames[t], frames[t][i].kind = "send", frames[t][i].now = x
      PROVE  Holders(frames, x) # {}
  <2>1. <<t, i>> \in Holders(frames, x)
    BY <1>1, <1>4 DEF Holders
  <2>. QED BY <2>1
<1>5. ASSUME Holders(frames, x) # {}
      PROVE  \/ \E t \in Threads : scoped_transport[t] = x
             \/ \E t \in Threads : \E i \in DOMAIN frames[t] :
                   \/ frames[t][i].was = x
                   \/ frames[t][i].kind = "send" /\ frames[t][i].now = x
  <2>1. PICK t \in Threads, i \in Nat : <<t, i>> \in Holders(frames, x)
    BY <1>5 DEF Holders
  <2>2. PICK s \in Seq(Frame) : s = frames[t] /\ DOMAIN s = 1 .. Len(s)
    BY <1>1
  <2>3. i \in 1 .. Len(s) /\ s[i].kind \in {"scope", "send"} /\ s[i].now = x
    BY <2>1, <2>2 DEF Holders
  <2>4. CASE s[i].kind = "scope"
    <3>1. StackOk(s, scoped_transport[t], scoped_ca_bundle[t])
      BY <2>2 DEF Inv, Stacked
    <3>2. scoped_transport[t] = s[i].now \/ \E k \in 1 .. Len(s) : s[k].was = s[i].now
      BY <2>3, <2>4, <3>1, KeptInForce
    <3>. QED BY <2>2, <2>3, <3>2
  <2>5. CASE s[i].kind = "send"
    BY <2>2, <2>3, <2>5
  <2>. QED BY <2>3, <2>4, <2>5
<1>. QED BY <1>2, <1>3, <1>4, <1>5

\* Every request is carried by what the calling thread's stack says when it is made - the built-in
\* client inside a transport, else the innermost scope's transport, else the process's default -
\* and trusts the innermost CA scope's bundle, else the default: HttpSend, TransportScope,
\* CaBundleScope and their destructors, on any number of threads, at any depth.
THEOREM StackDecides == TransportSpec => []InnermostScopeCarries
<1>1. InitTransport => Inv
  BY InitInv
<1>2. Inv /\ [NextTransport]_transportVars => Inv'
  BY NextInv
<1>3. Inv => InnermostScopeCarries
  BY InvCarries
<1>. QED BY <1>1, <1>2, <1>3, PTL DEF TransportSpec

\* A transport lives as long as the default, a scope or a running request needs it, and no longer:
\* the shared_ptr that HttpSend keeps is one owner too many for nobody.
THEOREM OwnedWhileNeeded == TransportSpec => []AliveWhileNeeded
<1>1. InitTransport => Inv
  BY InitInv
<1>2. Inv /\ [NextTransport]_transportVars => Inv'
  BY NextInv
<1>3. Inv => AliveWhileNeeded
  BY InvAlive
<1>. QED BY <1>1, <1>2, <1>3, PTL DEF TransportSpec

=============================================================================
