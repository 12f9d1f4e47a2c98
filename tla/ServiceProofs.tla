-------------------------- MODULE ServiceProofs -----------------------------
(***************************************************************************)
(* Theorems about the services around the links: which plugins receive a   *)
(* packet, what a client of the event stream sees, where the screensaver's *)
(* cookies go, who dials, what the limiter promises, which slice a page of *)
(* the device list is and which conversations are kept for the API.        *)
(***************************************************************************)
EXTENDS Routing, EventStream, PluginNotices, Dialling, Api, PhoneData, FiniteSetTheorems,
        NaturalsInduction, WellFoundedInduction, TLAPS

-----------------------------------------------------------------------------
(* Who receives a packet (plugins/registry.rs, protocol/router.rs).        *)

\* The recursion of RtOnly, up to n.
Keeping(f, names, S, n) ==
    f = [i \in 0..n |-> IF i = 0 THEN <<>>
                        ELSE IF names[i] \in S THEN Append(f[i - 1], names[i]) ELSE f[i - 1]]

\* A set of numbers that has 0 and with each number the next one has them all.
LEMMA FromZeroOn ==
    ASSUME NEW K \in SUBSET Nat, 0 \in K, \A n \in K : n + 1 \in K
    PROVE  K = Nat
<1> SUFFICES ASSUME Nat \ K # {} PROVE FALSE
  BY Zenon
<1>1. PICK n \in Nat \ K : \A m \in Nat \ K : ~(<<m, n>> \in OpToRel(<, Nat))
  BY NatLessThanWellFounded, WFMin, ZenonT(30)
<1>2. n # 0 /\ n - 1 \in Nat
  OBVIOUS
<1>3. n - 1 \notin K
  BY <1>2, SMTT(30)
<1>4. <<n - 1, n>> \in OpToRel(<, Nat)
  BY <1>2, SMTT(30) DEF OpToRel
<1> QED BY <1>1, <1>2, <1>3, <1>4, ZenonT(30)

\* What Append adds to the names of a sequence.
LEMMA AppendFresh ==
    ASSUME NEW T, NEW q \in Seq(T), NEW e \in T
    PROVE  /\ Append(q, e) \in Seq(T)
           /\ Range(Append(q, e)) = Range(q) \cup {e}
           /\ IsInjective(q) /\ e \notin Range(q) => IsInjective(Append(q, e))
<1>1. /\ Append(q, e) \in Seq(T) /\ DOMAIN Append(q, e) = 1..Len(q) + 1
      /\ \A k \in 1..Len(q) : Append(q, e)[k] = q[k]
      /\ Append(q, e)[Len(q) + 1] = e
      /\ Len(q) \in Nat /\ DOMAIN q = 1..Len(q)
  OBVIOUS
<1>2. Range(Append(q, e)) = Range(q) \cup {e}
  BY <1>1, SMTT(30) DEF Range
<1>3. ASSUME IsInjective(q), e \notin Range(q) PROVE IsInjective(Append(q, e))
  <2>1. \A k \in 1..Len(q) : q[k] # e
    BY <1>1, <1>3, Zenon DEF Range
  <2> QED BY <1>1, <1>3, <2>1, SMTT(30) DEF IsInjective
<1> QED BY <1>1, <1>2, <1>3, Zenon

\* The recursion has a solution.
LEMMA KeepingExists ==
    ASSUME NEW names, NEW S, NEW n \in Nat
    PROVE  \E f : Keeping(f, names, S, n)
<1> DEFINE K == {m \in Nat : \E f : Keeping(f, names, S, m)}
<1>1. 0 \in K
  <2>1. Keeping([i \in 0..0 |-> <<>>], names, S, 0)
    BY DEF Keeping
  <2> QED BY <2>1, Zenon
<1>2. ASSUME NEW m \in K PROVE m + 1 \in K
  <2>1. PICK f : Keeping(f, names, S, m)
    BY Zenon
  <2>2. PICK g : g = [i \in 0..m + 1 |-> IF i <= m THEN f[i]
                                         ELSE IF names[i] \in S THEN Append(f[m], names[i]) ELSE f[m]]
    BY ZenonT(30)
  <2>3. ASSUME NEW i \in 0..m + 1
        PROVE  g[i] = IF i = 0 THEN <<>>
                      ELSE IF names[i] \in S THEN Append(g[i - 1], names[i]) ELSE g[i - 1]
    <3>1. CASE i = m + 1
      <4>1. g[m] = f[m] /\ i # 0 /\ i - 1 = m /\ ~(i <= m)
        BY <2>2, <3>1, SMTT(30)
      <4> QED BY <2>2, <4>1, Zenon
    <3>2. CASE i <= m /\ i # 0
      <4>1. i \in 0..m /\ i - 1 \in 0..m
        BY <3>2, SMTT(30)
      <4>2. g[i] = f[i] /\ g[i - 1] = f[i - 1]
        BY <2>2, <4>1, SMTT(30)
      <4>3. f[i] = IF names[i] \in S THEN Append(f[i - 1], names[i]) ELSE f[i - 1]
        BY <2>1, <3>2, <4>1, ZenonT(30) DEF Keeping
      <4> QED BY <3>2, <4>2, <4>3, Zenon
    <3>3. CASE i = 0
      BY <2>1, <2>2, <3>3 DEF Keeping
    <3> QED BY <3>1, <3>2, <3>3, SMTT(30)
  <2>4. Keeping(g, names, S, m + 1)
    BY <2>2, <2>3, Zenon DEF Keeping
  <2> QED BY <2>4, SMTT(30)
<1>3. K = Nat
  <2> HIDE DEF K
  <2>1. K \in SUBSET Nat
    BY Zenon DEF K
  <2> QED BY <1>1, <1>2, <2>1, FromZeroOn, Zenon
<1> QED BY <1>3, Zenon

\* What retain leaves: the names of the sequence that are in the set, each
\* once if it was there once.
LEMMA OnlyKeeps ==
    ASSUME NEW T, NEW names \in Seq(T), NEW S
    PROVE  /\ RtOnly(names, S) \in Seq(T)
           /\ Range(RtOnly(names, S)) = Range(names) \cap S
           /\ IsInjective(names) => IsInjective(RtOnly(names, S))
<1> DEFINE n == Len(names)
<1>0. n \in Nat /\ DOMAIN names = 1..n /\ \A i \in 1..n : names[i] \in T
  BY SMTT(30)
<1>1. PICK f : f = CHOOSE g : Keeping(g, names, S, n)
  BY Zenon
<1>2. Keeping(f, names, S, n)
  BY <1>0, <1>1, KeepingExists, ZenonT(30)
<1>3. RtOnly(names, S) = f[n]
  BY <1>1, Zenon DEF RtOnly, Keeping
<1> DEFINE Good(i) ==
             /\ f[i] \in Seq(T)
             /\ Range(f[i]) = {names[j] : j \in 1..i} \cap S
             /\ IsInjective(names) => IsInjective(f[i])
           K == {i \in Nat : i <= n => Good(i)}
<1>4. 0 \in K
  <2>1. f[0] = <<>>
    BY <1>0, <1>2, SMTT(30) DEF Keeping
  <2>2. <<>> \in Seq(T) /\ Range(<<>>) = {} /\ IsInjective(<<>>)
    BY SMTT(30) DEF Range, IsInjective
  <2>3. {names[j] : j \in 1..0} = {}
    BY SMTT(30)
  <2>4. Good(0)
    BY <2>1, <2>2, <2>3, Zenon
  <2> QED BY <2>4, Zenon
<1>5. ASSUME NEW i \in K PROVE i + 1 \in K
  <2> SUFFICES ASSUME i + 1 <= n PROVE Good(i + 1)
    BY SMTT(30)
  <2>1. Good(i) /\ i + 1 \in 1..n /\ i \in 0..n
    BY <1>0, SMTT(30)
  <2>2. f[i + 1] = IF names[i + 1] \in S THEN Append(f[i], names[i + 1]) ELSE f[i]
    <3>1. i + 1 \in 0..n /\ i + 1 # 0 /\ (i + 1) - 1 = i
      BY <2>1
    <3>2. f[i + 1] = IF i + 1 = 0 THEN <<>>
                     ELSE IF names[i + 1] \in S THEN Append(f[(i + 1) - 1], names[i + 1])
                     ELSE f[(i + 1) - 1]
      BY <1>2, <3>1, ZenonT(30) DEF Keeping
    <3> QED BY <3>1, <3>2, Zenon
  <2>3. {names[j] : j \in 1..i + 1} = {names[j] : j \in 1..i} \cup {names[i + 1]}
    BY <2>1, SMTT(30)
  <2>4. CASE names[i + 1] \notin S
    BY <2>1, <2>2, <2>3, <2>4, Zenon
  <2>5. CASE names[i + 1] \in S
    <3>1. PICK q \in Seq(T) : q = f[i]
      BY <2>1, Zenon
    <3>2. PICK e \in T : e = names[i + 1]
      BY <1>0, <2>1, Zenon
    <3>3. f[i + 1] = Append(q, e)
      BY <2>2, <2>5, <3>1, <3>2, ZenonT(30)
    <3>4. Append(q, e) \in Seq(T) /\ Range(Append(q, e)) = Range(q) \cup {e}
      BY AppendFresh, SMTT(30)
    <3>6. IsInjective(names) => IsInjective(Append(q, e))
      <4> SUFFICES ASSUME IsInjective(names) PROVE IsInjective(Append(q, e))
        BY Zenon
      <4>1. e \notin {names[j] : j \in 1..i}
        BY <1>0, <2>1, <3>2 DEF IsInjective
      <4>2. e \notin Range(q)
        BY <2>1, <3>1, <4>1, Zenon
      <4>3. IsInjective(q)
        BY <2>1, <3>1, Zenon
      <4> QED BY <4>2, <4>3, AppendFresh, Zenon
    <3>7. Range(f[i + 1]) = {names[j] : j \in 1..i + 1} \cap S
      BY <2>1, <2>3, <2>5, <3>1, <3>2, <3>3, <3>4, Zenon
    <3> QED BY <3>3, <3>4, <3>6, <3>7, Zenon
  <2> QED BY <2>4, <2>5, Zenon
<1>6. n \in K
  <2> HIDE DEF K
  <2>1. K \in SUBSET Nat
    BY Zenon DEF K
  <2> QED BY <1>0, <1>4, <1>5, <2>1, FromZeroOn, Zenon
<1>7. Range(names) = {names[j] : j \in 1..n}
  BY <1>0, Zenon DEF Range
<1> QED BY <1>0, <1>3, <1>6, <1>7, SMTT(30)

\* One task at a time registers and unregisters.
RtSequential == \E w : RtWriters = {w}

\* The plugins that declare a capability.
Declare(c, plugins) == {n \in DOMAIN plugins : c \in plugins[n]}

\* Between the halves of a call only the plugin it is about is out of step:
\* the index has its old capabilities.
RtOwed(call, names, c) ==
    LET n == call.name IN
    /\ call.caps = IF n \in DOMAIN rtPlugins THEN rtPlugins[n] ELSE {}
    /\ names = (Declare(c, rtPlugins) \ {n}) \cup (IF c \in call.old THEN {n} ELSE {})

RtIndexInv ==
    /\ rtIndex \in [RtCaps -> Seq(RtNames)]
    /\ DOMAIN rtPlugins \subseteq RtNames
    /\ \A c \in RtCaps : IsInjective(rtIndex[c])
    /\ DOMAIN rtCall = RtWriters
    /\ \A w \in RtWriters :
          \/ rtCall[w] = RtIdle /\ \A c \in RtCaps : Range(rtIndex[c]) = Declare(c, rtPlugins)
          \/ /\ rtCall[w].op \in {"add", "remove"} /\ rtCall[w].name \in RtNames
             /\ \A c \in RtCaps : RtOwed(rtCall[w], Range(rtIndex[c]), c)

\* The second half brings one packet type into line.
LEMMA Reindexed ==
    ASSUME NEW names \in Seq(RtNames), IsInjective(names), NEW call, call.name \in RtNames,
           NEW c, NEW others, call.name \notin others,
           Range(names) = others \cup (IF c \in call.old THEN {call.name} ELSE {})
    PROVE  /\ RtNamesAfter(call, names, c) \in Seq(RtNames)
           /\ IsInjective(RtNamesAfter(call, names, c))
           /\ Range(RtNamesAfter(call, names, c)) =
                others \cup (IF c \in call.caps THEN {call.name} ELSE {})
<1>0. PICK n \in RtNames : n = call.name
  BY Zenon
<1>1. PICK kept : kept = IF c \in call.old THEN RtOnly(names, RtNames \ {n}) ELSE names
  BY Zenon
<1>2. kept \in Seq(RtNames) /\ IsInjective(kept) /\ Range(kept) = others
  <2>1. Range(names) \subseteq RtNames
    BY DEF Range
  <2>2. CASE c \in call.old
    <3>1. PICK r : r = RtOnly(names, RtNames \ {n})
      BY Zenon
    <3>2. r \in Seq(RtNames) /\ IsInjective(r) /\ Range(r) = Range(names) \cap (RtNames \ {n})
      BY <3>1, OnlyKeeps, Zenon
    <3>3. Range(names) \cap (RtNames \ {n}) = others
      BY <1>0, <2>1, <2>2, Zenon
    <3> QED BY <1>1, <2>2, <3>1, <3>2, <3>3, Zenon
  <2>3. CASE c \notin call.old
    BY <1>1, <2>3, Zenon
  <2> QED BY <2>2, <2>3, Zenon
<1>3. n \notin Range(kept)
  BY <1>0, <1>2, Zenon
<1>4. RtNamesAfter(call, names, c) = IF c \in call.caps THEN Append(kept, n) ELSE kept
  BY <1>0, <1>1, <1>3, Zenon DEF RtNamesAfter
<1>5. /\ Append(kept, n) \in Seq(RtNames) /\ IsInjective(Append(kept, n))
      /\ Range(Append(kept, n)) = others \cup {n}
  BY <1>2, <1>3, AppendFresh, SMTT(30)
<1> QED BY <1>0, <1>2, <1>4, <1>5, Zenon

\* A step registers or unregisters a plugin or leaves the registry alone.
LEMMA RegistryOrNot ==
    ASSUME [RtNext]_rtVars
    PROVE  \/ \E w \in RtWriters, n \in RtNames :
                 (\E caps \in SUBSET RtCaps : RtRegister(w, n, caps)) \/ RtUnregister(w, n)
           \/ \E w \in RtWriters : RtReindex(w)
           \/ UNCHANGED <<rtPlugins, rtIndex, rtCall>>
  BY Zenon DEF RtNext, RtRegistryNext, RtRouterNext, RtFanOut, rtVars, rtRegistry, RtHandlePacket,
         RtRouterRegister, RtRegisterDefault, RtRouterUnregister, RtRoute, RtRouteDefault,
         RtRunOne, RtReturn

\* Every step of the registry and of the router keeps the index.
LEMMA IndexStep ==
    ASSUME RtSequential, RtIndexInv, [RtNext]_rtVars
    PROVE  RtIndexInv'
<1>0. PICK w0 : RtWriters = {w0}
  BY Zenon DEF RtSequential
<1>1. ASSUME NEW w \in RtWriters, NEW n \in RtNames, NEW caps \in SUBSET RtCaps,
             RtRegister(w, n, caps)
      PROVE  RtIndexInv'
  <2>1. PICK call : call = [op |-> "add", name |-> n, caps |-> caps,
                            old |-> IF n \in DOMAIN rtPlugins THEN rtPlugins[n] ELSE {}]
    BY ZenonT(30)
  <2>2. rtCall'[w] = call /\ DOMAIN rtCall' = RtWriters
    BY <1>1, <2>1, Zenon DEF RtRegister, RtSet, RtIndexInv
  <2>3. /\ call.op = "add" /\ call.name = n /\ call.caps = caps
        /\ call.old = IF n \in DOMAIN rtPlugins THEN rtPlugins[n] ELSE {}
    BY <2>1, Zenon
  <2>4. /\ DOMAIN rtPlugins' = DOMAIN rtPlugins \cup {n} /\ rtPlugins'[n] = caps
        /\ \A m \in DOMAIN rtPlugins : m # n => rtPlugins'[m] = rtPlugins[m]
    BY <1>1, Zenon DEF RtRegister
  <2>5. \A c \in RtCaps : Range(rtIndex[c]) = Declare(c, rtPlugins)
    BY <1>0, <1>1, SMTT(30) DEF RtRegister, RtIndexInv, RtIdle
  <2>6. ASSUME NEW c \in RtCaps PROVE RtOwed(call, Range(rtIndex[c]), c)'
    <3>1. PICK names : names = Range(rtIndex[c])
      BY Zenon
    <3>2. UNCHANGED rtIndex /\ names = {m \in DOMAIN rtPlugins : c \in rtPlugins[m]}
      BY <1>1, <2>5, <3>1, Zenon DEF RtRegister, Declare
    <3>3. names = ({m \in DOMAIN rtPlugins' : c \in rtPlugins'[m]} \ {n}) \cup
                    (IF c \in call.old THEN {n} ELSE {})
      BY <2>3, <2>4, <3>2, Zenon
    <3> QED BY <2>3, <2>4, <3>1, <3>2, <3>3 DEF RtOwed, Declare, Range
  <2> QED BY <1>0, <1>1, <2>2, <2>3, <2>4, <2>6, Zenon DEF RtRegister, RtIndexInv
<1>2. ASSUME NEW w \in RtWriters, NEW n \in RtNames, RtUnregister(w, n)
      PROVE  RtIndexInv'
  <2>1. PICK call : call = [op |-> "remove", name |-> n, caps |-> {}, old |-> rtPlugins[n]]
    BY ZenonT(30)
  <2>2. rtCall'[w] = call /\ DOMAIN rtCall' = RtWriters
    BY <1>2, <2>1, Zenon DEF RtUnregister, RtSet, RtIndexInv
  <2>3. call.op = "remove" /\ call.name = n /\ call.caps = {} /\ call.old = rtPlugins[n]
    BY <2>1, Zenon
  <2>4. /\ n \in DOMAIN rtPlugins /\ DOMAIN rtPlugins' = DOMAIN rtPlugins \ {n}
        /\ \A m \in DOMAIN rtPlugins' : rtPlugins'[m] = rtPlugins[m]
    BY <1>2, Zenon DEF RtUnregister
  <2>5. \A c \in RtCaps : Range(rtIndex[c]) = Declare(c, rtPlugins)
    BY <1>0, <1>2, SMTT(30) DEF RtUnregister, RtIndexInv, RtIdle
  <2>6. ASSUME NEW c \in RtCaps PROVE RtOwed(call, Range(rtIndex[c]), c)'
    <3>1. PICK names : names = Range(rtIndex[c])
      BY Zenon
    <3>2. UNCHANGED rtIndex /\ names = {m \in DOMAIN rtPlugins : c \in rtPlugins[m]}
      BY <1>2, <2>5, <3>1, Zenon DEF RtUnregister, Declare
    <3>3. names = ({m \in DOMAIN rtPlugins' : c \in rtPlugins'[m]} \ {n}) \cup
                    (IF c \in call.old THEN {n} ELSE {})
      BY <2>3, <2>4, <3>2, Zenon
    <3> QED BY <2>3, <2>4, <3>1, <3>2, <3>3 DEF RtOwed, Declare, Range
  <2> QED BY <1>0, <1>2, <2>2, <2>3, <2>4, <2>6, Zenon DEF RtUnregister, RtIndexInv
<1>3. ASSUME NEW w \in RtWriters, RtReindex(w) PROVE RtIndexInv'
  <2>1. PICK call : call = rtCall[w]
    BY Zenon
  <2>2. call # RtIdle /\ rtCall'[w] = RtIdle /\ DOMAIN rtCall' = RtWriters /\ UNCHANGED rtPlugins
    BY <1>3, <2>1, Zenon DEF RtReindex, RtSet, RtIndexInv
  <2>3. call.name \in RtNames /\ \A c \in RtCaps : RtOwed(call, Range(rtIndex[c]), c)
    BY <2>1, <2>2, Zenon DEF RtIndexInv
  <2>4. DOMAIN rtIndex' = RtCaps
    BY <1>3, Zenon DEF RtReindex
  <2>5. ASSUME NEW c \in RtCaps
        PROVE  /\ rtIndex'[c] \in Seq(RtNames) /\ IsInjective(rtIndex'[c])
               /\ Range(rtIndex'[c]) = Declare(c, rtPlugins)
    <3>1. rtIndex'[c] = RtNamesAfter(call, rtIndex[c], c)
      BY <1>3, <2>1, Zenon DEF RtReindex
    <3>2. PICK others : others = Declare(c, rtPlugins) \ {call.name}
      BY Zenon
    <3>3. /\ Range(rtIndex[c]) = others \cup (IF c \in call.old THEN {call.name} ELSE {})
          /\ call.name \notin others
      BY <2>3, <3>2, Zenon DEF RtOwed
    <3>4. rtIndex[c] \in Seq(RtNames) /\ IsInjective(rtIndex[c])
      BY Zenon DEF RtIndexInv
    <3>5. /\ rtIndex'[c] \in Seq(RtNames) /\ IsInjective(rtIndex'[c])
          /\ Range(rtIndex'[c]) = others \cup (IF c \in call.caps THEN {call.name} ELSE {})
      <4>1. PICK names \in Seq(RtNames) : names = rtIndex[c]
        BY <3>4, Zenon
      <4>2. /\ IsInjective(names) /\ call.name \in RtNames /\ call.name \notin others
            /\ Range(names) = others \cup (IF c \in call.old THEN {call.name} ELSE {})
        BY <2>3, <3>3, <3>4, <4>1, Zenon
      <4>3. /\ RtNamesAfter(call, names, c) \in Seq(RtNames)
            /\ IsInjective(RtNamesAfter(call, names, c))
            /\ Range(RtNamesAfter(call, names, c)) =
                  others \cup (IF c \in call.caps THEN {call.name} ELSE {})
        BY <4>2, Reindexed, Zenon
      <4> QED BY <3>1, <4>1, <4>3, Zenon
    <3>6. Declare(c, rtPlugins) = others \cup (IF c \in call.caps THEN {call.name} ELSE {})
      BY <2>3, <3>2, Zenon DEF RtOwed, Declare
    <3> QED BY <3>5, <3>6, Zenon
  <2>6. rtIndex' \in [RtCaps -> Seq(RtNames)]
    BY <1>3, <2>4, <2>5, ZenonT(30) DEF RtReindex
  <2> QED BY <1>0, <2>2, <2>5, <2>6, Zenon DEF RtIndexInv
<1>4. CASE UNCHANGED <<rtPlugins, rtIndex, rtCall>>
  BY <1>4, Zenon DEF RtIndexInv, RtOwed
<1> QED BY <1>1, <1>2, <1>3, <1>4, RegistryOrNot, Zenon

\* The index names exactly the plugins that declare a packet type.
THEOREM IndexExact ==
    ASSUME RtSequential
    PROVE  RtSpec => []IndexIsExact
<1>1. RtInit => RtIndexInv
  <2> SUFFICES ASSUME RtInit PROVE RtIndexInv
    BY Zenon
  <2>1. ASSUME NEW c \in RtCaps
        PROVE  IsInjective(rtIndex[c]) /\ Range(rtIndex[c]) = Declare(c, rtPlugins)
    BY DEF RtInit, IsInjective, Range, Declare
  <2>2. rtIndex \in [RtCaps -> Seq(RtNames)]
    BY DEF RtInit
  <2> QED BY <2>1, <2>2, Zenon DEF RtInit, RtIndexInv
<1>2. RtIndexInv => IndexIsExact
  <2> SUFFICES ASSUME RtIndexInv, \A w \in RtWriters : rtCall[w] = RtIdle, NEW c \in RtCaps
               PROVE  /\ IsInjective(rtIndex[c])
                      /\ Range(rtIndex[c]) = {n \in DOMAIN rtPlugins : c \in rtPlugins[n]}
    BY Zenon DEF IndexIsExact
  <2>1. PICK w \in RtWriters : TRUE
    BY Zenon DEF RtSequential
  <2>2. rtCall[w] = RtIdle /\ rtCall[w].op \notin {"add", "remove"}
    BY DEF RtIdle
  <2> QED BY <2>1, <2>2, Zenon DEF RtIndexInv, Declare
<1> QED BY <1>1, <1>2, IndexStep, PTL DEF RtSpec

\* A packet under way has met every handler found for it that it has not
\* still to visit; an outcome of each handler run is on record.
RtFanInv ==
    /\ rtTodo \in Seq(RtNames)
    /\ rtFound = rtMet \cup Range(rtTodo)
    /\ rtOut = "none" => rtFound # {}
    /\ rtAnswers \in Nat /\ rtOk \in BOOLEAN /\ rtFailed \in BOOLEAN
    /\ rtAnswers > 0 => rtOk
    /\ rtMet # {} => rtOk \/ rtFailed
    /\ rtOut \in {"answers", "error", "nothing"} =>
          rtTodo = <<>> /\ (rtOut = "error" <=> ~rtOk)

\* The head of a sequence and its tail make up its names.
LEMMA HeadAndTail ==
    ASSUME NEW T, NEW q \in Seq(T), q # <<>>
    PROVE  /\ Head(q) \in T /\ Tail(q) \in Seq(T)
           /\ Range(q) = {Head(q)} \cup Range(Tail(q))
<1>1. /\ Head(q) = q[1] /\ q[1] \in T /\ Tail(q) \in Seq(T) /\ Len(q) \in Nat \ {0}
      /\ DOMAIN q = 1..Len(q) /\ DOMAIN Tail(q) = 1..Len(q) - 1
      /\ \A i \in 1..Len(q) - 1 : Tail(q)[i] = q[i + 1]
  OBVIOUS
<1>2. ASSUME NEW e \in Range(q) PROVE e \in {Head(q)} \cup Range(Tail(q))
  <2>1. PICK i \in 1..Len(q) : e = q[i]
    BY <1>1, Zenon DEF Range
  <2>2. CASE i # 1
    <3>1. i - 1 \in 1..Len(q) - 1 /\ (i - 1) + 1 = i
      BY <1>1, <2>2
    <3>2. Tail(q)[i - 1] = e
      BY <1>1, <2>1, <3>1, Zenon
    <3> QED BY <1>1, <3>1, <3>2, Zenon DEF Range
  <2> QED BY <1>1, <2>1, <2>2, Zenon
<1>3. ASSUME NEW e \in Range(Tail(q)) PROVE e \in Range(q)
  <2>1. PICK i \in 1..Len(q) - 1 : e = Tail(q)[i]
    BY <1>1, Zenon DEF Range
  <2>2. i + 1 \in 1..Len(q) /\ e = q[i + 1]
    BY <1>1, <2>1
  <2> QED BY <1>1, <2>2, Zenon DEF Range
<1>4. Head(q) \in Range(q)
  BY <1>1 DEF Range
<1> QED BY <1>1, <1>2, <1>3, <1>4, Zenon

\* An empty sequence names nothing, and only an empty one.
LEMMA NoNames ==
    ASSUME NEW T, NEW q \in Seq(T)
    PROVE  q = <<>> <=> Range(q) = {}
<1>1. Range(<<>>) = {}
  BY DEF Range
<1>2. q # <<>> => Range(q) # {}
  <2>1. q # <<>> => Head(q) \in Range(q)
    BY HeadAndTail, Zenon
  <2> QED BY <2>1, Zenon
<1> QED BY <1>1, <1>2, Zenon

\* The index, the calls and the router's handlers have their types.
RtTyped ==
    /\ rtHandlers \in [RtCaps -> Seq(RtNames)] /\ rtDefaults \in Seq(RtNames)
    /\ rtIndex \in [RtCaps -> Seq(RtNames)]
    /\ DOMAIN rtCall = RtWriters
    /\ \A w \in RtWriters : rtCall[w] # RtIdle => rtCall[w].name \in RtNames

\* Every step of the registry and of the router keeps the types.
LEMMA RtTypedStep ==
    ASSUME RtTyped, [RtNext]_rtVars
    PROVE  RtTyped'
<1>1. ASSUME NEW w \in RtWriters, NEW n \in RtNames,
             (\E caps \in SUBSET RtCaps : RtRegister(w, n, caps)) \/ RtUnregister(w, n)
      PROVE  RtTyped'
  BY <1>1 DEF RtTyped, RtRegister, RtUnregister, RtSet, rtRouter
<1>2. ASSUME NEW w \in RtWriters, RtReindex(w) PROVE RtTyped'
  <2>1. ASSUME NEW c \in RtCaps PROVE RtNamesAfter(rtCall[w], rtIndex[c], c) \in Seq(RtNames)
    <3>1. PICK names \in Seq(RtNames) : names = rtIndex[c]
      BY Zenon DEF RtTyped
    <3>2. PICK n \in RtNames : n = rtCall[w].name
      BY <1>2, Zenon DEF RtTyped, RtReindex
    <3>3. RtOnly(names, RtNames \ {n}) \in Seq(RtNames)
      BY OnlyKeeps, Zenon
    <3>4. \A kept \in Seq(RtNames) : Append(kept, n) \in Seq(RtNames)
      OBVIOUS
    <3> QED BY <3>1, <3>2, <3>3, <3>4, Zenon DEF RtNamesAfter
  <2>2. rtIndex' \in [RtCaps -> Seq(RtNames)]
    BY <1>2, <2>1, Zenon DEF RtReindex
  <2> QED BY <1>2, <2>2, Zenon DEF RtTyped, RtReindex, RtSet, rtRouter
<1>4. ASSUME NEW c \in RtCaps, NEW n \in RtNames, RtRouterRegister(c, n) PROVE RtTyped'
  <2>1. Append(rtHandlers[c], n) \in Seq(RtNames)
    BY DEF RtTyped
  <2> QED BY <1>4, <2>1, Zenon DEF RtTyped, RtRouterRegister, rtRegistry
<1>5. ASSUME NEW n \in RtNames, RtRegisterDefault(n) PROVE RtTyped'
  <2>1. Append(rtDefaults, n) \in Seq(RtNames)
    BY DEF RtTyped
  <2> QED BY <1>5, <2>1, Zenon DEF RtTyped, RtRegisterDefault, rtRegistry
<1>6. ASSUME NEW c \in RtCaps, RtRouterUnregister(c) PROVE RtTyped'
  <2>1. <<>> \in Seq(RtNames)
    OBVIOUS
  <2> QED BY <1>6, <2>1, Zenon DEF RtTyped, RtRouterUnregister, rtRegistry
<1>7. CASE UNCHANGED <<rtRegistry, rtRouter>>
  BY <1>7, Zenon DEF RtTyped, rtRegistry, rtRouter
<1> QED BY <1>1, <1>2, <1>4, <1>5, <1>6, <1>7, Zenon DEF RtNext, RtRegistryNext, RtRouterNext,
           RtFanOut, rtVars, RtHandlePacket, RtRoute, RtRouteDefault, RtRunOne, RtReturn

\* Every step of the router keeps the account of the packet.
LEMMA FanStep ==
    ASSUME RtFanInv, RtTyped, [RtNext]_rtVars
    PROVE  RtFanInv'
<1>1. ASSUME NEW found \in Seq(RtNames), RtBegin(found) PROVE RtFanInv'
  <2>4. /\ rtTodo' = found /\ rtFound' = Range(found) /\ rtMet' = {}
        /\ rtOk' = FALSE /\ rtFailed' = FALSE /\ rtAnswers' = 0
        /\ rtOut' = IF found = <<>> THEN "unhandled" ELSE "none"
    BY <1>1, Zenon DEF RtBegin
  <2>5. found # <<>> => Range(found) # {}
    BY NoNames, Zenon
  <2>6. rtFound' = rtMet' \cup Range(rtTodo')
    BY <2>4, Zenon
  <2>7. (rtOut' = "none" => rtFound' # {}) /\ rtOut' \in {"unhandled", "none"}
    BY <2>4, <2>5, Zenon
  <2>8. 0 \in Nat /\ ~(0 > 0)
    OBVIOUS
  <2> QED BY <2>4, <2>6, <2>7, <2>8, Zenon DEF RtFanInv, Range
<1>5. ASSUME NEW c \in RtCaps, RtHandlePacket(c) PROVE RtFanInv'
  <2>1. rtIndex[c] \in Seq(RtNames)
    BY Zenon DEF RtTyped
  <2>2. RtLookup(c) \in Seq(RtNames)
    BY <2>1, OnlyKeeps, Zenon DEF RtLookup
  <2> QED BY <1>1, <1>5, <2>2, Zenon DEF RtHandlePacket
<1>6. ASSUME NEW c \in RtCaps, RtRoute(c) PROVE RtFanInv'
  <2>1. rtHandlers[c] \in Seq(RtNames)
    BY Zenon DEF RtTyped
  <2>2. CASE rtHandlers[c] # <<>>
    BY <1>1, <1>6, <2>1, <2>2, Zenon DEF RtRoute
  <2>3. CASE rtHandlers[c] = <<>>
    BY <1>6, <2>3, Zenon DEF RtRoute, RtFanInv, Range
  <2> QED BY <2>2, <2>3, Zenon
<1>7. CASE RtRouteDefault
  BY <1>1, <1>7, Zenon DEF RtRouteDefault, RtTyped
<1>2. ASSUME NEW outcome \in {"answer", "ok", "error"}, RtRunOne(outcome) PROVE RtFanInv'
  <2>1. /\ Head(rtTodo) \in RtNames /\ rtTodo' \in Seq(RtNames)
        /\ Range(rtTodo) = {Head(rtTodo)} \cup Range(rtTodo')
    BY <1>2, HeadAndTail, Zenon DEF RtRunOne, RtFanInv
  <2>2. rtFound' = rtMet' \cup Range(rtTodo')
    BY <1>2, <2>1, Zenon DEF RtRunOne, RtFanInv
  <2>3. /\ rtAnswers' \in Nat /\ rtOk' \in BOOLEAN /\ rtFailed' \in BOOLEAN
        /\ (rtAnswers' > 0 => rtOk') /\ (rtOk' \/ rtFailed')
    <3>1. /\ rtOk' = (rtOk \/ outcome # "error") /\ rtFailed' = (rtFailed \/ outcome = "error")
          /\ rtAnswers' = rtAnswers + (IF outcome = "answer" THEN 1 ELSE 0)
      BY <1>2, Zenon DEF RtRunOne
    <3>2. rtAnswers \in Nat /\ (rtAnswers > 0 => rtOk)
      BY Zenon DEF RtFanInv
    <3>3. rtAnswers' \in Nat /\ (rtAnswers' > 0 => rtAnswers > 0 \/ outcome = "answer")
      BY <3>1, <3>2
    <3> QED BY <3>1, <3>2, <3>3, Zenon
  <2> QED BY <1>2, <2>1, <2>2, <2>3, Zenon DEF RtRunOne, RtFanInv, Range
<1>3. CASE RtReturn
  <2>1. rtMet # {}
    BY <1>3, NoNames, Zenon DEF RtReturn, RtFanInv
  <2> QED BY <1>3, <2>1, Zenon DEF RtReturn, RtFanInv, Range
<1>4. CASE UNCHANGED rtPacket
  BY <1>4, Zenon DEF RtFanInv, rtPacket, Range
<1> QED BY <1>2, <1>3, <1>4, <1>5, <1>6, <1>7, Zenon DEF RtNext, RtRegistryNext, RtRouterNext, RtFanOut,
           rtVars, RtRegister, RtUnregister, RtReindex, RtRouterRegister, RtRegisterDefault,
           RtRouterUnregister

\* A packet that has been routed has met every handler found for it.
THEOREM FanOutEnds == RtSpec => []FanOutComplete
<1>1. RtInit => RtTyped
  BY DEF RtInit, RtTyped
<1>2. RtInit => RtFanInv
  <2> SUFFICES ASSUME RtInit PROVE RtFanInv
    BY Zenon
  <2>1. Range(<<>>) = {} /\ <<>> \in Seq(RtNames)
    BY DEF Range
  <2>2. 0 \in Nat /\ ~(0 > 0)
    OBVIOUS
  <2> QED BY <2>1, <2>2, Zenon DEF RtInit, RtFanInv
<1>3. RtFanInv => FanOutComplete
  <2>1. Range(<<>>) = {}
    BY DEF Range
  <2> QED BY <2>1, Zenon DEF RtFanInv, FanOutComplete
<1> QED BY <1>1, <1>2, <1>3, RtTypedStep, FanStep, PTL DEF RtSpec

-----------------------------------------------------------------------------
(* The event stream of api/sse.rs. *)

\* What the argument needs of the types.
SseDataOK ==
    /\ sseState \in SseStates
    /\ ssePending \in [SseWriters -> SseStates \cup {SseNone}]
    /\ sseQueue \in Seq(SseStates) /\ Len(sseQueue) <= SseCapacity
    /\ sseNewest \in SseWriters \cup {SseNone}

\* ViewConverges with what makes it inductive: the latest change, as long as it
\* is not announced, carries the present state; once it is, and no older one came
\* behind it, the last event in the channel does, or else the client's view.
SseInv ==
    /\ SseDataOK
    /\ sseNewest # SseNone => ssePending[sseNewest] = sseState
    /\ sseNewest = SseNone /\ ~sseOvertaken /\ sseQueue # <<>>
         => sseQueue[Len(sseQueue)] = sseState
    /\ sseNewest = SseNone /\ ~sseOvertaken /\ ssePc = "live" /\ sseQueue = <<>> /\ ~sseDropped
         => sseView = sseState
    /\ ssePc = "off" => sseQueue = <<>>

\* What Append returns, for the channel's queue.
LEMMA AppendLast ==
    ASSUME NEW S, NEW q \in Seq(S), NEW e \in S
    PROVE  /\ Append(q, e) \in Seq(S)
           /\ Len(Append(q, e)) = Len(q) + 1
           /\ Append(q, e)[Len(q) + 1] = e
  OBVIOUS

\* broadcast puts the event at the end of the channel, dropping at most its
\* first one.
LEMMA SendAppends ==
    ASSUME SseDataOK, NEW event \in SseStates, SseSend(event)
    PROVE  \/ ssePc = "off" /\ UNCHANGED <<sseQueue, sseDropped>>
           \/ /\ ssePc # "off"
              /\ sseQueue' \in Seq(SseStates) /\ Len(sseQueue') \in 1..SseCapacity
              /\ sseQueue'[Len(sseQueue')] = event
<1>1. CASE ssePc = "off"
  BY <1>1, Zenon DEF SseSend
<1>2. CASE ssePc # "off" /\ Len(sseQueue) = SseCapacity
  <2>1. sseQueue' = Append(Tail(sseQueue), event) /\ sseDropped' = TRUE
    BY <1>2, Zenon DEF SseSend
  <2>2. Tail(sseQueue) \in Seq(SseStates) /\ Len(Tail(sseQueue)) = SseCapacity - 1
    BY <1>2, SseAssumption DEF SseDataOK
  <2>3. /\ Append(Tail(sseQueue), event) \in Seq(SseStates)
        /\ Len(Append(Tail(sseQueue), event)) = Len(Tail(sseQueue)) + 1
        /\ Append(Tail(sseQueue), event)[Len(Tail(sseQueue)) + 1] = event
    BY <2>2, AppendLast, Zenon
  <2>4. Len(Tail(sseQueue)) + 1 = SseCapacity /\ SseCapacity \in 1..SseCapacity
    BY <2>2, SseAssumption
  <2> QED
    BY <1>2, <2>1, <2>3, <2>4, Zenon
<1>3. CASE ssePc # "off" /\ Len(sseQueue) # SseCapacity
  <2>1. sseQueue' = Append(sseQueue, event) /\ sseDropped' = sseDropped
    BY <1>3, Zenon DEF SseSend
  <2>2. /\ Append(sseQueue, event) \in Seq(SseStates)
        /\ Len(Append(sseQueue, event)) = Len(sseQueue) + 1
        /\ Append(sseQueue, event)[Len(sseQueue) + 1] = event
    BY AppendLast, Zenon DEF SseDataOK
  <2>3. Len(sseQueue) + 1 \in 1..SseCapacity
    BY <1>3, SseAssumption, SMTT(30) DEF SseDataOK
  <2> QED
    BY <1>3, <2>1, <2>2, <2>3, Zenon
<1> QED
  BY <1>1, <1>2, <1>3, Zenon

\* The steps of the writers and of the client keep the invariant.
LEMMA SseStep ==
    ASSUME SseInv, [SseNext]_sseVars
    PROVE  SseInv'
<1> USE SseAssumption DEF SseInv, SseDataOK, sseGhosts
<1>1. ASSUME NEW w \in SseWriters, NEW s \in SseStates, SseChange(w, s)
      PROVE  SseInv'
  BY <1>1, Zenon DEF SseChange
<1>2. ASSUME NEW w \in SseWriters, SseAnnounce(w)
      PROVE  SseInv'
  <2>1. /\ ssePending[w] \in SseStates
        /\ sseNewest = w => ssePending[w] = sseState
        /\ ssePending' = [ssePending EXCEPT ![w] = SseNone]
        /\ UNCHANGED <<sseState, ssePc, sseView>>
    BY <1>2, Zenon DEF SseAnnounce
  <2>2. SseSend(ssePending[w])
    BY <1>2, Zenon DEF SseAnnounce
  <2>3. \/ ssePc = "off" /\ UNCHANGED <<sseQueue, sseDropped>>
        \/ /\ ssePc # "off"
           /\ sseQueue' \in Seq(SseStates) /\ Len(sseQueue') \in 1..SseCapacity
           /\ sseQueue'[Len(sseQueue')] = ssePending[w]
    BY <2>1, <2>2, SendAppends, Zenon
  <2>4. CASE sseNewest = w
    <3>1. sseNewest' = SseNone
      BY <1>2, <2>4, Zenon DEF SseAnnounce
    <3> QED
      BY <2>1, <2>3, <2>4, <3>1
  <2>5. CASE sseNewest # w
    <3>1. sseNewest' = sseNewest /\ (sseNewest = SseNone => sseOvertaken')
      BY <1>2, <2>5, Zenon DEF SseAnnounce
    <3>2. sseNewest # SseNone => ssePending'[sseNewest] = sseState
      BY <2>1, <2>5, Zenon
    <3> QED
      BY <2>1, <2>3, <3>1, <3>2
  <2> QED
    BY <2>4, <2>5, Zenon
<1>3. ASSUME SseSubscribe \/ SseSnapshot \/ SseClose
      PROVE  SseInv'
  <2>1. CASE SseSubscribe
    BY <2>1, Zenon DEF SseSubscribe
  <2>2. CASE SseSnapshot
    BY <2>2, Zenon DEF SseSnapshot
  <2>3. CASE SseClose
    BY <2>3, SMTT(30) DEF SseClose
  <2> QED
    BY <1>3, <2>1, <2>2, <2>3, Zenon
<1>4. ASSUME SseReceive
      PROVE  SseInv'
  <2>1. CASE sseDropped
    BY <1>4, <2>1, Zenon DEF SseReceive
  <2>2. CASE ~sseDropped
    BY <1>4, <2>2 DEF SseReceive
  <2> QED
    BY <2>1, <2>2, Zenon
<1>5. CASE UNCHANGED sseVars
  BY <1>5, Zenon DEF sseVars
<1> QED
  BY <1>1, <1>2, <1>3, <1>4, <1>5, Zenon DEF SseNext

\* A client of the event stream that has read everything shows the device's
\* true state, for any number of writers, any capacity of the channel and any
\* states, whenever it subscribed and however far it fell behind, unless an older
\* change was announced behind the latest one.
THEOREM ViewFollows == SseSpec => []ViewConverges
<1>1. SseInit => SseInv
  BY SseAssumption DEF SseInit, SseInv, SseDataOK
<1>2. SseInv /\ [SseNext]_sseVars => SseInv'
  BY SseStep, Zenon
<1>3. SseInv => ViewConverges
  BY SseAssumption, Zenon DEF SseInv, SseDataOK, ViewConverges
<1> QED
  BY <1>1, <1>2, <1>3, PTL DEF SseSpec

-----------------------------------------------------------------------------
(* The cookies of plugins/screensaver_inhibit.rs. *)

\* CookiesAccounted with what makes it inductive: the slot's cookie is the one
\* of its generation, and that generation has no answer to come.
CookieInv ==
    /\ InhTypeOK
    /\ inhCalls \cap inhGranted = {}
    /\ inhState = "Inhibited" => /\ inhGen > 0 /\ inhCookie = inhGen
                                 /\ inhGen \notin inhCalls \cup inhGranted
    /\ CookiesAccounted

\* on_connected and on_disconnected take the slot's cookie to release it.
LEMMA NoticeKeepsCookies ==
    ASSUME CookieInv, InhOnConnected \/ InhOnDisconnected
    PROVE  CookieInv'
<1> USE DEF CookieInv, InhTypeOK
<1>1. CookiesAccounted'
  BY Zenon DEF CookiesAccounted, InhTaken, InhOnConnected, InhOnDisconnected
<1>2. inhGen' = inhGen + 1 /\ inhCookie' = 0 /\ inhState' \in {"Idle", "Inhibiting"}
  BY Zenon DEF InhOnConnected, InhOnDisconnected
<1>3. /\ inhCalls' \subseteq inhCalls \cup {inhGen + 1} /\ inhGranted' = inhGranted
      /\ inhReleasing' \subseteq inhReleasing \cup InhTaken
      /\ inhBus' = inhBus /\ inhLost' = inhLost
  BY Zenon DEF InhOnConnected, InhOnDisconnected
<1>4. InhTaken \subseteq 1..inhGen
  <2>1. CASE inhState = "Inhibited"
    BY <2>1 DEF InhTaken
  <2>2. CASE inhState # "Inhibited"
    BY <2>2, Zenon DEF InhTaken
  <2> QED
    BY <2>1, <2>2, Zenon
<1>5. 1..inhGen \subseteq 1..(inhGen + 1) /\ inhGen + 1 \notin 1..inhGen
  OBVIOUS
<1>6. InhTypeOK'
  <2>1. inhCalls' \cup inhGranted' \cup inhReleasing' \cup inhBus' \cup inhLost' \subseteq 1..(inhGen + 1)
    <3>1. inhCalls' \cup inhGranted' \cup inhReleasing' \cup inhBus' \cup inhLost'
            \subseteq 1..inhGen \cup {inhGen + 1}
      <4> HIDE DEF CookieInv
      <4>1. inhCalls \cup inhGranted \cup inhReleasing \cup inhBus \cup inhLost \subseteq 1..inhGen
        BY Zenon DEF CookieInv
      <4> QED
        BY <1>3, <1>4, <4>1, Zenon
    <3> QED
      BY <3>1, <1>5
  <2> QED
    BY <1>2, <2>1
<1>7. inhCalls' \cap inhGranted' = {}
  BY <1>3, <1>5, Zenon
<1> QED
  BY <1>1, <1>2, <1>6, <1>7, Zenon

\* An answer is stored or released by the task that waited for it.
LEMMA TaskKeepsCookies ==
    ASSUME CookieInv, InhTasks
    PROVE  CookieInv'
<1> USE DEF CookieInv, InhTypeOK, CookiesAccounted, InhTaken
<1>1. ASSUME NEW g \in inhCalls, InhGrant(g)
      PROVE  CookieInv'
  BY <1>1 DEF InhGrant
<1>2. ASSUME NEW g \in inhGranted, InhDecide(g)
      PROVE  CookieInv'
  BY <1>2 DEF InhDecide
<1>3. ASSUME NEW c \in inhReleasing, InhRelease(c)
      PROVE  CookieInv'
  BY <1>3, Zenon DEF InhRelease
<1> QED
  BY <1>1, <1>2, <1>3, Zenon DEF InhTasks

\* No order of connect and disconnect notices, late answers and failing releases
\* loses a cookie of the screensaver service, for any number of notices.
THEOREM NoCookieLost == InhSpec => []CookiesAccounted
<1>1. InhInit => CookieInv
  BY DEF InhInit, CookieInv, InhTypeOK, CookiesAccounted, InhTaken
<1>2. CookieInv /\ UNCHANGED inhVars => CookieInv'
  BY Zenon DEF inhVars, CookieInv, InhTypeOK, CookiesAccounted, InhTaken
<1>3. CookieInv /\ [InhNext]_inhVars => CookieInv'
  BY <1>2, NoticeKeepsCookies, TaskKeepsCookies, Zenon DEF InhNext
<1>4. CookieInv => CookiesAccounted
  BY Zenon DEF CookieInv
<1> QED
  BY <1>1, <1>3, <1>4, PTL DEF InhSpec

-----------------------------------------------------------------------------
(* The pending-dial marker of services/connection_orchestrator.rs. *)

\* OneMarkedDial without counting: the tasks that dial are all the same one,
\* and the marker tells whether there is one.  The API and the listener, which
\* do not look at the marker, have no reconnect loop to come to it by.
MarkInv ==
    /\ dialTry \in [DialAll -> Nat]
    /\ \A t \in DialOthers : dialTry[t] = 0 /\ dialPc[t] \in {"idle", "dial", "setup", "up"}
    /\ dialPc \in [DialAll -> {"idle", "mark", "dial", "setup", "up", "backoff"}]
    /\ \A t, u \in DialTasks : dialPc[t] = "dial" /\ dialPc[u] = "dial" => t = u
    /\ dialPending <=> \E t \in DialTasks : dialPc[t] = "dial"

\* A task that neither begins nor ends a dial leaves the invariant alone.
LEMMA MarkAway ==
    ASSUME MarkInv, NEW t \in DialAll, dialPc[t] # "dial", UNCHANGED dialPending,
           DialEnded(t) \/ (UNCHANGED dialTry /\ (DialGo(t, "up") \/ DialGo(t, "idle")))
    PROVE  MarkInv'
<1> USE DialAssumption DEF MarkInv, DialAll, DialGo
<1>1. CASE DialEnded(t)
  <2>1. CASE dialStop
    BY <1>1, <2>1 DEF DialEnded
  <2>2. CASE ~dialStop /\ t \in DialTasks /\ dialTry[t] = 0 /\ dialPaired
    BY <1>1, <2>2 DEF DialEnded
  <2>3. CASE DialNextTry(t)
    BY <2>3 DEF DialNextTry
  <2> QED
    BY <1>1, <2>1, <2>2, <2>3, Zenon DEF DialEnded
<1>2. CASE UNCHANGED dialTry /\ (DialGo(t, "up") \/ DialGo(t, "idle"))
  BY <1>2
<1> QED
  BY <1>1, <1>2, Zenon

\* The steps of a task other than DialMark neither set the marker nor begin a
\* dial that needs it, and one that ends such a dial clears it.
LEMMA MarkStep ==
    ASSUME MarkInv, NEW t \in DialAll,
           DialTask(t) \/ DialDrops(t) \/ DialReturns(t) \/ DialOther(t) \/ DialUnset(t)
    PROVE  MarkInv'
<1>1. CASE DialDrops(t) \/ DialReturns(t) \/ DialUnset(t) \/ DialSetup(t)
  BY <1>1, MarkAway, Zenon DEF DialDrops, DialReturns, DialUnset, DialSetup
<1> USE DialAssumption DEF MarkInv, DialAll, DialGo
<1>2. CASE DialMark(t)
  BY <1>2 DEF DialMark, DialNextTry
<1>3. CASE DialOk(t)
  BY <1>3, Zenon DEF DialOk
<1>4. CASE DialFail(t)
  BY <1>4 DEF DialFail, DialNextTry
<1>5. CASE DialStopped(t)
  BY <1>5, Zenon DEF DialStopped
<1>6. CASE DialBackoff(t)
  BY <1>6, SMTT(30) DEF DialBackoff
<1>8. CASE DialOther(t)
  BY <1>8 DEF DialOther
<1> QED
  BY <1>1, <1>2, <1>3, <1>4, <1>5, <1>6, <1>8, ZenonT(30) DEF DialTask

\* Announcements and reconnect loops never dial a device at the same time, and
\* the marker is set exactly while one of them does, for any number of tasks
\* and attempts.
THEOREM MarkedDialsExclude == DialSpec => []OneMarkedDial
<1>1. DialInit => MarkInv
  BY DialAssumption DEF DialInit, MarkInv, DialAll
<1>2. MarkInv /\ [DialNext]_dialVars => MarkInv'
  <2> SUFFICES ASSUME MarkInv, [DialNext]_dialVars
               PROVE  MarkInv'
    BY Zenon
  <2>1. ASSUME NEW t \in DialTasks, NEW kind, NEW older, DialHeard(t, kind, older)
        PROVE  MarkInv'
    BY <2>1, DialAssumption, Zenon DEF MarkInv, DialHeard, DialGo, DialAll
  <2>2. CASE DialUnpair \/ DialShutdown \/ DialClose \/ UNCHANGED dialVars
    BY <2>2 DEF MarkInv, DialUnpair, DialShutdown, DialClose, dialVars
  <2> QED
    BY <2>1, <2>2, MarkStep, Zenon DEF DialNext
<1>3. MarkInv => OneMarkedDial
  <2> SUFFICES ASSUME MarkInv
               PROVE  OneMarkedDial
    BY Zenon
  <2> DEFINE dials == {t \in DialTasks : dialPc[t] = "dial"}
  <2>1. dialPending <=> dials # {}
    BY Zenon DEF MarkInv
  <2>2. Cardinality(dials) <= 1
    <3>1. CASE dials = {}
      BY <3>1, FS_EmptySet
    <3>2. CASE dials # {}
      <4> PICK t : t \in dials
        BY <3>2, Zenon
      <4>1. dials = {t}
        BY Zenon DEF MarkInv
      <4>2. Cardinality({t}) = 1
        BY FS_Singleton, Zenon
      <4> HIDE DEF dials
      <4> QED
        BY <4>1, <4>2
    <3> QED
      BY <3>1, <3>2, Zenon
  <2> QED
    BY <2>1, <2>2, Zenon DEF OneMarkedDial
<1> QED
  BY <1>1, <1>2, <1>3, PTL DEF DialSpec
-----------------------------------------------------------------------------
(* The limiter and the paged list of the REST interface. *)

\* What the argument needs of the types: a window has a start and a count, a
\* refusal a time, neither later than now.
LimiterOK ==
    /\ apiClock \in Nat
    /\ apiBuckets \in [ApiClients -> {<<>>} \cup (0..apiClock) \X Nat]
    /\ apiRefused \in [ApiClients -> {<<>>} \cup {<<n>> : n \in 0..apiClock}]

\* A client that is being refused has a window no younger than its first
\* refusal: rate_limiter never moves the start of an open window.
LimiterInv ==
    /\ LimiterOK
    /\ \A c \in ApiClients :
          apiBuckets[c] # <<>> /\ apiRefused[c] # <<>> => apiBuckets[c][1] <= apiRefused[c][1]

\* The invariant and the promise of the 429 answer: after a window's length
\* the next request opens a new window.
LEMMA WindowEnds ==
    ASSUME LimiterInv
    PROVE  RetryAfterHolds
<1> SUFFICES ASSUME NEW c \in ApiClients,
                    apiRefused[c] # <<>>, apiClock - apiRefused[c][1] >= ApiWindow
             PROVE  rate_limiter(c)[2] <= ApiLimit
  BY Zenon DEF RetryAfterHolds
<1>1. PICK n \in 0..apiClock : apiRefused[c] = <<n>>
  BY Zenon DEF LimiterInv, LimiterOK
<1>2. ~ApiWindowOpen(c)
  <2> SUFFICES ASSUME apiBuckets[c] # <<>>
               PROVE  ~(apiClock - apiBuckets[c][1] < ApiWindow)
    BY Zenon DEF ApiWindowOpen
  <2>1. apiBuckets[c][1] \in 0..apiClock /\ apiBuckets[c][1] <= n
    <3>1. apiBuckets[c] \in (0..apiClock) \X Nat /\ apiBuckets[c][1] <= apiRefused[c][1]
      BY Zenon DEF LimiterInv, LimiterOK
    <3>2. apiBuckets[c][1] \in 0..apiClock
      BY <3>1, Zenon
    <3>3. apiRefused[c][1] = n
      BY <1>1
    <3> QED BY <3>1, <3>2, <3>3, Zenon
  <2> QED
    BY <1>1, <2>1, ApiAssumption DEF LimiterInv, LimiterOK
<1>3. rate_limiter(c) = <<apiClock, 1>>
  BY <1>2, Zenon DEF rate_limiter
<1> QED
  BY <1>3, ApiAssumption

\* A request is refused only inside an open window, whose start stays.
LEMMA RequestKeepsWindow ==
    ASSUME LimiterInv, NEW c \in ApiClients, NEW e, ApiRequest(c, e)
    PROVE  LimiterInv'
<1> DEFINE bucket == rate_limiter(c)
<1>1. CASE ~apiLimited
  BY <1>1, Zenon DEF ApiRequest, LimiterInv, LimiterOK
<1>2. CASE apiLimited
  <2>1. /\ apiBuckets' = [apiBuckets EXCEPT ![c] = bucket]
        /\ apiClock' = apiClock
    BY <1>2, Zenon DEF ApiRequest
  <2>2. \/ bucket[2] > ApiLimit /\ apiRefused' =
              [apiRefused EXCEPT ![c] = IF apiRefused[c] = <<>> THEN <<apiClock>> ELSE apiRefused[c]]
        \/ apiRefused' = [apiRefused EXCEPT ![c] = <<>>]
    BY <1>2, Zenon DEF ApiRequest
  <2>3. CASE ApiWindowOpen(c)
    <3>1. /\ apiBuckets[c] \in (0..apiClock) \X Nat
          /\ bucket = <<apiBuckets[c][1], Least(apiBuckets[c][2] + 1, ApiLimit + 1)>>
      BY <2>3, Zenon DEF ApiWindowOpen, rate_limiter, LimiterInv, LimiterOK
    <3>2. Least(apiBuckets[c][2] + 1, ApiLimit + 1) \in Nat
      BY <3>1, ApiAssumption, SMTT(30) DEF Least
    <3>3. bucket \in (0..apiClock) \X Nat /\ bucket[1] = apiBuckets[c][1]
      BY <3>1, <3>2
    <3>4. apiBuckets[c] # <<>>
      BY <2>3, Zenon DEF ApiWindowOpen
    <3> HIDE DEF bucket
    <3> QED
      BY <2>1, <2>2, <3>1, <3>3, <3>4, SMTT(30) DEF LimiterInv, LimiterOK
  <2>4. CASE ~ApiWindowOpen(c)
    <3>1. bucket = <<apiClock, 1>>
      BY <2>4, Zenon DEF rate_limiter
    <3>2. apiRefused' = [apiRefused EXCEPT ![c] = <<>>]
      BY <2>2, <3>1, ApiAssumption
    <3> QED
      BY <2>1, <3>1, <3>2, SMTT(30) DEF LimiterInv, LimiterOK
  <2> QED
    BY <2>3, <2>4, Zenon
<1> QED
  BY <1>1, <1>2, Zenon

\* No client of the REST interface is refused for a window on end, not even one
\* that keeps asking, for any limit, window and number of clients.
THEOREM RefusalsEnd == ApiSpec => []RetryAfterHolds
<1>1. ApiInit => LimiterInv
  BY DEF ApiInit, LimiterInv, LimiterOK
<1>2. LimiterInv /\ [ApiNext]_apiVars => LimiterInv'
  <2> SUFFICES ASSUME LimiterInv, [ApiNext]_apiVars
               PROVE  LimiterInv'
    BY Zenon
  <2>1. CASE ApiTick
    BY <2>1, SMTT(30) DEF ApiTick, LimiterInv, LimiterOK
  <2>2. ASSUME NEW c \in ApiClients, ApiForget(c)
        PROVE  LimiterInv'
    BY <2>2, Zenon DEF ApiForget, LimiterInv, LimiterOK
  <2>3. CASE ApiLink \/ auth_middleware \/ ApiStep \/ ApiList \/ UNCHANGED apiVars
    <3>1. UNCHANGED <<apiClock, apiBuckets, apiRefused>>
      BY <2>3, Zenon DEF ApiLink, auth_middleware, ApiStep, ApiList, apiVars
    <3> QED
      BY <3>1, Zenon DEF LimiterInv, LimiterOK
  <2> QED
    BY <2>1, <2>2, <2>3, RequestKeepsWindow, Zenon DEF ApiNext
<1> QED
  BY <1>1, <1>2, WindowEnds, PTL DEF ApiSpec

\* The saturating arithmetic of render_device_list cuts exactly the page out of
\* the list: an offset or an end too large for a usize lies past every list.
LEMMA PageOfList ==
    ASSUME NEW page \in ApiPages, NEW limit \in ApiPages, NEW total \in 0..ApiListed
    PROVE  render_device_list(page, limit, total) =
              {i \in 0..(total - 1) : /\ i >= ApiPred(page) * limit
                                      /\ i < (ApiPred(page) + 1) * limit}
<1>1. ApiPred(page) \in Nat /\ limit \in Nat
  BY ApiAssumption DEF ApiPred, ApiPages
<1>2. /\ ApiPred(page) * limit \in Nat
      /\ (ApiPred(page) + 1) * limit = ApiPred(page) * limit + limit
  BY <1>1
<1>3. ASSUME NEW off \in Nat
      PROVE  LET start == Least(Saturated(off), total)
                 end == Least(Saturated(start + limit), total)
             IN start..(end - 1) = {i \in 0..(total - 1) : i >= off /\ i < off + limit}
  BY <1>1, ApiAssumption DEF Least, Saturated
<1> QED
  BY <1>2, <1>3, Zenon DEF render_device_list, ApiStart

\* A page of the device list holds exactly the entries that lie on it, for every
\* page and limit a usize can hold and lists of any length.
THEOREM PagesCutRight == ApiSpec => []PageIsSlice
<1>1. ApiInit => PageIsSlice
  BY DEF ApiInit, PageIsSlice, NoPage
<1>2. PageIsSlice /\ [ApiNext]_apiVars => PageIsSlice'
  <2> SUFFICES ASSUME PageIsSlice, [ApiNext]_apiVars
               PROVE  PageIsSlice'
    BY Zenon
  <2>1. CASE ApiList
    <3>1. PICK page \in ApiPages, limit \in ApiPages, total \in 0..ApiListed :
             apiPage' = [page |-> page, limit |-> limit, total |-> total,
                         shown |-> render_device_list(page, limit, total)]
      BY <2>1, Zenon DEF ApiList
    <3>2. /\ apiPage'.page = page /\ apiPage'.limit = limit /\ apiPage'.total = total
          /\ apiPage'.shown = render_device_list(page, limit, total)
      BY <3>1, Zenon
    <3>3. render_device_list(page, limit, total) =
             {i \in 0..(total - 1) : /\ i >= ApiPred(page) * limit
                                     /\ i < (ApiPred(page) + 1) * limit}
      BY PageOfList, ZenonT(30)
    <3> QED
      BY <3>2, <3>3, ZenonT(30) DEF PageIsSlice, ApiPred
  <2>2. ASSUME NEW c \in ApiClients, NEW e, ApiRequest(c, e)
        PROVE  PageIsSlice'
    <3>1. apiPage' = NoPage
      BY <2>2, Zenon DEF ApiRequest
    <3>2. apiPage'.shown = {} /\ apiPage'.total = 0
      BY <3>1, Zenon DEF NoPage
    <3>3. 0..(apiPage'.total - 1) = {}
      BY <3>2, SMTT(30)
    <3> QED
      BY <3>2, <3>3, Zenon DEF PageIsSlice
  <2>3. ASSUME UNCHANGED apiPage
        PROVE  PageIsSlice'
    BY <2>3, Zenon DEF PageIsSlice
  <2>4. ASSUME NEW c \in ApiClients, ApiForget(c)
        PROVE  UNCHANGED apiPage
    BY <2>4, Zenon DEF ApiForget
  <2>5. CASE ApiTick \/ ApiLink \/ auth_middleware \/ ApiStep \/ UNCHANGED apiVars
    BY <2>3, <2>5, Zenon DEF ApiTick, ApiLink, auth_middleware, ApiStep, apiVars
  <2> QED
    BY <2>1, <2>2, <2>3, <2>4, <2>5, Zenon DEF ApiNext
<1> QED
  BY <1>1, <1>2, PTL DEF ApiSpec

-----------------------------------------------------------------------------
(* The notices to the plugins: what a device sent is given up when it is   *)
(* gone. *)

NtcLabels == {"new", "evict", "insert", "setup", "loop", "handler", "guard", "notify",
              "done", "cut"}

\* The link in the slot is the one that took it last, and that one's task has not
\* begun to give notice; the task of the link whose packet wrote plugin state has its
\* notice still to give or ended without, or so does the task of the last link.
NtcInv ==
    /\ ntcTask \in [NtcSessions -> NtcLabels]
    /\ {ntcLink, ntcLast, ntcHeld} \subseteq NtcSessions \cup {0}
    /\ ntcLast # 0 => ntcTask[ntcLast] \notin {"new", "insert"}
    /\ ntcLink # 0 => /\ ntcLink = ntcLast
                      /\ ntcTask[ntcLast] \notin {"done", "guard", "notify"}
    /\ ntcHeld # 0 => \/ ntcTask[ntcHeld] \in {"loop", "handler", "guard", "notify", "cut"}
                      \/ ntcLast # 0 /\ ntcTask[ntcLast] # "done"

\* Sessions are numbered from 1.
LEMMA SessionNumbers == 0 \notin NtcSessions
<1>1. PICK n \in Nat : NtcSessions = 1..n
  BY NtcAssumption, FS_CardinalityType, Zenon
<1> QED BY <1>1, SMT

\* The invariant is kept by every step of the links, their init tasks and the API.
LEMMA NtcStep ==
    ASSUME NtcInv, [NtcNext]_ntcVars
    PROVE  NtcInv'
<1> USE SessionNumbers DEF NtcInv, NtcLabels, NtcGo, ntcSlot, ntcDevice
<1>1. ASSUME NEW s \in NtcSessions, NtcAccept(s) \/ NtcInsert(s) PROVE NtcInv'
  BY <1>1, SMTT(30) DEF NtcAccept, NtcInsert, NtcTakes, NtcNew
<1>2. ASSUME NEW s \in NtcSessions, NtcDial(s) PROVE NtcInv'
  BY <1>2, SMTT(30) DEF NtcDial, NtcNew
<1>3. ASSUME NEW s \in NtcSessions, NtcEvict(s) \/ NtcAbandoned(s) \/ NtcReceive(s) PROVE NtcInv'
  BY <1>3, SMTT(30) DEF NtcEvict, NtcAbandoned, NtcReceive
<1>4. ASSUME NEW s \in NtcSessions, NtcRegister(s) PROVE NtcInv'
  BY <1>4, SMTT(30) DEF NtcRegister
<1>5. ASSUME NEW s \in NtcSessions, NtcPacket(s) PROVE NtcInv'
  BY <1>5, SMTT(30) DEF NtcPacket
<1>6. ASSUME NEW s \in NtcSessions, NtcLoopEnds(s) PROVE NtcInv'
  BY <1>6, SMTT(30) DEF NtcLoopEnds, NtcOwns, NtcFree
<1>7. ASSUME NEW s \in NtcSessions, NtcLoopCut(s) PROVE NtcInv'
  BY <1>7, SMTT(30) DEF NtcLoopCut, NtcFree
<1>8. ASSUME NEW s \in NtcSessions, NtcGuard(s) PROVE NtcInv'
  BY <1>8, SMTT(30) DEF NtcGuard, NtcStandsDown
<1>9. ASSUME NEW s \in NtcSessions, NtcNotify(s) PROVE NtcInv'
  BY <1>9, SMTT(30) DEF NtcNotify, NtcDispatch
<1>10. ASSUME NEW s \in NtcSessions, NtcInitStart(s) \/ NtcInitNotify(s) \/ NtcInitSend(s)
       PROVE  NtcInv'
  BY <1>10, Zenon DEF NtcInitStart, NtcInitNotify, NtcInitSend, ntcTasks
<1>11. CASE NtcSendFails \/ NtcApiTearDown
  BY <1>11, Zenon DEF NtcSendFails, NtcApiTearDown, NtcFree, ntcTasks
<1>12. CASE NtcApiLookup \/ NtcApiGuard \/ NtcApiNotify \/ NtcApiUnpaired
  BY <1>12, Zenon DEF NtcApiLookup, NtcApiGuard, NtcApiNotify, NtcDispatch, NtcApiUnpaired, ntcTasks
<1>13. CASE UNCHANGED ntcVars
  BY <1>13, Zenon DEF ntcVars, ntcTasks
<1> HIDE DEF NtcInv
<1> QED BY <1>1, <1>2, <1>3, <1>4, <1>5, <1>6, <1>7, <1>8, <1>9, <1>10, <1>11, <1>12, <1>13,
           ZenonT(30) DEF NtcNext

\* What a device has sent goes with its last link, for any number of links, tasks
\* and API calls, unless a loop that matters ended at an arm without a notice.
THEOREM StateGoes == NtcSpec => []StateGoesWithSession
<1>1. NtcInit => NtcInv
  BY Zenon DEF NtcInit, NtcInv, NtcLabels
<1>2. NtcInv => StateGoesWithSession
  BY SessionNumbers, SMTT(30) DEF NtcInv, StateGoesWithSession, NtcQuiet
<1> QED BY <1>1, <1>2, NtcStep, PTL DEF NtcSpec

-----------------------------------------------------------------------------
(* The text messages kept of a phone (plugins/sms.rs).                     *)

\* The greatest of a set of numbers with a bound.
LEMMA PdGreatest ==
    ASSUME NEW S \in SUBSET Nat, S # {}, NEW b \in Nat, \A m \in S : m <= b
    PROVE  Max(S) \in S /\ \A m \in S : Max(S) >= m
<1> DEFINE B == {n \in Nat : \A m \in S : m <= n}
<1>1. b \in B
  BY Zenon
<1>2. PICK n \in B : \A k \in B : ~(<<k, n>> \in OpToRel(<, Nat))
  <2>1. B \in SUBSET Nat /\ B # {}
    BY <1>1, Zenon
  <2> HIDE DEF B
  <2> QED BY <2>1, NatLessThanWellFounded, WFMin, Zenon
<1>3. n \in Nat /\ \A m \in S : m <= n
  BY <1>2, Zenon
<1>4. n \in S
  <2> SUFFICES ASSUME n \notin S PROVE FALSE
    BY Zenon
  <2>1. \A m \in S : m \in Nat /\ m <= n /\ m # n
    BY <1>3, Zenon
  <2>2. PICK s \in S : TRUE
    BY Zenon
  <2>3. s \in Nat /\ s <= n /\ s # n
    BY <2>1, <2>2, Zenon
  <2>4. n # 0 /\ n - 1 \in Nat
    BY <1>3, <2>3
  <2>5. ASSUME NEW m \in S PROVE m <= n - 1
    <3>1. m \in Nat /\ m <= n /\ m # n
      BY <2>1, Zenon
    <3> QED BY <1>3, <3>1
  <2>6. n - 1 \in B
    BY <2>4, <2>5, Zenon
  <2>7. <<n - 1, n>> \in OpToRel(<, Nat)
    BY <1>3, <2>4 DEF OpToRel
  <2> QED BY <1>2, <2>6, <2>7, Zenon
<1>5. \A m \in S : n >= m
  <2> SUFFICES ASSUME NEW m \in S PROVE n >= m
    BY Zenon
  <2>1. m \in Nat /\ m <= n
    BY <1>3, Zenon
  <2> QED BY <1>3, <2>1, Zenon
<1> QED BY <1>4, <1>5, Zenon DEF Max

PdShapes ==
    /\ pdThreads \in [PdDevices -> [PdThreads -> Seq(Nat)]]
    /\ \A d \in PdDevices, t \in PdThreads : Len(pdThreads[d][t]) <= PdMaxMessages
    /\ pdNewest \in [PdDevices -> Nat]
    /\ pdUp \subseteq PdDevices

\* Of a device's threads no message is newer than n, and if n is a date at all, one
\* thread and no other has a message of that date.
PdHolds(threads, n) ==
    /\ \A t \in PdThreads : \A m \in Range(threads[t]) : m <= n
    /\ n # 0 => \E t \in PdThreads : /\ n \in Range(threads[t])
                                     /\ \A u \in PdThreads \ {t} : n \notin Range(threads[u])

PdInv ==
    /\ PdShapes
    /\ \A d \in PdDevices \ pdLossy : PdHolds(pdThreads[d], pdNewest[d])

\* What is in a thread: numbers, nothing in an empty one, one more after Append.
LEMMA PdContents ==
    ASSUME NEW s \in Seq(Nat)
    PROVE  /\ Range(s) \subseteq Nat /\ (s # <<>> => Range(s) # {})
           /\ Range(<<>>) = {}
           /\ \A m \in Nat : /\ Append(s, m) \in Seq(Nat) /\ Len(Append(s, m)) = Len(s) + 1
                             /\ Range(Append(s, m)) = Range(s) \cup {m}
<1>1. Range(s) \subseteq Nat /\ (s # <<>> => Range(s) # {})
  <2>1. \A i \in DOMAIN s : s[i] \in Nat
    OBVIOUS
  <2>2. s # <<>> => 1 \in DOMAIN s
    OBVIOUS
  <2> QED BY <2>1, <2>2, Zenon DEF Range
<1>2. Range(<<>>) = {}
  <2>1. DOMAIN <<>> = {}
    OBVIOUS
  <2> QED BY <2>1, Zenon DEF Range
<1>3. ASSUME NEW m \in Nat
      PROVE  /\ Append(s, m) \in Seq(Nat) /\ Len(Append(s, m)) = Len(s) + 1
             /\ Range(Append(s, m)) = Range(s) \cup {m}
  <2>1. Append(s, m) \in Seq(Nat) /\ Len(Append(s, m)) = Len(s) + 1
    OBVIOUS
  <2>2. Range(Append(s, m)) = Range(s) \cup {m}
    BY AppendFresh, SMTT(30)
  <2> QED BY <2>1, <2>2, Zenon
<1> QED BY <1>1, <1>2, <1>3, Zenon

\* The newest message of a thread: at most n, and n where it has n.
LEMMA PdNewestIs ==
    ASSUME NEW s \in Seq(Nat), NEW n \in Nat, \A m \in Range(s) : m <= n
    PROVE  /\ n \in Range(s) => PdNewestOf(s) = n
           /\ n # 0 /\ n \notin Range(s) => ~(n <= PdNewestOf(s))
<1> DEFINE S == {0} \cup Range(s)
<1>1. S \in SUBSET Nat /\ S # {} /\ \A m \in S : m <= n
  <2>1. Range(s) \subseteq Nat
    BY PdContents, Zenon
  <2>2. 0 \in Nat /\ 0 <= n
    OBVIOUS
  <2> QED BY <2>1, <2>2, Zenon
<1>2. PdNewestOf(s) = Max(S)
  BY Zenon DEF PdNewestOf
<1>3. Range(s) \subseteq S /\ (n # 0 /\ n \notin Range(s) => n \notin S)
  BY Zenon
<1> HIDE DEF S
<1>4. Max(S) \in S /\ \A m \in S : Max(S) >= m
  BY <1>1, PdGreatest, Zenon
<1>5. Max(S) \in Nat /\ Max(S) <= n
  BY <1>1, <1>4, Zenon
<1>6. n \in S => Max(S) = n
  <2>1. n \in S => Max(S) >= n
    BY <1>4, Zenon
  <2> QED BY <1>5, <2>1
<1>7. n \notin S => ~(n <= Max(S))
  <2>1. n \notin S => Max(S) # n
    BY <1>4, Zenon
  <2> QED BY <1>5, <2>1
<1> QED BY <1>2, <1>3, <1>6, <1>7, Zenon

\* The eviction spares the thread with the newest message: another is stored, and
\* its newest is older.
LEMMA PdSpared ==
    ASSUME NEW threads \in [PdThreads -> Seq(Nat)], NEW n \in Nat \ {0}, PdHolds(threads, n),
           NEW t \in PdThreads, n \in Range(threads[t]),
           Cardinality(PdStored(threads)) >= PdMaxThreads
    PROVE  t \notin PdVictims(threads)
<1>1. PICK u \in PdStored(threads) : u # t
  <2> SUFFICES ASSUME PdStored(threads) \subseteq {t} PROVE FALSE
    BY Zenon
  <2>1. IsFiniteSet({t}) /\ Cardinality({t}) = 1
    BY FS_Singleton, Zenon
  <2>2. IsFiniteSet(PdStored(threads)) /\ Cardinality(PdStored(threads)) <= 1
    BY <2>1, FS_Subset, Zenon
  <2>3. Cardinality(PdStored(threads)) \in Nat
    BY <2>2, FS_CardinalityType, Zenon
  <2> QED BY <2>2, <2>3, PdAssumption
<1>2. u \in PdThreads
  BY <1>1, Zenon DEF PdStored
<1>3. n \notin Range(threads[u])
  BY <1>1, <1>2, Zenon DEF PdHolds
<1>4. threads[t] \in Seq(Nat) /\ threads[u] \in Seq(Nat) /\ n \in Nat /\ n # 0
  BY <1>2, Zenon
<1>5. PdNewestOf(threads[t]) = n /\ ~(n <= PdNewestOf(threads[u]))
  BY <1>2, <1>3, <1>4, PdNewestIs, Zenon DEF PdHolds
<1> QED BY <1>1, <1>5, Zenon DEF PdVictims

\* One device's threads after a message: room is made where the thread is new, and
\* the message is appended.
PdAfter(threads, roomy, t) ==
    /\ roomy \in [PdThreads -> Seq(Nat)] /\ roomy[t] = threads[t]
    /\ \A u \in PdThreads : roomy[u] = threads[u] \/ (roomy[u] = <<>> /\ u \in PdVictims(threads)
                                                      /\ Cardinality(PdStored(threads)) >= PdMaxThreads)

\* Making room takes a whole thread, another than the one that grows.
LEMMA PdRoomMade ==
    ASSUME NEW threads \in [PdThreads -> Seq(Nat)], NEW t \in PdThreads,
           NEW roomy \in PdRoom(threads, t)
    PROVE  PdAfter(threads, roomy, t)
<1>1. CASE threads[t] = <<>> /\ Cardinality(PdStored(threads)) >= PdMaxThreads
  <2>1. PICK v \in PdVictims(threads) : roomy = [threads EXCEPT ![v] = <<>>]
    BY <1>1, Zenon DEF PdRoom
  <2>2. v \in PdThreads
    BY <2>1, Zenon DEF PdVictims, PdStored
  <2>3. <<>> \in Seq(Nat)
    OBVIOUS
  <2>4. roomy \in [PdThreads -> Seq(Nat)]
    BY <2>1, <2>3, Zenon
  <2>5. \A u \in PdThreads : roomy[u] = IF u = v THEN <<>> ELSE threads[u]
    BY <2>1, Zenon
  <2> QED BY <1>1, <2>1, <2>4, <2>5, Zenon DEF PdAfter
<1>2. CASE ~(threads[t] = <<>> /\ Cardinality(PdStored(threads)) >= PdMaxThreads)
  <2>1. roomy = threads
    BY <1>2, Zenon DEF PdRoom
  <2> QED BY <2>1, Zenon DEF PdAfter
<1> QED BY <1>1, <1>2, Zenon

\* A message that is neither of the newest date nor one too many for its thread.
LEMMA PdMessage ==
    ASSUME NEW threads \in [PdThreads -> Seq(Nat)], NEW n \in Nat, PdHolds(threads, n),
           NEW t \in PdThreads, NEW date \in Nat, date # n,
           NEW roomy, PdAfter(threads, roomy, t)
    PROVE  PdHolds([roomy EXCEPT ![t] = Append(@, date)], IF date > n THEN date ELSE n)
<1> DEFINE after == [roomy EXCEPT ![t] = Append(@, date)]
           top == IF date > n THEN date ELSE n
<1>1. /\ Range(after[t]) = Range(threads[t]) \cup {date}
      /\ \A u \in PdThreads \ {t} : after[u] = roomy[u]
  <2>1. after[t] = Append(threads[t], date) /\ \A u \in PdThreads \ {t} : after[u] = roomy[u]
    BY Zenon DEF PdAfter
  <2>2. threads[t] \in Seq(Nat)
    BY Zenon
  <2> HIDE DEF after
  <2> QED BY <2>1, <2>2, PdContents, Zenon
<1>2. \A u \in PdThreads : Range(threads[u]) \subseteq Nat
  BY PdContents, Zenon
<1> HIDE DEF after
<1>3. \A u \in PdThreads \ {t} : Range(after[u]) \subseteq Range(threads[u])
  <2>1. Range(<<>>) = {}
    BY PdContents, Zenon
  <2> QED BY <1>1, <2>1, Zenon DEF PdAfter
<1>4. top \in Nat /\ n <= top /\ date <= top
  OBVIOUS
<1>5. ASSUME NEW u \in PdThreads, NEW m \in Range(after[u]) PROVE m <= top
  <2>1. m = date \/ m \in Range(threads[u])
    BY <1>1, <1>3, <1>5, Zenon
  <2>2. CASE m \in Range(threads[u])
    <3>1. m \in Nat /\ m <= n
      BY <1>2, <2>2, Zenon DEF PdHolds
    <3> QED BY <1>4, <3>1
  <2> QED BY <1>4, <2>1, <2>2, Zenon
<1>6. CASE date > n
  <2>1. top = date
    BY <1>6, Zenon
  <2>2. \A u \in PdThreads : date \notin Range(threads[u])
    <3> SUFFICES ASSUME NEW u \in PdThreads, date \in Range(threads[u]) PROVE FALSE
      BY Zenon
    <3>1. date <= n
      BY Zenon DEF PdHolds
    <3> QED BY <1>6, <3>1
  <2>3. date \in Range(after[t]) /\ \A u \in PdThreads \ {t} : date \notin Range(after[u])
    BY <1>1, <1>3, <2>2, Zenon
  <2> HIDE DEF top
  <2> QED BY <1>5, <2>1, <2>3, Zenon DEF PdHolds, after, top
<1>7. CASE ~(date > n)
  <2>1. top = n /\ n # 0
    BY <1>7
  <2>2. PICK w \in PdThreads : n \in Range(threads[w]) /\ \A u \in PdThreads \ {w} : n \notin Range(threads[u])
    BY <2>1, Zenon DEF PdHolds
  <2>3. n \in Range(after[w])
    <3>1. CASE w = t
      BY <1>1, <2>2, <3>1, Zenon
    <3>2. CASE w # t
      <4>1. ~(w \in PdVictims(threads) /\ Cardinality(PdStored(threads)) >= PdMaxThreads)
        BY <2>1, <2>2, PdSpared, Zenon
      <4>2. after[w] = threads[w]
        BY <1>1, <3>2, <4>1, Zenon DEF PdAfter
      <4> QED BY <2>2, <4>2, Zenon
    <3> QED BY <3>1, <3>2, Zenon
  <2>4. \A u \in PdThreads \ {w} : n \notin Range(after[u])
    BY <1>1, <1>3, <2>2, Zenon
  <2> QED BY <1>5, <2>1, <2>2, <2>3, <2>4, Zenon DEF PdHolds, after
<1> QED BY <1>6, <1>7, Zenon

\* The end of a sequence of numbers is a sequence of numbers.
LEMMA PdLastOnes ==
    ASSUME NEW s \in Seq(Nat), NEW k \in 1..Len(s)
    PROVE  SubSeq(s, k, Len(s)) \in Seq(Nat) /\ Len(SubSeq(s, k, Len(s))) = Len(s) - k + 1
<1>1. Len(s) \in Nat /\ \A i \in 1..Len(s) : s[i] \in Nat
  OBVIOUS
<1>2. SubSeq(s, k, Len(s)) = [i \in 1..(Len(s) - k + 1) |-> s[i + k - 1]]
  BY <1>1, SMTT(30)
<1>3. Len(s) - k + 1 \in Nat /\ \A i \in 1..(Len(s) - k + 1) : s[i + k - 1] \in Nat
  BY <1>1, SMTT(30)
<1> QED BY <1>2, <1>3, SMTT(30)

\* A text message: threads, bounds and the newest.
LEMMA PdSmsStep ==
    ASSUME PdInv, PdSms
    PROVE  PdInv'
<1>1. PICK d \in PdDevices, t \in PdThreads, date \in PdDates :
         /\ pdUp' = pdUp
         /\ \E roomy \in PdRoom(pdThreads[d], t) :
               pdThreads' = [pdThreads EXCEPT ![d] =
                               [roomy EXCEPT ![t] = PdKeepLatest(Append(@, date))]]
         /\ pdNewest' = [pdNewest EXCEPT ![d] = Max({@, date})]
         /\ pdLossy' = IF Len(pdThreads[d][t]) = PdMaxMessages \/ date = pdNewest[d]
                       THEN pdLossy \cup {d} ELSE pdLossy
  BY Zenon DEF PdSms, PdPacket
<1>2. PICK roomy \in PdRoom(pdThreads[d], t) :
         pdThreads' = [pdThreads EXCEPT ![d] = [roomy EXCEPT ![t] = PdKeepLatest(Append(@, date))]]
  BY <1>1, Zenon
<1> DEFINE threads == pdThreads[d]  n == pdNewest[d]
           after == [roomy EXCEPT ![t] = PdKeepLatest(Append(@, date))]
<1>3. /\ threads \in [PdThreads -> Seq(Nat)] /\ n \in Nat /\ date \in Nat
      /\ \A u \in PdThreads : Len(threads[u]) <= PdMaxMessages
  BY <1>1, PdAssumption, Zenon DEF PdInv, PdShapes
<1>4. PdAfter(threads, roomy, t)
  BY <1>1, <1>2, <1>3, PdRoomMade, Zenon
<1> DEFINE a == Append(threads[t], date)
<1>5. /\ a \in Seq(Nat) /\ Len(a) = Len(threads[t]) + 1 /\ Len(threads[t]) \in Nat
  <2>1. threads[t] \in Seq(Nat)
    BY <1>1, <1>3, Zenon
  <2> HIDE DEF threads
  <2> QED BY <1>3, <2>1
<1>6. PdKeepLatest(a) \in Seq(Nat) /\ Len(PdKeepLatest(a)) <= PdMaxMessages
  <2> HIDE DEF a
  <2>1. CASE Len(a) > PdMaxMessages
    <3>1. PdKeepLatest(a) = SubSeq(a, Len(a) - PdMaxMessages + 1, Len(a))
      BY <2>1, Zenon DEF PdKeepLatest
    <3>2. Len(a) \in Nat /\ Len(a) - PdMaxMessages + 1 \in 1..Len(a) /\ PdMaxMessages \in Nat
      BY <1>5, <2>1, PdAssumption
    <3>3. /\ SubSeq(a, Len(a) - PdMaxMessages + 1, Len(a)) \in Seq(Nat)
          /\ Len(SubSeq(a, Len(a) - PdMaxMessages + 1, Len(a))) =
                 Len(a) - (Len(a) - PdMaxMessages + 1) + 1
      BY <1>5, <3>2, PdLastOnes, Zenon
    <3>4. Len(SubSeq(a, Len(a) - PdMaxMessages + 1, Len(a))) = PdMaxMessages
      <4> DEFINE l == Len(SubSeq(a, Len(a) - PdMaxMessages + 1, Len(a)))
                 k == Len(a)
      <4>1. l = k - (k - PdMaxMessages + 1) + 1 /\ k \in Nat /\ PdMaxMessages \in Nat
        BY <3>2, <3>3, Zenon
      <4> HIDE DEF l, k
      <4> QED BY <4>1, SMTT(30) DEF l
    <3>5. PdMaxMessages <= PdMaxMessages
      BY <3>2
    <3> QED BY <3>1, <3>3, <3>4, <3>5, Zenon
  <2>2. CASE ~(Len(a) > PdMaxMessages)
    <3>1. PdKeepLatest(a) = a
      BY <2>2, Zenon DEF PdKeepLatest
    <3>2. Len(a) <= PdMaxMessages
      BY <1>5, <2>2, PdAssumption
    <3> QED BY <1>5, <3>1, <3>2, Zenon
  <2> QED BY <2>1, <2>2, Zenon
<1>7. /\ after \in [PdThreads -> Seq(Nat)]
      /\ \A u \in PdThreads : Len(after[u]) <= PdMaxMessages
  <2>1. after = [roomy EXCEPT ![t] = PdKeepLatest(a)]
    BY <1>4, Zenon DEF PdAfter
  <2>2. after \in [PdThreads -> Seq(Nat)] /\ after[t] = PdKeepLatest(a)
        /\ \A u \in PdThreads : u # t => after[u] = roomy[u]
    <3> HIDE DEF after, a
    <3> QED BY <1>1, <1>4, <1>6, <2>1, Zenon DEF PdAfter
  <2>3. Len(<<>>) <= PdMaxMessages
    BY PdAssumption
  <2> HIDE DEF after, a
  <2>4. ASSUME NEW u \in PdThreads, u # t PROVE Len(after[u]) <= PdMaxMessages
    <3>1. after[u] = threads[u] \/ after[u] = <<>>
      BY <1>4, <2>2, <2>4, Zenon DEF PdAfter
    <3> QED BY <1>3, <2>3, <3>1, Zenon
  <2> QED BY <1>6, <2>2, <2>4, Zenon
<1>8. Max({n, date}) = IF date > n THEN date ELSE n
  <2> HIDE DEF n
  <2>1. {n, date} \in SUBSET Nat /\ {n, date} # {}
    BY <1>3, Zenon
  <2>2. \A m \in {n, date} : m <= (IF date > n THEN date ELSE n)
    BY <1>3
  <2>3. (IF date > n THEN date ELSE n) \in Nat
    BY <1>3, Zenon
  <2>4. Max({n, date}) \in {n, date} /\ \A m \in {n, date} : Max({n, date}) >= m
    BY <2>1, <2>2, <2>3, PdGreatest, Zenon
  <2>5. (Max({n, date}) = n \/ Max({n, date}) = date) /\ Max({n, date}) >= n /\ Max({n, date}) >= date
    BY <2>4, Zenon
  <2> QED BY <1>3, <2>5
<1>9. PdShapes'
  <2>1. Max({n, date}) \in Nat
    <3>1. (IF date > n THEN date ELSE n) \in Nat
      BY <1>3, Zenon
    <3> QED BY <1>8, <3>1, Zenon
  <2>2. pdNewest' \in [PdDevices -> Nat]
    BY <1>1, <2>1, Zenon DEF PdInv, PdShapes
  <2>3. pdThreads' = [pdThreads EXCEPT ![d] = after]
    BY <1>2, Zenon
  <2> HIDE DEF after
  <2>4. /\ pdThreads' \in [PdDevices -> [PdThreads -> Seq(Nat)]] /\ pdThreads'[d] = after
        /\ \A e \in PdDevices : e # d => pdThreads'[e] = pdThreads[e]
    BY <1>1, <1>7, <2>3, Zenon DEF PdInv, PdShapes
  <2>5. \A e \in PdDevices, u \in PdThreads : Len(pdThreads'[e][u]) <= PdMaxMessages
    BY <1>7, <2>4, Zenon DEF PdInv, PdShapes
  <2> QED BY <1>1, <2>2, <2>4, <2>5, Zenon DEF PdInv, PdShapes
<1>10. ASSUME NEW e \in PdDevices, e \notin pdLossy' PROVE PdHolds(pdThreads'[e], pdNewest'[e])
  <2>0. e \notin pdLossy
    BY <1>1, <1>10, Zenon
  <2>1. CASE e # d
    <3>1. pdThreads'[e] = pdThreads[e] /\ pdNewest'[e] = pdNewest[e]
      BY <1>1, <1>2, <1>10, <2>1, Zenon DEF PdInv, PdShapes
    <3> QED BY <1>10, <2>0, <3>1, Zenon DEF PdInv
  <2>2. CASE e = d
    <3>1. Len(threads[t]) # PdMaxMessages /\ date # n
      BY <1>1, <1>10, <2>2, Zenon
    <3>2. PdHolds(threads, n)
      BY <2>0, <2>2, <1>10, Zenon DEF PdInv
    <3>3. ~(Len(a) > PdMaxMessages)
      <4>1. Len(threads[t]) <= PdMaxMessages
        BY <1>1, <1>3, Zenon
      <4> HIDE DEF a, threads
      <4> QED BY <1>5, <3>1, <4>1, PdAssumption
    <3>4. PdKeepLatest(a) = a
      BY <3>3, Zenon DEF PdKeepLatest
    <3>5. after = [roomy EXCEPT ![t] = Append(@, date)]
      BY <1>4, <3>4, Zenon DEF PdAfter
    <3>6. pdThreads'[d] = after /\ pdNewest'[d] = Max({n, date})
      BY <1>1, <1>2, Zenon DEF PdInv, PdShapes
    <3> HIDE DEF threads, n, after
    <3>7. PdHolds([roomy EXCEPT ![t] = Append(@, date)], IF date > n THEN date ELSE n)
      BY <1>1, <1>3, <1>4, <3>1, <3>2, PdMessage, Zenon
    <3> QED BY <1>8, <2>2, <3>5, <3>6, <3>7, Zenon
  <2> QED BY <2>1, <2>2, Zenon
<1> QED BY <1>9, <1>10, Zenon DEF PdInv

\* The packets of the other plugins, and a connection, leave the messages.
LEMMA PdOtherStep ==
    ASSUME PdInv, UNCHANGED <<pdThreads, pdNewest, pdLossy>>, pdUp' \subseteq PdDevices
    PROVE  PdInv'
BY Zenon DEF PdInv, PdShapes

\* on_disconnected forgets the device's messages.
LEMMA PdDisconnectStep ==
    ASSUME PdInv, PdDisconnect
    PROVE  PdInv'
<1>1. PICK d \in pdUp :
         /\ pdUp' = pdUp \ {d}
         /\ pdThreads' = [pdThreads EXCEPT ![d] = [t \in PdThreads |-> <<>>]]
         /\ pdNewest' = [pdNewest EXCEPT ![d] = 0]
         /\ pdLossy' = pdLossy \ {d}
  BY Zenon DEF PdDisconnect
<1> DEFINE none == [t \in PdThreads |-> <<>>]
<1>2. <<>> \in Seq(Nat) /\ Len(<<>>) <= PdMaxMessages /\ 0 \in Nat
  BY PdAssumption
<1>3. /\ none \in [PdThreads -> Seq(Nat)]
      /\ \A t \in PdThreads : none[t] = <<>> /\ Len(none[t]) <= PdMaxMessages
  BY <1>2, Zenon
<1>4. pdThreads' = [pdThreads EXCEPT ![d] = none]
  BY <1>1, Zenon
<1> HIDE DEF none
<1>5. d \in PdDevices
  BY <1>1, Zenon DEF PdInv, PdShapes
<1>6. /\ pdThreads' \in [PdDevices -> [PdThreads -> Seq(Nat)]] /\ pdThreads'[d] = none
      /\ pdNewest' \in [PdDevices -> Nat] /\ pdNewest'[d] = 0
      /\ \A e \in PdDevices : e # d => pdThreads'[e] = pdThreads[e] /\ pdNewest'[e] = pdNewest[e]
  BY <1>1, <1>2, <1>3, <1>4, <1>5, Zenon DEF PdInv, PdShapes
<1>7. \A e \in PdDevices, u \in PdThreads : Len(pdThreads'[e][u]) <= PdMaxMessages
  BY <1>3, <1>6, Zenon DEF PdInv, PdShapes
<1>8. PdHolds(none, 0)
  <2>1. Range(<<>>) = {}
    BY <1>2, PdContents, Zenon
  <2> QED BY <1>3, <2>1, Zenon DEF PdHolds
<1>9. \A e \in PdDevices \ pdLossy' : PdHolds(pdThreads'[e], pdNewest'[e])
  BY <1>1, <1>6, <1>8, Zenon DEF PdInv
<1>10. PdShapes'
  BY <1>1, <1>6, <1>7, Zenon DEF PdInv, PdShapes
<1> QED BY <1>9, <1>10, Zenon DEF PdInv

\* No message is stored at the start.
LEMMA PdStart ==
    ASSUME PdInit PROVE PdInv
<1>1. <<>> \in Seq(Nat) /\ Len(<<>>) <= PdMaxMessages /\ 0 \in Nat
  BY PdAssumption
<1>2. Range(<<>>) = {}
  BY <1>1, PdContents, Zenon
<1>3. \A d \in PdDevices : /\ pdNewest[d] = 0
                           /\ \A t \in PdThreads : pdThreads[d][t] = <<>>
  BY Zenon DEF PdInit
<1>4. PdShapes
  <2>1. pdUp \subseteq PdDevices
    BY Zenon DEF PdInit
  <2> QED BY <1>1, <1>3, <2>1, Zenon DEF PdInit, PdShapes
<1>5. \A d \in PdDevices : PdHolds(pdThreads[d], pdNewest[d])
  BY <1>2, <1>3, Zenon DEF PdHolds
<1> QED BY <1>4, <1>5, Zenon DEF PdInv

\* Every packet, connection and disconnection keeps the invariant.
LEMMA PdStep ==
    ASSUME PdInv, [PdNext]_pdVars
    PROVE  PdInv'
<1>0. pdUp \subseteq PdDevices
  BY Zenon DEF PdInv, PdShapes
<1>1. CASE UNCHANGED pdVars
  BY <1>0, <1>1, PdOtherStep, Zenon DEF pdVars
<1>2. CASE PdBattery \/ PdConnectivity \/ PdLock \/ PdCommandList \/ PdSinks
  <2>1. UNCHANGED <<pdThreads, pdNewest, pdLossy, pdUp>>
    BY <1>2, Zenon DEF PdBattery, PdConnectivity, PdLock, PdCommandList, PdSinks, PdPacket
  <2> QED BY <1>0, <2>1, PdOtherStep, Zenon
<1>3. CASE PdConnect
  <2>1. UNCHANGED <<pdThreads, pdNewest, pdLossy>> /\ pdUp' \subseteq PdDevices
    BY <1>0, <1>3, Zenon DEF PdConnect
  <2> QED BY <2>1, PdOtherStep, Zenon
<1> QED BY <1>1, <1>2, <1>3, PdSmsStep, PdDisconnectStep, Zenon DEF PdNext

\* The conversation with the newest message survives the eviction, however many
\* others the phone lists (the sms plugin's handle_packet).
THEOREM NewestStays == PdSpec => []NewestThreadKept
<1>1. PdInv => NewestThreadKept
  <2> SUFFICES ASSUME PdInv, NEW d \in pdUp \ pdLossy, pdNewest[d] # 0
               PROVE  \E t \in PdThreads : PdNewestOf(pdThreads[d][t]) = pdNewest[d]
    BY Zenon DEF NewestThreadKept
  <2>1. d \in PdDevices /\ pdThreads[d] \in [PdThreads -> Seq(Nat)] /\ pdNewest[d] \in Nat
        /\ PdHolds(pdThreads[d], pdNewest[d])
    BY Zenon DEF PdInv, PdShapes
  <2>2. PICK t \in PdThreads : pdNewest[d] \in Range(pdThreads[d][t])
    BY <2>1, Zenon DEF PdHolds
  <2>3. PdNewestOf(pdThreads[d][t]) = pdNewest[d]
    BY <2>1, <2>2, PdNewestIs, Zenon DEF PdHolds
  <2> QED BY <2>2, <2>3, Zenon
<1> QED BY <1>1, PdStart, PdStep, PTL DEF PdSpec
=============================================================================
