-------------------------- MODULE VolumeGateProofs --------------------------
(***************************************************************************)
(* What the quota of enqueue_raw achieves for a domain and for the IP, for *)
(* any number of domains, calls and days.                                  *)
(***************************************************************************)
EXTENDS VolumeGate, ReputationProofs, FiniteSetTheorems

\* Every message let through is counted or uncounted.
Accounted == \A d \in Domains : opened[d] + calling[d] <= sent[d] + Uncounted(d)

PeakSeen == \A d \in Domains : Uncounted(d) <= peak[d]

\* DomainOvershootBounded, with the calls that have yet to store.
LetThrough ==
  \A d \in Domains :
    opened[d] + calling[d] <= Cap(d) + SaturatingSub(peak[d], 1)

GateInv == TypeOK /\ Accounted /\ PeakSeen /\ LetThrough

\* The same for the IP, whose quota all domains share.
IpAccounted == Total(opened) <= sent[Ip] + Total(due) + Total(lost)

IpLetThrough ==
  Total(opened) + Total(calling) <= Cap(Ip) + SaturatingSub(peak[Ip], 1)

IpInv == IpAccounted /\ IpLetThrough

-----------------------------------------------------------------------------
(* Sums over finite sets *)

Pick(S) == CHOOSE x \in S : TRUE

\* g gives the sum of f over every subset of S.
SumsOn(g, f, S) ==
  g = [T \in SUBSET S |-> IF T = {} THEN 0 ELSE f[Pick(T)] + g[T \ {Pick(T)}]]

SumOver(f, S) == (CHOOSE g : SumsOn(g, f, S))[S]

\* Total is this sum.
LEMMA TotalIsSum ==
  ASSUME NEW f
  PROVE  Total(f) = SumOver(f, DOMAIN f)
  BY DEF Total, FoldFunction, FoldFunctionOnSet, MapThenFoldSet, SumOver, SumsOn, Pick

LEMMA Picked ==
  ASSUME NEW S, S # {}
  PROVE  Pick(S) \in S
  BY DEF Pick

\* What fails for a subset of a finite set fails for a smallest one.
LEMMA SmallestSubset ==
  ASSUME NEW S, IsFiniteSet(S), NEW Bad \in SUBSET (SUBSET S), Bad # {}
  PROVE  \E T \in Bad : \A x \in T : T \ {x} \notin Bad
<1>1. IsWellFoundedOn(StrictSubsetOrdering(S), SUBSET S)
  BY FS_StrictSubsetOrderingWellFounded, FS_FiniteSubsetsOfFinite
<1>2. PICK T \in Bad : \A U \in Bad : <<U, T>> \notin StrictSubsetOrdering(S)
  BY <1>1, WFMin
<1>3. ASSUME NEW x \in T, T \ {x} \in Bad PROVE FALSE
  <2>1. <<T \ {x}, T>> \in StrictSubsetOrdering(S)
    BY <1>3 DEF StrictSubsetOrdering
  <2> QED
    BY <1>2, <1>3, <2>1
<1> QED
  BY <1>2, <1>3

\* Two such functions agree where both are defined.
LEMMA SumsAgree ==
  ASSUME NEW f, NEW S, NEW T, NEW g, NEW h, SumsOn(g, f, S), SumsOn(h, f, T),
         NEW U, IsFiniteSet(U), U \subseteq S, U \subseteq T
  PROVE  g[U] = h[U]
<1> DEFINE Bad == {V \in SUBSET U : g[V] # h[V]}
<1>1. SUFFICES ASSUME Bad # {} PROVE FALSE
  OBVIOUS
<1>2. PICK V \in Bad : \A x \in V : V \ {x} \notin Bad
  BY <1>1, SmallestSubset
<1>3. V \in SUBSET S /\ V \in SUBSET T /\ V \in SUBSET U
  OBVIOUS
<1>4. g[V] = IF V = {} THEN 0 ELSE f[Pick(V)] + g[V \ {Pick(V)}]
  BY <1>3 DEF SumsOn
<1>5. h[V] = IF V = {} THEN 0 ELSE f[Pick(V)] + h[V \ {Pick(V)}]
  BY <1>3 DEF SumsOn
<1>6. CASE V # {}
  <2>1. Pick(V) \in V
    BY <1>6, Picked
  <2>2. g[V \ {Pick(V)}] = h[V \ {Pick(V)}]
    BY <1>2, <1>3, <2>1
  <2> QED
    BY <1>2, <1>4, <1>5, <1>6, <2>2
<1> QED
  BY <1>2, <1>4, <1>5, <1>6

\* Such a function exists for a finite set.
LEMMA SumsExist ==
  ASSUME NEW f, NEW S, IsFiniteSet(S)
  PROVE  \E g : SumsOn(g, f, S)
<1> DEFINE Bad == {T \in SUBSET S : ~ \E g : SumsOn(g, f, T)}
<1>1. SUFFICES ASSUME Bad # {} PROVE FALSE
  BY S \in SUBSET S
<1>2. PICK T \in Bad : \A x \in T : T \ {x} \notin Bad
  BY <1>1, SmallestSubset
<1>3. T # {}
  <2>1. SumsOn([U \in SUBSET {} |-> 0], f, {})
    BY DEF SumsOn
  <2> QED
    BY <1>2, <2>1
<1>4. ASSUME NEW x \in T PROVE \E g : SumsOn(g, f, T \ {x})
  BY <1>2
<1> DEFINE Left(U) == CHOOSE x \in T : x \notin U
           Rest(x) == CHOOSE g : SumsOn(g, f, T \ {x})
           Known(U) == Rest(Left(U))[U]
           G == [U \in SUBSET T |->
                  IF U = {} THEN 0 ELSE f[Pick(U)] + Known(U \ {Pick(U)})]
<1>5. ASSUME NEW U \in SUBSET T, U # T
      PROVE  /\ Left(U) \in T /\ U \subseteq T \ {Left(U)}
             /\ SumsOn(Rest(Left(U)), f, T \ {Left(U)})
  <2>1. \E x \in T : x \notin U
    BY <1>5
  <2>2. Left(U) \in T /\ Left(U) \notin U
    BY <2>1
  <2>3. SumsOn(Rest(Left(U)), f, T \ {Left(U)})
    BY <1>4, <2>2
  <2> QED
    BY <2>2, <2>3
<1>6. ASSUME NEW W \in SUBSET T, W # T PROVE G[W] = Known(W)
  <2> DEFINE r == Rest(Left(W))
  <2>1. SumsOn(r, f, T \ {Left(W)}) /\ W \in SUBSET (T \ {Left(W)})
    BY <1>5, <1>6
  <2>2. r[W] = IF W = {} THEN 0 ELSE f[Pick(W)] + r[W \ {Pick(W)}]
    <3> HIDE DEF r
    <3> QED
      BY <2>1 DEF SumsOn
  <2>3. CASE W # {}
    <3> DEFINE V == W \ {Pick(W)}
    <3>1. V \in SUBSET T /\ V # T /\ V \subseteq T \ {Left(W)}
      BY <2>1, <2>3, Picked
    <3>2. /\ SumsOn(Rest(Left(V)), f, T \ {Left(V)})
          /\ V \subseteq T \ {Left(V)}
      BY <1>5, <3>1
    <3>3. IsFiniteSet(V)
      BY <3>1, FS_Subset
    <3>4. r[V] = Known(V)
      <4> HIDE DEF r, V
      <4>1. r[V] = Rest(Left(V))[V]
        <5> HIDE DEF Rest, Left
        <5> QED
          BY <2>1, <3>1, <3>2, <3>3, SumsAgree
      <4> QED
        BY <4>1
    <3>5. G[W] = f[Pick(W)] + Known(V)
      BY <2>3
    <3> QED
      BY <2>2, <2>3, <3>4, <3>5
  <2>4. CASE W = {}
    BY <2>2, <2>4
  <2> QED
    BY <2>3, <2>4
<1>7. SumsOn(G, f, T)
  <2>1. ASSUME NEW U \in SUBSET T, U # {} PROVE G[U] = f[Pick(U)] + G[U \ {Pick(U)}]
    <3>1. U \ {Pick(U)} \in SUBSET T /\ U \ {Pick(U)} # T
      BY <2>1, Picked
    <3>2. G[U \ {Pick(U)}] = Known(U \ {Pick(U)})
      BY <1>6, <3>1
    <3>3. G[U] = f[Pick(U)] + Known(U \ {Pick(U)})
      BY <2>1
    <3> QED
      BY <3>2, <3>3
  <2>2. G[{}] = 0
    OBVIOUS
  <2>3. DOMAIN G = SUBSET T /\ G = [U \in SUBSET T |-> G[U]]
    OBVIOUS
  <2> HIDE DEF G
  <2> QED
    BY <2>1, <2>2, <2>3 DEF SumsOn
<1> QED
  BY <1>2, <1>7

\* The equation of the sum.
LEMMA SumEquation ==
  ASSUME NEW f, NEW S, IsFiniteSet(S), NEW T \in SUBSET S
  PROVE  SumOver(f, T) = IF T = {} THEN 0 ELSE f[Pick(T)] + SumOver(f, T \ {Pick(T)})
<1> DEFINE Of(U) == CHOOSE g : SumsOn(g, f, U)
<1>1. IsFiniteSet(T) /\ IsFiniteSet(T \ {Pick(T)})
  BY FS_Subset
<1>2. SumsOn(Of(T), f, T) /\ SumsOn(Of(T \ {Pick(T)}), f, T \ {Pick(T)})
  BY <1>1, SumsExist
<1>3. Of(T)[T] = IF T = {} THEN 0 ELSE f[Pick(T)] + Of(T)[T \ {Pick(T)}]
  <2> HIDE DEF Of
  <2> QED
    BY <1>2, T \in SUBSET T DEF SumsOn
<1>4. Of(T)[T \ {Pick(T)}] = Of(T \ {Pick(T)})[T \ {Pick(T)}]
  <2> HIDE DEF Of
  <2> QED
    BY <1>1, <1>2, SumsAgree
<1> QED
  BY <1>3, <1>4 DEF SumOver

\* A sum of naturals is one.
LEMMA SumIsNat ==
  ASSUME NEW S, IsFiniteSet(S), NEW f \in [S -> Nat], NEW U \in SUBSET S
  PROVE  SumOver(f, U) \in Nat
<1> DEFINE Bad == {T \in SUBSET S : SumOver(f, T) \notin Nat}
<1>1. SUFFICES ASSUME Bad # {} PROVE FALSE
  OBVIOUS
<1>2. PICK T \in Bad : \A x \in T : T \ {x} \notin Bad
  BY <1>1, SmallestSubset
<1>3. SumOver(f, T) = IF T = {} THEN 0 ELSE f[Pick(T)] + SumOver(f, T \ {Pick(T)})
  BY SumEquation
<1>4. CASE T # {}
  <2>1. Pick(T) \in T
    BY <1>4, Picked
  <2> QED
    BY <1>2, <1>3, <1>4, <2>1
<1> QED
  BY <1>2, <1>3, <1>4

\* The sum of two functions.
LEMMA SumAdds ==
  ASSUME NEW S, IsFiniteSet(S),
         NEW f \in [S -> Nat], NEW g \in [S -> Nat], NEW h \in [S -> Nat],
         \A s \in S : h[s] = f[s] + g[s], NEW U \in SUBSET S
  PROVE  SumOver(h, U) = SumOver(f, U) + SumOver(g, U)
<1> DEFINE Bad == {T \in SUBSET S : SumOver(h, T) # SumOver(f, T) + SumOver(g, T)}
<1>1. SUFFICES ASSUME Bad # {} PROVE FALSE
  OBVIOUS
<1>2. PICK T \in Bad : \A x \in T : T \ {x} \notin Bad
  BY <1>1, SmallestSubset
<1>3. /\ SumOver(f, T) = IF T = {} THEN 0 ELSE f[Pick(T)] + SumOver(f, T \ {Pick(T)})
      /\ SumOver(g, T) = IF T = {} THEN 0 ELSE g[Pick(T)] + SumOver(g, T \ {Pick(T)})
      /\ SumOver(h, T) = IF T = {} THEN 0 ELSE h[Pick(T)] + SumOver(h, T \ {Pick(T)})
  BY SumEquation
<1>4. CASE T # {}
  <2>1. Pick(T) \in S /\ T \ {Pick(T)} \in SUBSET S
    BY <1>4, Picked
  <2>2. SumOver(h, T \ {Pick(T)})
          = SumOver(f, T \ {Pick(T)}) + SumOver(g, T \ {Pick(T)})
    BY <1>2, <1>4, <2>1, Picked
  <2>3. /\ SumOver(f, T \ {Pick(T)}) \in Nat /\ SumOver(g, T \ {Pick(T)}) \in Nat
        /\ f[Pick(T)] \in Nat /\ g[Pick(T)] \in Nat /\ h[Pick(T)] = f[Pick(T)] + g[Pick(T)]
    BY <2>1, SumIsNat
  <2> QED
    BY <1>2, <1>3, <1>4, <2>2, <2>3
<1> QED
  BY <1>2, <1>3, <1>4

\* The sum of a function that is 0 except for one argument.
LEMMA SumOfOne ==
  ASSUME NEW S, IsFiniteSet(S), NEW f \in [S -> Nat], NEW d \in S,
         \A s \in S : s # d => f[s] = 0, NEW U \in SUBSET S
  PROVE  SumOver(f, U) = IF d \in U THEN f[d] ELSE 0
<1> DEFINE Bad == {T \in SUBSET S : SumOver(f, T) # IF d \in T THEN f[d] ELSE 0}
<1>1. SUFFICES ASSUME Bad # {} PROVE FALSE
  OBVIOUS
<1>2. PICK T \in Bad : \A x \in T : T \ {x} \notin Bad
  BY <1>1, SmallestSubset
<1>3. SumOver(f, T) = IF T = {} THEN 0 ELSE f[Pick(T)] + SumOver(f, T \ {Pick(T)})
  BY SumEquation
<1>4. CASE T # {}
  <2> DEFINE R == T \ {Pick(T)}
  <2>1. Pick(T) \in T /\ Pick(T) \in S /\ R \in SUBSET S
    BY <1>4, Picked
  <2>2. SumOver(f, R) = IF d \in R THEN f[d] ELSE 0
    BY <1>2, <2>1
  <2>3. CASE Pick(T) = d
    BY <1>2, <1>3, <1>4, <2>1, <2>2, <2>3
  <2>4. CASE Pick(T) # d
    BY <1>2, <1>3, <1>4, <2>1, <2>2, <2>4
  <2> QED
    BY <2>3, <2>4
<1> QED
  BY <1>2, <1>3, <1>4

-----------------------------------------------------------------------------
(* Total *)

LEMMA TotalTyped ==
  ASSUME NEW f \in Counts
  PROVE  Total(f) \in Nat
  BY GateAssumption, TotalIsSum, SumIsNat DEF Counts

LEMMA TotalAdds ==
  ASSUME NEW f \in Counts, NEW g \in Counts, NEW h \in Counts,
         \A d \in Domains : h[d] = f[d] + g[d]
  PROVE  Total(h) = Total(f) + Total(g)
<1>1. /\ Total(f) = SumOver(f, Domains) /\ Total(g) = SumOver(g, Domains)
      /\ Total(h) = SumOver(h, Domains)
  BY TotalIsSum DEF Counts
<1>2. SumOver(h, Domains) = SumOver(f, Domains) + SumOver(g, Domains)
  <2>1. IsFiniteSet(Domains) /\ Domains \in SUBSET Domains
    BY GateAssumption
  <2>2. f \in [Domains -> Nat] /\ g \in [Domains -> Nat] /\ h \in [Domains -> Nat]
    BY DEF Counts
  <2> QED
    BY <2>1, <2>2, SumAdds
<1> QED
  BY <1>1, <1>2

LEMMA TotalOfNone == None \in Counts /\ Total(None) = 0
<1>1. None \in Counts
  BY DEF None, Counts
<1>2. \A d \in Domains : None[d] = None[d] + None[d]
  BY DEF None
<1> QED
  BY <1>1, <1>2, TotalAdds, TotalTyped

\* One message more in `f` is one more in total.
LEMMA TotalPlusOne ==
  ASSUME NEW f \in Counts, NEW d \in Domains, NEW g \in Counts,
         g = Plus(f, d, 1)
  PROVE  Total(g) = Total(f) + 1
<1> DEFINE one == [e \in Domains |-> IF e = d THEN 1 ELSE 0]
<1>1. one \in Counts /\ one[d] = 1 /\ \A e \in Domains : e # d => one[e] = 0
  BY DEF Counts
<1>2. \A e \in Domains : g[e] = f[e] + one[e]
  BY DEF Plus, Counts
<1>3. Total(one) = 1
  <2> HIDE DEF one
  <2> QED
    <3>1. Total(one) = SumOver(one, Domains)
      BY <1>1, TotalIsSum DEF Counts
    <3>2. SumOver(one, Domains) = IF d \in Domains THEN one[d] ELSE 0
      <4>1. IsFiniteSet(Domains) /\ Domains \in SUBSET Domains
        BY GateAssumption
      <4>2. one \in [Domains -> Nat]
        BY <1>1 DEF Counts
      <4> QED
        BY <1>1, <4>1, <4>2, SumOfOne
    <3> QED
      BY <1>1, <3>1, <3>2
<1> HIDE DEF one
<1> QED
  BY <1>1, <1>2, <1>3, TotalAdds

LEMMA TotalMinusOne ==
  ASSUME NEW f \in Counts, NEW d \in Domains, NEW g \in Counts,
         g = Plus(f, d, -1)
  PROVE  Total(g) = Total(f) - 1
<1>1. f = Plus(g, d, 1)
  <2>1. \A e \in Domains : f[e] = Plus(g, d, 1)[e]
    BY DEF Plus, Counts
  <2> QED
    BY <2>1 DEF Plus, Counts
<1>2. Total(f) = Total(g) + 1
  BY <1>1, TotalPlusOne
<1> QED
  BY <1>2, TotalTyped

-----------------------------------------------------------------------------
LEMMA CapPositive ==
  ASSUME NEW a \in Nat, NEW isp \in Isps
  PROVE  warmup_daily_cap(a, isp) \in Nat /\ warmup_daily_cap(a, isp) >= 1
<1>1. PICK s \in Curve : warmup_daily_cap(a, isp) = (s[2] * IspFactor[isp]) \div 100
  BY CapOfStep
<1>2. s[2] \in Nat /\ s[2] >= 20
  BY DEF Curve
<1>3. IspFactor[isp] \in {100, 80, 70, 50, 110}
  BY DEF IspFactor, Isps
<1> QED
  BY <1>1, <1>2, <1>3

LEMMA CapsTyped ==
  ASSUME TypeOK, NEW s \in Scopes
  PROVE  Cap(s) \in Nat /\ Cap(s) >= 1
  BY CapPositive, GateAssumption DEF TypeOK, Cap

\* A decision that lets a message through has found room under both caps.
LEMMA RoomLeft ==
  ASSUME TypeOK, NEW d \in Domains, NEW v \in Verdicts,
         apply_volume(Quota(d), v) # 0
  PROVE  sent[d] + 1 <= Cap(d) /\ sent[Ip] + 1 <= Cap(Ip)
<1>1. d \in Scopes /\ Ip \in Scopes
  BY DEF Scopes
<1>2. /\ age[Ip] \in Nat /\ age[d] \in Nat
      /\ sent[Ip] \in Nat /\ sent[d] \in Nat /\ hour \in Nat
  BY <1>1 DEF TypeOK
<1>3. Isp \in Isps /\ IpHealth \in Healths /\ v \in Decisions
  BY GateAssumption DEF Healths
<1>4. Multiplier[v] \in Nat
  BY <1>3 DEF Multiplier, Decisions
<1>5. Quota(d) # 0
  BY <1>4 DEF apply_volume
<1>6. Quota(d) \in Nat
  <2>1. /\ warmup_daily_cap(age[Ip], Isp) \in Nat
        /\ warmup_daily_cap(age[d], Isp) \in Nat
    BY <1>2, <1>3, CapPositive
  <2>2. isp_hourly_cap(Isp, IpHealth) \in Nat
    <3>1. HourlyActive[Isp] \in Nat
      BY <1>3 DEF HourlyActive, Isps
    <3> QED
      BY <1>3, <3>1 DEF isp_hourly_cap, Healths
  <2> QED
    BY <1>2, <2>1, <2>2 DEF Quota, remaining_quota, Least, SaturatingSub
<1>7. 1 <= Quota(d)
  BY <1>5, <1>6
<1>8. 1 <= remaining_quota(age[Ip], age[d], IpHealth, Isp, sent[Ip], sent[d], hour)
        => /\ sent[d] + 1 <= warmup_daily_cap(age[d], Isp)
           /\ sent[Ip] + 1 <= warmup_daily_cap(age[Ip], Isp)
  BY <1>2, <1>3, QuotaKeepsEveryCap, 1 \in Nat \ {0}
<1> QED
  BY <1>7, <1>8 DEF Quota, Cap

-----------------------------------------------------------------------------
LEMMA InitHolds ==
  ASSUME Init
  PROVE  GateInv
<1>1. TypeOK
  <2>1. age \in [Scopes -> Nat] /\ sent \in [Scopes -> Nat] /\ hour \in Nat
    BY GateAssumption DEF Init, Scopes
  <2>2. None \in Counts
    BY DEF None, Counts
  <2>3. opened \in Counts
    BY GateAssumption DEF Init, Counts, Scopes
  <2>4. days \in 0 .. MaxDays
    BY GateAssumption DEF Init
  <2> QED
    BY <2>1, <2>2, <2>3, <2>4 DEF Init, TypeOK
<1>2. \A d \in Domains : /\ d \in Scopes
                         /\ opened[d] = sent[d] /\ sent[d] \in Nat /\ sent[d] <= Cap(d)
                         /\ calling[d] = 0 /\ due[d] = 0 /\ lost[d] = 0 /\ peak[d] = 0
  BY <1>1 DEF Init, None, Scopes, TypeOK
<1>3. Accounted /\ PeakSeen
  BY <1>2 DEF Accounted, PeakSeen, Uncounted
<1>4. LetThrough
  BY <1>1, <1>2, CapsTyped DEF LetThrough, SaturatingSub
<1> QED
  BY <1>1, <1>3, <1>4 DEF GateInv

\* What PeakFollows does to `peak`.
LEMMA PeakGrows ==
  ASSUME PeakFollows, peak \in [Scopes -> Nat], NEW s \in Scopes,
         calling' \in Counts, due' \in Counts, lost' \in Counts
  PROVE  /\ Uncounted(s)' \in Nat
         /\ peak'[s] \in Nat /\ peak[s] <= peak'[s] /\ Uncounted(s)' <= peak'[s]
<1>1. Total(calling') \in Nat /\ Total(due') \in Nat /\ Total(lost') \in Nat
  BY TotalTyped
<1>2. Uncounted(s)' \in Nat
  BY <1>1 DEF Uncounted, Counts
<1> QED
  BY <1>2 DEF PeakFollows

LEMMA PeakTyped ==
  ASSUME PeakFollows, peak \in [Scopes -> Nat],
         calling' \in Counts, due' \in Counts, lost' \in Counts
  PROVE  peak' \in [Scopes -> Nat]
<1>1. peak' = [s \in Scopes |-> peak'[s]]
  BY DEF PeakFollows
<1> QED
  BY <1>1, PeakGrows

LEMMA DecideKeeps ==
  ASSUME GateInv, NEW d \in Domains, Decide(d)
  PROVE  GateInv'
<1> USE DEF GateInv
<1>1. PICK v \in Verdicts :
        IF apply_volume(Quota(d), v) = 0
          THEN later' = Plus(later, d, 1) /\ UNCHANGED calling
          ELSE calling' = Plus(calling, d, 1) /\ UNCHANGED later
  BY DEF Decide
<1>2. /\ calling' \in Counts /\ later' \in Counts
      /\ calls' \in Counts
      /\ UNCHANGED <<due, lost, sent, hour, opened, age, days>> /\ PeakFollows
  BY <1>1 DEF Decide, Plus, Counts, TypeOK, countVars, dayVars
<1>3. \A e \in Domains : /\ Uncounted(e)' \in Nat
                         /\ Uncounted(e)' = calling'[e] + due[e] + lost[e]
  BY <1>2 DEF Uncounted, TypeOK, Counts
<1>4. \A e \in Domains :
        peak'[e] \in Nat /\ peak[e] <= peak'[e] /\ Uncounted(e)' <= peak'[e]
  BY <1>2, PeakGrows DEF TypeOK, Scopes
<1>5. peak' \in [Scopes -> Nat]
  BY <1>2, PeakTyped DEF TypeOK
<1>6. TypeOK'
  BY <1>2, <1>5 DEF TypeOK, Counts
<1>7. PeakSeen'
  BY <1>4 DEF PeakSeen
<1>8. \A e \in Domains : calling'[e] = calling[e] \/ calling'[e] = calling[e] + 1
  BY <1>1 DEF Plus, TypeOK, Counts
<1>9. Accounted'
  BY <1>2, <1>3, <1>8 DEF Accounted, Uncounted, TypeOK, Counts, Scopes
<1>10. LetThrough'
  <2> SUFFICES ASSUME NEW e \in Domains
               PROVE  opened[e] + calling'[e] <= Cap(e) + SaturatingSub(peak'[e], 1)
    BY <1>2 DEF LetThrough, Cap
  <2>1. /\ e \in Scopes /\ opened[e] \in Nat /\ calling[e] \in Nat /\ due[e] \in Nat
        /\ lost[e] \in Nat /\ sent[e] \in Nat /\ peak[e] \in Nat
    BY DEF Scopes, TypeOK, Counts
  <2>2. Cap(e) \in Nat
    BY <2>1, CapsTyped
  <2>3. CASE calling'[e] = calling[e]
    <3>1. opened[e] + calling[e] <= Cap(e) + SaturatingSub(peak[e], 1)
      BY DEF LetThrough
    <3> QED
      BY <2>1, <2>2, <2>3, <1>4, <3>1 DEF SaturatingSub
  <2>4. CASE calling'[e] = calling[e] + 1
    <3>1. e = d /\ apply_volume(Quota(d), v) # 0
      BY <1>1, <2>1, <2>4 DEF Plus, TypeOK, Counts
    <3>2. sent[e] + 1 <= Cap(e)
      BY <3>1, RoomLeft
    <3>3. opened[e] + calling[e] <= sent[e] + calling[e] + due[e] + lost[e]
      BY <2>1 DEF Accounted, Uncounted
    <3>4. calling'[e] + due[e] + lost[e] <= peak'[e]
      BY <1>3, <1>4
    <3> HIDE DEF GateInv
    <3> QED
      BY <2>1, <2>2, <2>4, <1>4, <3>2, <3>3, <3>4 DEF SaturatingSub
  <2> QED
    BY <1>8, <2>3, <2>4
<1> QED
  BY <1>6, <1>7, <1>9, <1>10

\* Steps that leave age, peak and the quota's promises of the other domains.
LEMMA PromisesKept ==
  ASSUME GateInv, TypeOK', UNCHANGED <<age, peak>>,
         \A e \in Domains :
           /\ opened'[e] + calling'[e] <= opened[e] + calling[e]
           /\ opened'[e] + calling'[e] <= sent'[e] + Uncounted(e)'
           /\ Uncounted(e)' <= Uncounted(e)
  PROVE  GateInv'
<1>1. \A e \in Domains :
        /\ e \in Scopes
        /\ opened[e] \in Nat /\ calling[e] \in Nat /\ due[e] \in Nat
        /\ lost[e] \in Nat /\ peak[e] \in Nat
        /\ opened'[e] \in Nat /\ calling'[e] \in Nat /\ due'[e] \in Nat
        /\ lost'[e] \in Nat
  BY DEF GateInv, TypeOK, Counts, Scopes
<1>2. \A e \in Domains : Cap(e) \in Nat /\ Cap(e)' = Cap(e)
  BY <1>1, CapsTyped DEF GateInv, Cap
<1>3. Accounted'
  BY DEF Accounted
<1>4. PeakSeen'
  BY <1>1 DEF GateInv, PeakSeen, Uncounted
<1>5. LetThrough'
  BY <1>1, <1>2 DEF GateInv, LetThrough, SaturatingSub
<1> QED
  BY <1>3, <1>4, <1>5 DEF GateInv

LEMMA InsertKeeps ==
  ASSUME GateInv, NEW d \in Domains, Insert(d)
  PROVE  GateInv'
<1>1. TypeOK'
  BY DEF GateInv, Insert, Plus, TypeOK, Counts, countVars, dayVars
<1>2. UNCHANGED <<age, peak>>
  BY DEF Insert, dayVars
<1>3. \A e \in Domains : opened[e] + calling[e] <= sent[e] + Uncounted(e)
  BY DEF GateInv, Accounted
<1>4. \A e \in Domains :
        /\ opened'[e] + calling'[e] = opened[e] + calling[e]
        /\ Uncounted(e)' = Uncounted(e) /\ sent'[e] = sent[e]
        /\ Uncounted(e) \in Int
        /\ opened[e] + calling[e] \in Int
  BY DEF GateInv, Insert, Plus, TypeOK, Counts, Uncounted, countVars
<1> QED
  BY <1>1, <1>2, <1>3, <1>4, PromisesKept

LEMMA InsertFailsKeeps ==
  ASSUME GateInv, NEW d \in Domains, InsertFails(d)
  PROVE  GateInv'
<1>1. TypeOK'
  BY DEF GateInv, InsertFails, Plus, TypeOK, Counts, countVars, histVars, dayVars
<1>2. UNCHANGED <<age, peak, opened, due, lost, sent>>
  BY DEF InsertFails, dayVars, histVars, countVars
<1>3. \A e \in Domains : opened[e] + calling[e] <= sent[e] + Uncounted(e)
  BY DEF GateInv, Accounted
<1>4. \A e \in Domains :
        /\ opened[e] \in Nat /\ calling[e] \in Nat /\ due[e] \in Nat
        /\ lost[e] \in Nat /\ sent[e] \in Nat
        /\ calling'[e] = calling[e] \/ calling'[e] = calling[e] - 1
  BY DEF GateInv, InsertFails, Plus, TypeOK, Counts, Scopes
<1>5. \A e \in Domains :
        /\ opened'[e] + calling'[e] <= opened[e] + calling[e]
        /\ opened'[e] + calling'[e] <= sent'[e] + Uncounted(e)'
        /\ Uncounted(e)' <= Uncounted(e)
  BY <1>2, <1>3, <1>4 DEF Uncounted
<1> QED
  BY <1>1, <1>2, <1>5, PromisesKept

LEMMA SendKeeps ==
  ASSUME GateInv, NEW d \in Domains, Send(d)
  PROVE  GateInv'
<1> USE DEF GateInv
<1>1. TypeOK'
  <2>1. sent' \in [Scopes -> Nat]
    BY DEF Send, Counted, TypeOK, Scopes
  <2>2. due' \in Counts /\ later' \in Counts /\ hour' \in Nat
    BY DEF Send, Plus, TypeOK, Counts
  <2> QED
    BY <2>1, <2>2 DEF Send, TypeOK, histVars, dayVars
<1>2. UNCHANGED <<age, peak, opened, calling, lost>>
  BY DEF Send, dayVars, histVars
<1>3. \A e \in Domains : opened[e] + calling[e] <= sent[e] + Uncounted(e)
  BY DEF Accounted
<1>4. \A e \in Domains :
        /\ opened[e] \in Nat /\ calling[e] \in Nat /\ due[e] \in Nat
        /\ lost[e] \in Nat /\ sent[e] \in Nat
        /\ \/ e # d /\ due'[e] = due[e] /\ sent'[e] = sent[e]
           \/ e = d /\ due'[e] = due[e] - 1 /\ sent'[e] = sent[e] + 1
  BY GateAssumption DEF Send, Counted, Plus, TypeOK, Counts, Scopes
<1>5. \A e \in Domains :
        /\ opened'[e] + calling'[e] <= opened[e] + calling[e]
        /\ opened'[e] + calling'[e] <= sent'[e] + Uncounted(e)'
        /\ Uncounted(e)' <= Uncounted(e)
  BY <1>2, <1>3, <1>4 DEF Uncounted
<1> QED
  BY <1>1, <1>2, <1>5, PromisesKept

LEMMA LoseKeeps ==
  ASSUME GateInv, NEW d \in Domains, Lose(d)
  PROVE  GateInv'
<1>1. TypeOK'
  BY DEF GateInv, Lose, Plus, TypeOK, Counts, countVars, histVars, dayVars
<1>2. UNCHANGED <<age, peak, opened, calling, sent>>
  BY DEF Lose, dayVars, histVars, countVars
<1>3. \A e \in Domains : opened[e] + calling[e] <= sent[e] + Uncounted(e)
  BY DEF GateInv, Accounted
<1>4. \A e \in Domains :
        /\ opened[e] + calling[e] \in Int /\ Uncounted(e) \in Int
        /\ Uncounted(e)' = Uncounted(e)
  BY DEF GateInv, Lose, Plus, TypeOK, Counts, Uncounted
<1> QED
  BY <1>1, <1>2, <1>3, <1>4, PromisesKept

LEMMA HourTurnsKeeps ==
  ASSUME GateInv, HourTurns
  PROVE  GateInv'
<1>1. TypeOK' /\ UNCHANGED <<age, peak>>
  BY DEF GateInv, HourTurns, TypeOK, queueVars, histVars, dayVars
<1>2. \A e \in Domains :
        /\ opened[e] + calling[e] \in Int /\ Uncounted(e) \in Int
        /\ Uncounted(e)' = Uncounted(e)
        /\ opened[e] + calling[e] <= sent[e] + Uncounted(e)
  BY DEF GateInv, HourTurns, TypeOK, Counts, Uncounted, Accounted, queueVars
<1> QED
  BY <1>1, <1>2, PromisesKept DEF HourTurns, queueVars, histVars

LEMMA BecomeDueKeeps ==
  ASSUME GateInv, NEW d \in Domains, BecomeDue(d)
  PROVE  GateInv'
<1> USE DEF GateInv
<1>1. /\ later' \in Counts /\ due' \in Counts
      /\ UNCHANGED <<calls, calling, lost, sent, hour, opened, age, days>>
      /\ PeakFollows
  BY DEF BecomeDue, Plus, Counts, TypeOK, countVars, dayVars
<1>2. \A e \in Domains :
        /\ Uncounted(e)' \in Nat /\ Uncounted(e) \in Nat
        /\ Uncounted(e) <= Uncounted(e)'
  BY <1>1 DEF BecomeDue, Plus, Uncounted, TypeOK, Counts
<1>3. \A e \in Domains :
        peak'[e] \in Nat /\ peak[e] <= peak'[e] /\ Uncounted(e)' <= peak'[e]
  BY <1>1, PeakGrows DEF TypeOK, Scopes
<1>4. peak' \in [Scopes -> Nat]
  BY <1>1, PeakTyped DEF TypeOK
<1>5. TypeOK'
  BY <1>1, <1>4 DEF TypeOK
<1>6. \A e \in Domains :
        /\ opened[e] \in Nat /\ calling[e] \in Nat /\ sent[e] \in Nat
        /\ peak[e] \in Nat /\ Cap(e) \in Nat /\ Cap(e)' = Cap(e)
  BY <1>1, CapsTyped DEF TypeOK, Counts, Scopes, Cap
<1>7. Accounted'
  BY <1>1, <1>2, <1>6 DEF Accounted
<1>8. PeakSeen'
  BY <1>3 DEF PeakSeen
<1>9. LetThrough'
  BY <1>1, <1>3, <1>6 DEF LetThrough, SaturatingSub
<1> QED
  BY <1>5, <1>7, <1>8, <1>9

LEMMA NewDayKeeps ==
  ASSUME GateInv, NewDay
  PROVE  GateInv'
<1> USE DEF GateInv
<1>1. TypeOK'
  <2>1. age' \in [Scopes -> Nat] /\ sent' \in [Scopes -> Nat] /\ hour' \in Nat
    BY DEF NewDay, TypeOK
  <2>2. opened' \in Counts /\ lost' \in Counts /\ calling' \in Counts /\ due' \in Counts
    BY DEF NewDay, TypeOK, Counts, None
  <2>4. \A s \in Scopes : Uncounted(s)' \in Nat
    <3>1. Total(calling') \in Nat /\ Total(due') \in Nat /\ Total(lost') \in Nat
      BY <2>2, TotalTyped
    <3> QED
      BY <2>2, <3>1 DEF Uncounted, Counts
  <2>5. peak' \in [Scopes -> Nat]
    BY <2>4 DEF NewDay
  <2>3. days' \in 0 .. MaxDays
    BY GateAssumption DEF NewDay, TypeOK
  <2> QED
    BY <2>1, <2>2, <2>3, <2>5 DEF NewDay, TypeOK
<1>2. \A e \in Domains :
        /\ e \in Scopes /\ calling[e] \in Nat /\ due[e] \in Nat
        /\ calling'[e] = calling[e] /\ due'[e] = due[e] /\ lost'[e] = 0
        /\ opened'[e] = 0 /\ sent'[e] = 0 /\ peak'[e] = calling[e] + due[e]
  BY DEF NewDay, None, TypeOK, Counts, Scopes, Uncounted
<1>3. \A e \in Domains : Cap(e)' \in Nat /\ Cap(e)' >= 1
  BY <1>1, <1>2, CapPositive, GateAssumption DEF TypeOK, Cap
<1>4. Accounted' /\ PeakSeen'
  BY <1>2 DEF Accounted, PeakSeen, Uncounted
<1>5. LetThrough'
  BY <1>2, <1>3 DEF LetThrough, SaturatingSub
<1> QED
  BY <1>1, <1>4, <1>5

LEMMA StutterKeeps ==
  ASSUME GateInv, UNCHANGED vars
  PROVE  GateInv'
  BY DEF GateInv, TypeOK, Accounted, PeakSeen, LetThrough, Uncounted, Cap,
         vars, queueVars, countVars, histVars, dayVars

-----------------------------------------------------------------------------
(***************************************************************************)
(* The invariant behind the quota: what was let through is counted or      *)
(* uncounted, and was let through while the counters were below the cap.   *)
(***************************************************************************)
THEOREM GateInvariant == Spec => []GateInv
<1>1. Init => GateInv
  BY InitHolds
<1>2. GateInv /\ [Next]_vars => GateInv'
  <2> SUFFICES ASSUME GateInv, [Next]_vars PROVE GateInv'
    OBVIOUS
  <2>1. ASSUME NEW d \in Domains,
               \/ Decide(d) \/ Insert(d) \/ InsertFails(d)
               \/ BecomeDue(d) \/ Send(d) \/ Lose(d)
        PROVE  GateInv'
    BY <2>1, DecideKeeps, InsertKeeps, InsertFailsKeeps, BecomeDueKeeps,
       SendKeeps, LoseKeeps
  <2>2. HourTurns \/ NewDay \/ UNCHANGED vars => GateInv'
    BY HourTurnsKeeps, NewDayKeeps, StutterKeeps
  <2> QED
    BY <2>1, <2>2 DEF Next
<1> QED
  BY <1>1, <1>2, PTL DEF Spec

\* Every variable of the gate keeps its type.
THEOREM TypeCorrect == Spec => []TypeOK
<1>1. GateInv => TypeOK
  BY DEF GateInv
<1> QED
  BY <1>1, GateInvariant, PTL

(***************************************************************************)
(* The messages of a domain let through in a day exceed its cap by fewer   *)
(* than were uncounted at one time, and not at all if they come one by     *)
(* one; for any number of domains, calls, retries and lost deliveries.     *)
(***************************************************************************)
THEOREM DomainBounded == Spec => []DomainOvershootBounded
<1>1. GateInv => DomainOvershootBounded
  <2> SUFFICES ASSUME GateInv, NEW d \in Domains
               PROVE  opened[d] <= Cap(d) + SaturatingSub(peak[d], 1)
    BY DEF DomainOvershootBounded
  <2>1. /\ opened[d] \in Nat /\ calling[d] \in Nat /\ peak[d] \in Nat
        /\ Cap(d) \in Nat
    BY CapsTyped DEF GateInv, TypeOK, Counts, Scopes
  <2>2. opened[d] + calling[d] <= Cap(d) + SaturatingSub(peak[d], 1)
    BY DEF GateInv, LetThrough
  <2> QED
    BY <2>1, <2>2 DEF SaturatingSub
<1> QED
  BY <1>1, GateInvariant, PTL

-----------------------------------------------------------------------------
(* The IP *)

\* The totals of the variables are numbers.
LEMMA TotalsTyped ==
  ASSUME TypeOK
  PROVE  /\ Total(opened) \in Nat /\ Total(calling) \in Nat /\ Total(due) \in Nat
         /\ Total(lost) \in Nat /\ peak[Ip] \in Nat
         /\ sent[Ip] \in Nat /\ Cap(Ip) \in Nat /\ Cap(Ip) >= 1
  BY TotalTyped, CapsTyped DEF TypeOK, Scopes

LEMMA IpInitHolds ==
  ASSUME Init
  PROVE  IpInv
<1>1. TypeOK /\ GateInv
  BY InitHolds DEF GateInv
<1>2. Total(opened) <= sent[Ip] /\ sent[Ip] <= Cap(Ip)
  BY GateAssumption DEF Init, Scopes
<1>3. Total(calling) = 0 /\ Total(due) = 0 /\ Total(lost) = 0 /\ peak[Ip] = 0
  BY TotalOfNone DEF Init, Scopes
<1> QED
  BY <1>1, <1>2, <1>3, TotalsTyped DEF IpInv, IpAccounted, IpLetThrough, SaturatingSub

LEMMA IpDecideKeeps ==
  ASSUME GateInv, GateInv', IpInv, NEW d \in Domains, Decide(d)
  PROVE  IpInv'
<1>1. PICK v \in Verdicts :
        IF apply_volume(Quota(d), v) = 0
          THEN later' = Plus(later, d, 1) /\ UNCHANGED calling
          ELSE calling' = Plus(calling, d, 1) /\ UNCHANGED later
  BY DEF Decide
<1>2. UNCHANGED <<due, lost, opened, sent, age>>
  BY DEF Decide, countVars, dayVars
<1>3. TypeOK /\ TypeOK'
  BY DEF GateInv
<1>4. Uncounted(Ip)' <= peak'[Ip] /\ peak[Ip] <= peak'[Ip]
  BY <1>3, PeakGrows DEF Decide, TypeOK, Scopes
<1>5. Total(calling') + Total(due') + Total(lost') <= peak'[Ip]
  BY <1>4, GateAssumption DEF Uncounted
<1>6. /\ Total(opened) \in Nat /\ Total(calling) \in Nat /\ Total(due) \in Nat
      /\ Total(lost) \in Nat /\ peak[Ip] \in Nat
      /\ sent[Ip] \in Nat /\ Cap(Ip) \in Nat /\ Cap(Ip) >= 1
      /\ Total(calling') \in Nat /\ peak'[Ip] \in Nat
  BY <1>3, TotalsTyped, TotalTyped DEF TypeOK, Scopes
<1>7. Cap(Ip)' = Cap(Ip)
  BY <1>2 DEF Cap
<1>8. IpAccounted'
  BY <1>2 DEF IpInv, IpAccounted
<1>9. CASE apply_volume(Quota(d), v) = 0
  <2>1. UNCHANGED calling
    BY <1>1, <1>9
  <2> QED
    BY <1>2, <1>4, <1>6, <1>7, <1>8, <2>1 DEF IpInv, IpLetThrough, SaturatingSub
<1>10. CASE apply_volume(Quota(d), v) # 0
  <2>1. calling' = Plus(calling, d, 1)
    BY <1>1, <1>10
  <2>2. Total(calling') = Total(calling) + 1
    BY <1>3, <2>1, TotalPlusOne DEF TypeOK
  <2>3. sent[Ip] + 1 <= Cap(Ip)
    BY <1>3, <1>10, RoomLeft
  <2>4. Total(opened) <= sent[Ip] + Total(due) + Total(lost)
    BY DEF IpInv, IpAccounted
  <2>5. Total(opened) + Total(calling') <= Cap(Ip) + SaturatingSub(peak'[Ip], 1)
    BY <1>2, <1>5, <1>6, <2>2, <2>3, <2>4 DEF SaturatingSub
  <2> QED
    BY <1>2, <1>7, <1>8, <2>5 DEF IpInv, IpLetThrough
<1> QED
  BY <1>9, <1>10

\* Steps that let nothing more through keep the promise of the IP.
LEMMA IpPromiseKept ==
  ASSUME GateInv, GateInv', IpInv, UNCHANGED age, peak[Ip] <= peak'[Ip],
         Total(opened') + Total(calling') <= Total(opened) + Total(calling),
         IpAccounted'
  PROVE  IpInv'
<1>1. TypeOK /\ TypeOK'
  BY DEF GateInv
<1>3. /\ Total(opened) \in Nat /\ Total(calling) \in Nat /\ peak[Ip] \in Nat
      /\ Total(opened') \in Nat /\ Total(calling') \in Nat /\ peak'[Ip] \in Nat
      /\ Cap(Ip) \in Nat
  BY <1>1, TotalsTyped, TotalTyped DEF TypeOK, Scopes
<1>4. Cap(Ip)' = Cap(Ip)
  BY DEF Cap
<1>5. Total(opened) + Total(calling) <= Cap(Ip) + SaturatingSub(peak[Ip], 1)
  BY DEF IpInv, IpLetThrough
<1>6. Total(opened') + Total(calling') <= Cap(Ip) + SaturatingSub(peak'[Ip], 1)
  BY <1>3, <1>5 DEF SaturatingSub
<1> QED
  BY <1>4, <1>6 DEF IpInv, IpLetThrough

LEMMA IpQueueKeeps ==
  ASSUME GateInv, GateInv', IpInv, NEW d \in Domains,
         Insert(d) \/ InsertFails(d) \/ BecomeDue(d) \/ Send(d) \/ Lose(d)
  PROVE  IpInv'
<1>1. /\ TypeOK /\ TypeOK'
      /\ opened \in Counts /\ calling \in Counts /\ due \in Counts /\ lost \in Counts
      /\ opened' \in Counts /\ calling' \in Counts /\ due' \in Counts /\ lost' \in Counts
      /\ peak \in [Scopes -> Nat] /\ peak' \in [Scopes -> Nat]
  BY DEF GateInv, TypeOK
<1>2. UNCHANGED age
  BY DEF Insert, InsertFails, BecomeDue, Send, Lose, dayVars
<1>3. peak[Ip] <= peak'[Ip]
  <2>1. CASE UNCHANGED peak
    BY <1>1, <2>1 DEF Scopes
  <2>2. CASE BecomeDue(d)
    BY <1>1, <2>2, PeakGrows DEF BecomeDue, Scopes
  <2> QED
    BY <2>1, <2>2 DEF Insert, InsertFails, Send, Lose, histVars
<1>4. /\ Total(opened) \in Nat /\ Total(calling) \in Nat /\ Total(due) \in Nat
      /\ Total(lost) \in Nat /\ sent[Ip] \in Nat
  BY <1>1, TotalsTyped
<1>5. Total(opened) <= sent[Ip] + Total(due) + Total(lost)
  BY DEF IpInv, IpAccounted
<1>6. CASE Insert(d)
  <2>1. /\ calling' = Plus(calling, d, -1) /\ due' = Plus(due, d, 1)
        /\ opened' = Plus(opened, d, 1) /\ UNCHANGED <<lost, sent>>
    BY <1>6 DEF Insert, countVars
  <2>2. /\ Total(calling') = Total(calling) - 1 /\ Total(due') = Total(due) + 1
        /\ Total(opened') = Total(opened) + 1
    BY <1>1, <2>1, TotalPlusOne, TotalMinusOne
  <2>3. IpAccounted'
    BY <1>4, <1>5, <2>1, <2>2 DEF IpAccounted
  <2> QED
    BY <1>2, <1>3, <1>4, <2>2, <2>3, IpPromiseKept
<1>7. CASE InsertFails(d)
  <2>1. calling' = Plus(calling, d, -1) /\ UNCHANGED <<due, lost, opened, sent>>
    BY <1>7 DEF InsertFails, countVars, histVars
  <2>2. Total(calling') = Total(calling) - 1
    BY <1>1, <2>1, TotalMinusOne
  <2>3. IpAccounted'
    BY <1>5, <2>1 DEF IpAccounted
  <2> QED
    BY <1>2, <1>3, <1>4, <2>1, <2>2, <2>3, IpPromiseKept
<1>8. CASE BecomeDue(d)
  <2>1. due' = Plus(due, d, 1) /\ UNCHANGED <<calling, lost, opened, sent>>
    BY <1>8 DEF BecomeDue, countVars
  <2>2. Total(due') = Total(due) + 1
    BY <1>1, <2>1, TotalPlusOne
  <2>3. IpAccounted'
    BY <1>4, <1>5, <2>1, <2>2 DEF IpAccounted
  <2> QED
    BY <1>2, <1>3, <1>4, <2>1, <2>3, IpPromiseKept
<1>9. CASE Send(d)
  <2>1. due' = Plus(due, d, -1) /\ UNCHANGED <<calling, lost, opened>>
    BY <1>9 DEF Send, histVars
  <2>2. sent'[Ip] = sent[Ip] + 1
    BY <1>1, <1>9, GateAssumption DEF Send, Counted, TypeOK, Scopes
  <2>3. Total(due') = Total(due) - 1
    BY <1>1, <2>1, TotalMinusOne
  <2>4. IpAccounted'
    BY <1>4, <1>5, <2>1, <2>2, <2>3 DEF IpAccounted
  <2> QED
    BY <1>2, <1>3, <1>4, <2>1, <2>4, IpPromiseKept
<1>10. CASE Lose(d)
  <2>1. /\ due' = Plus(due, d, -1) /\ lost' = Plus(lost, d, 1)
        /\ UNCHANGED <<calling, opened, sent>>
    BY <1>10 DEF Lose, countVars, histVars
  <2>2. Total(due') = Total(due) - 1 /\ Total(lost') = Total(lost) + 1
    BY <1>1, <2>1, TotalPlusOne, TotalMinusOne
  <2>3. IpAccounted'
    BY <1>4, <1>5, <2>1, <2>2 DEF IpAccounted
  <2> QED
    BY <1>2, <1>3, <1>4, <2>1, <2>3, IpPromiseKept
<1> QED
  BY <1>6, <1>7, <1>8, <1>9, <1>10

LEMMA IpNewDayKeeps ==
  ASSUME GateInv, GateInv', NewDay
  PROVE  IpInv'
<1>1. TypeOK'
  BY DEF GateInv
<1>2. Total(opened') = 0
  BY TotalOfNone DEF NewDay
<1>3. Total(calling') + Total(due') + Total(lost') = peak'[Ip]
  BY GateAssumption DEF NewDay, Uncounted, Scopes
<1>4. /\ Total(calling') \in Nat /\ Total(due') \in Nat /\ Total(lost') \in Nat
      /\ peak'[Ip] \in Nat /\ sent'[Ip] \in Nat
      /\ Cap(Ip)' \in Nat /\ Cap(Ip)' >= 1
  BY <1>1, TotalTyped, CapPositive, GateAssumption DEF TypeOK, Scopes, Cap
<1>5. Total(opened') + Total(calling') <= Cap(Ip)' + SaturatingSub(peak'[Ip], 1)
  BY <1>2, <1>3, <1>4 DEF SaturatingSub
<1>6. Total(opened') <= sent'[Ip] + Total(due') + Total(lost')
  BY <1>2, <1>4
<1> QED
  BY <1>5, <1>6 DEF IpInv, IpAccounted, IpLetThrough

(***************************************************************************)
(* The invariant behind the quota of the IP: what all domains let through  *)
(* is counted for the IP or uncounted, and was let through while the IP's  *)
(* count was below its cap.                                                *)
(***************************************************************************)
THEOREM IpInvariant == Spec => []IpInv
<1>1. Init => IpInv
  BY IpInitHolds
<1>2. GateInv /\ GateInv' /\ IpInv /\ [Next]_vars => IpInv'
  <2> SUFFICES ASSUME GateInv, GateInv', IpInv, [Next]_vars PROVE IpInv'
    OBVIOUS
  <2>1. ASSUME NEW d \in Domains, Decide(d) PROVE IpInv'
    BY <2>1, IpDecideKeeps
  <2>2. ASSUME NEW d \in Domains,
               Insert(d) \/ InsertFails(d) \/ BecomeDue(d) \/ Send(d) \/ Lose(d)
        PROVE  IpInv'
    BY <2>2, IpQueueKeeps
  <2>3. CASE NewDay
    BY <2>3, IpNewDayKeeps
  <2>4. CASE HourTurns \/ UNCHANGED vars
    BY <2>4 DEF HourTurns, IpInv, IpAccounted, IpLetThrough, Cap,
                vars, queueVars, countVars, histVars, dayVars
  <2> QED
    BY <2>1, <2>2, <2>3, <2>4 DEF Next
<1> QED
  BY <1>1, <1>2, GateInvariant, PTL DEF Spec

(***************************************************************************)
(* All domains together exceed the IP's cap of a day by fewer than were    *)
(* uncounted at one time, and not at all if messages come one by one.      *)
(***************************************************************************)
THEOREM IpBounded == Spec => []IpOvershootBounded
<1>1. GateInv /\ IpInv => IpOvershootBounded
  <2> SUFFICES ASSUME GateInv, IpInv PROVE IpOvershootBounded
    OBVIOUS
  <2>1. /\ Total(opened) \in Nat /\ Total(calling) \in Nat /\ peak[Ip] \in Nat
        /\ Cap(Ip) \in Nat
    BY TotalsTyped DEF GateInv
  <2>2. Total(opened) + Total(calling) <= Cap(Ip) + SaturatingSub(peak[Ip], 1)
    BY DEF IpInv, IpLetThrough
  <2> QED
    BY <2>1, <2>2 DEF IpOvershootBounded, SaturatingSub
<1> QED
  BY <1>1, GateInvariant, IpInvariant, PTL
=============================================================================
