--------------------------- MODULE DecisionProofs ---------------------------
(***************************************************************************)
(* What the decisions of the plugin promise, for every input: a throttle   *)
(* takes nothing that cannot be given back, a check that passes rests on   *)
(* current evidence, an image that is verified has earned it, attestations *)
(* that fail verification change no verdict, an outage changes no verdict  *)
(* on a bundle, and a provenance that passes names what the policy trusts  *)
(* and does not contradict itself. A decision is one step, so the work is  *)
(* in the operators it is built from; the last result takes an induction   *)
(* over the resolved dependencies.                                         *)
(***************************************************************************)
EXTENDS Decisions, WellFoundedInduction, TLAPS

-----------------------------------------------------------------------------
(* Throttles *)

\* The larger of two numbers.
LEMMA MaxOfTwo ==
    ASSUME NEW a \in Int, NEW b \in Int
    PROVE  /\ Max({a, b}) \in {a, b}
           /\ Max({a, b}) >= a /\ Max({a, b}) >= b
  <1>1. \E x \in {a, b} : \A y \in {a, b} : x >= y
    OBVIOUS
  <1>2. Max({a, b}) \in {a, b} /\ \A y \in {a, b} : Max({a, b}) >= y
    BY <1>1 DEF Max
  <1>3. QED
    BY <1>2

\* The smaller of two numbers.
LEMMA MinOfTwo ==
    ASSUME NEW a \in Int, NEW b \in Int
    PROVE  /\ Min({a, b}) \in {a, b}
           /\ Min({a, b}) <= a /\ Min({a, b}) <= b
  <1>1. \E x \in {a, b} : \A y \in {a, b} : x <= y
    OBVIOUS
  <1>2. Min({a, b}) \in {a, b} /\ \A y \in {a, b} : Min({a, b}) <= y
    BY <1>1 DEF Min
  <1>3. QED
    BY <1>2

\* An int64 product is never larger than the exact one it stands for.
LEMMA WrapIsBounded ==
    ASSUME NEW x \in Nat
    PROVE  Wrap(x) \in Int /\ Wrap(x) <= x
  <1> DEFINE w == 2 * (IntMax + 1)
  <1>1. w \in Nat /\ w > 0
    BY LimitsAssumption
  <1>2. x % w \in 0..(w - 1) /\ x % w <= x
    BY <1>1
  <1>3. QED
    BY <1>1, <1>2, LimitsAssumption DEF Wrap

\* A hundredth is rounded towards zero.
LEMMA QuoIsBounded ==
    ASSUME NEW a \in Int, NEW l \in Nat, a <= 100 * l
    PROVE  Quo(a, 100) \in Int /\ Quo(a, 100) <= l
  BY DEF Quo

\* A percentage, defaulted and capped, is one.
LEMMA PercentsAreInRange ==
    ASSUME NEW cfg \in Percents
    PROVE  throttlePercents(cfg).cpu \in 1..100 /\ throttlePercents(cfg).mem \in 1..100
  <1> DEFINE c == IF cfg.cpu <= 0 THEN defaultThrottleCPUPercent ELSE cfg.cpu
             m == IF cfg.mem <= 0 THEN defaultThrottleMemPercent ELSE cfg.mem
  <1>1. c \in Nat \ {0} /\ m \in Nat \ {0}
    BY DEF Percents, defaultThrottleCPUPercent, defaultThrottleMemPercent
  <1>2. throttlePercents(cfg) = [cpu |-> Min({c, 100}), mem |-> Min({m, 100})]
    BY DEF throttlePercents, percentDivisor
  <1> HIDE DEF c, m
  <1>3. \A n \in Nat \ {0} : Min({n, 100}) \in 1..100
    <2>1. TAKE n \in Nat \ {0}
    <2>2. n \in Int /\ 100 \in Int
      OBVIOUS
    <2>3. Min({n, 100}) \in {n, 100} /\ Min({n, 100}) <= 100
      BY <2>2, MinOfTwo, Zenon
    <2>4. QED
      BY <2>3
  <1>4. QED
    BY <1>1, <1>2, <1>3

\* A percentage of a limit, before the division.
LEMMA ProductIsBounded ==
    ASSUME NEW l \in Nat, NEW p \in 1..100
    PROVE  l * p \in Nat /\ l * p <= 100 * l
  <1>1. l * (100 - p) >= 0
    OBVIOUS
  <1>2. QED
    BY <1>1

\* A quota or a memory limit that is scaled down.
LEMMA ScaledLimitIs ==
    ASSUME NEW l \in OrNoLimit(Int), NEW p \in 1..100, NEW floor \in Nat
    PROVE  /\ ScaledLimit(l, p, floor) \in OrNoLimit(Int)
           /\ ScaledLimit(l, p, floor) = NoLimit <=> l = NoLimit
           /\ l \in Nat => ScaledLimit(l, p, floor) <= Max({l, floor})
  <1>1. CASE l = NoLimit
    BY <1>1, LimitsAssumption DEF ScaledLimit, OrNoLimit
  <1>2. CASE l # NoLimit
    <2>1. l \in Int /\ l * p \in Int
      BY <1>2 DEF OrNoLimit
    <2>2. Wrap(l * p) \in Int
      <3>1. 2 * (IntMax + 1) \in Nat \ {0}
        BY LimitsAssumption
      <3>2. (l * p) % (2 * (IntMax + 1)) \in Int
        BY <2>1, <3>1
      <3>3. QED
        BY <3>1, <3>2 DEF Wrap
    <2>3. Quo(Wrap(l * p), 100) \in Int /\ floor \in Int
      BY <2>2 DEF Quo
    <2>4. ScaledLimit(l, p, floor) = Max({Quo(Wrap(l * p), 100), floor})
      BY <1>2 DEF ScaledLimit, percentDivisor
    <2>5. ScaledLimit(l, p, floor) \in Int
      <3>1. Max({Quo(Wrap(l * p), 100), floor}) \in {Quo(Wrap(l * p), 100), floor}
        BY <2>3, MaxOfTwo, Zenon
      <3>2. QED
        BY <2>3, <2>4, <3>1
    <2>6. ASSUME l \in Nat PROVE ScaledLimit(l, p, floor) <= Max({l, floor})
      <3>1. l * p \in Nat /\ l * p <= 100 * l
        BY <2>6, ProductIsBounded
      <3>2. Wrap(l * p) <= 100 * l
        BY <2>2, <2>6, <3>1, WrapIsBounded
      <3>3. Quo(Wrap(l * p), 100) <= l
        BY <2>2, <2>6, <3>2, QuoIsBounded
      <3>4. Max({l, floor}) \in {l, floor} /\ Max({l, floor}) >= l /\ Max({l, floor}) >= floor
        BY <2>1, <2>3, MaxOfTwo, Zenon
      <3>5. ScaledLimit(l, p, floor) \in {Quo(Wrap(l * p), 100), floor}
        <4>1. Max({Quo(Wrap(l * p), 100), floor}) \in {Quo(Wrap(l * p), 100), floor}
          BY <2>3, MaxOfTwo, Zenon
        <4>2. QED
          BY <2>4, <4>1
      <3>6. QED
        BY <2>3, <2>6, <3>3, <3>4, <3>5
    <2>7. QED
      BY <1>2, <2>5, <2>6, LimitsAssumption DEF OrNoLimit
  <1>3. QED
    BY <1>1, <1>2

\* CPU shares that are scaled down.
LEMMA ScaledSharesIs ==
    ASSUME NEW s \in OrNoLimit(Nat), NEW p \in 1..100
    PROVE  /\ ScaledShares(s, p) \in OrNoLimit(Nat)
           /\ ScaledShares(s, p) = NoLimit <=> s = NoLimit
           /\ s # NoLimit => ScaledShares(s, p) <= Max({s, minCPUShares})
  <1>1. CASE s = NoLimit
    BY <1>1, LimitsAssumption DEF ScaledShares, OrNoLimit
  <1>2. CASE s # NoLimit
    <2> DEFINE w == 2 * (IntMax + 1)
               r == ((s * p) % w) \div 100
    <2>1. s \in Nat /\ s * p \in Nat /\ s * p <= 100 * s
      BY <1>2, ProductIsBounded DEF OrNoLimit
    <2>2. w \in Nat /\ w > 0
      BY LimitsAssumption
    <2>3. (s * p) % w \in Nat /\ (s * p) % w <= s * p
      BY <2>1, <2>2
    <2>4. r \in Nat /\ r <= s
      BY <2>1, <2>3
    <2>5. ScaledShares(s, p) = Max({r, minCPUShares}) /\ minCPUShares = 2
      BY <1>2 DEF ScaledShares, percentDivisor, minCPUShares
    <2> HIDE DEF r
    <2>6. Max({r, 2}) \in {r, 2}
      <3>1. r \in Int /\ 2 \in Int
        BY <2>4
      <3>2. QED
        BY <3>1, MaxOfTwo, Zenon
    <2>7. ScaledShares(s, p) \in Nat /\ ScaledShares(s, p) <= Max({s, minCPUShares})
      <3>1. s \in Int /\ 2 \in Int
        BY <2>1
      <3>2. Max({s, 2}) \in {s, 2} /\ Max({s, 2}) >= s /\ Max({s, 2}) >= 2
        BY <3>1, MaxOfTwo, Zenon
      <3>3. QED
        BY <2>1, <2>4, <2>5, <2>6, <3>2
    <2>8. QED
      BY <1>2, <2>7, LimitsAssumption DEF OrNoLimit
  <1>3. QED
    BY <1>1, <1>2

\* A throttle only touches limits that are set, and keeps below them or their
\* floors.
LEMMA ThrottledIs ==
    ASSUME NEW o \in Limits, NEW cfg \in Percents, NEW t, t = throttled(o, cfg)
    PROVE  /\ t \in Limits
           /\ \A l \in {"quota", "shares", "mem"} : o[l] = NoLimit => t[l] = NoLimit
           /\ (o.quota \in Nat /\ t.quota # NoLimit) => t.quota <= Max({o.quota, minCPUQuotaMicros})
           /\ (o.shares \in Nat /\ t.shares # NoLimit) => t.shares <= Max({o.shares, minCPUShares})
           /\ (o.mem \in Nat /\ t.mem # NoLimit) => t.mem <= Max({o.mem, minMemoryLimitBytes})
  <1> DEFINE p == throttlePercents(cfg)
             q == ScaledLimit(o.quota, p.cpu, minCPUQuotaMicros)
             s == ScaledShares(o.shares, p.cpu)
             m == ScaledLimit(o.mem, p.mem, minMemoryLimitBytes)
  <1>1. p.cpu \in 1..100 /\ p.mem \in 1..100
    BY PercentsAreInRange
  <1>2. o.quota \in OrNoLimit(Int) /\ o.shares \in OrNoLimit(Nat) /\ o.mem \in OrNoLimit(Int)
    BY DEF Limits
  <1>3. minCPUQuotaMicros \in Nat /\ minMemoryLimitBytes \in Nat
    BY DEF minCPUQuotaMicros, minMemoryLimitBytes
  <1>4. t = [quota |-> q, shares |-> s, mem |-> IF p.mem < percentDivisor THEN m ELSE NoLimit]
    BY DEF throttled
  <1> HIDE DEF p
  <1>5. /\ q \in OrNoLimit(Int) /\ (q = NoLimit <=> o.quota = NoLimit)
        /\ o.quota \in Nat => q <= Max({o.quota, minCPUQuotaMicros})
    BY <1>1, <1>2, <1>3, ScaledLimitIs, Zenon
  <1>6. /\ s \in OrNoLimit(Nat) /\ (s = NoLimit <=> o.shares = NoLimit)
        /\ o.shares # NoLimit => s <= Max({o.shares, minCPUShares})
    BY <1>1, <1>2, ScaledSharesIs
  <1>7. /\ m \in OrNoLimit(Int) /\ (m = NoLimit <=> o.mem = NoLimit)
        /\ o.mem \in Nat => m <= Max({o.mem, minMemoryLimitBytes})
    BY <1>1, <1>2, <1>3, ScaledLimitIs, Zenon
  <1> HIDE DEF q, s, m
  <1>8. t.quota = q /\ t.shares = s /\ t.mem \in {m, NoLimit}
    BY <1>4
  <1>9. t \in Limits
    <2>1. (IF p.mem < percentDivisor THEN m ELSE NoLimit) \in OrNoLimit(Int)
      BY <1>7 DEF OrNoLimit
    <2>2. QED
      BY <1>4, <1>5, <1>6, <2>1 DEF Limits
  <1>10. \A l \in {"quota", "shares", "mem"} : o[l] = NoLimit => t[l] = NoLimit
    BY <1>5, <1>6, <1>7, <1>8
  <1>11. (o.shares \in Nat /\ t.shares # NoLimit) => t.shares <= Max({o.shares, minCPUShares})
    BY <1>6, <1>8
  <1>12. QED
    BY <1>5, <1>7, <1>8, <1>9, <1>10, <1>11

\* What an update does to limits.
LEMMA UpdatedIs ==
    ASSUME NEW c \in Limits, NEW u \in Limits
    PROVE  /\ Updated(c, u) \in Limits
           /\ \A l \in {"quota", "shares", "mem"} :
                 Updated(c, u)[l] = IF u[l] = NoLimit THEN c[l] ELSE u[l]
  <1>1. DOMAIN c = {"quota", "shares", "mem"}
    BY DEF Limits
  <1>2. \A l \in {"quota", "shares", "mem"} :
           Updated(c, u)[l] = IF u[l] = NoLimit THEN c[l] ELSE u[l]
    BY <1>1 DEF Updated
  <1>3. Updated(c, u) = [quota |-> Updated(c, u).quota, shares |-> Updated(c, u).shares,
                         mem |-> Updated(c, u).mem]
    BY <1>1 DEF Updated
  <1>4. QED
    BY <1>2, <1>3 DEF Limits

\* Limits are equal when all three are.
LEMMA LimitsAreEqual ==
    ASSUME NEW a \in Limits, NEW b \in Limits,
           \A l \in {"quota", "shares", "mem"} : a[l] = b[l]
    PROVE  a = b
  BY DEF Limits

\* Throttling and rolling back lead from the original limits to the throttled
\* ones and back, whatever the order and the repetitions.
LEMMA ThrottleSteps ==
    ASSUME NEW o \in Limits, NEW t \in Limits, NEW s \in {o, Updated(o, t)},
           \A l \in {"quota", "shares", "mem"} : o[l] = NoLimit => t[l] = NoLimit
    PROVE  /\ s \in Limits
           /\ Updated(s, t) = Updated(o, t)
           /\ Updated(s, o) = o
  <1>1. /\ Updated(o, t) \in Limits
        /\ \A l \in {"quota", "shares", "mem"} :
              Updated(o, t)[l] = IF t[l] = NoLimit THEN o[l] ELSE t[l]
    BY UpdatedIs
  <1>2. s \in Limits /\ \A l \in {"quota", "shares", "mem"} : s[l] \in {o[l], Updated(o, t)[l]}
    BY <1>1
  <1>3. /\ Updated(s, t) \in Limits /\ Updated(s, o) \in Limits
        /\ \A l \in {"quota", "shares", "mem"} :
              /\ Updated(s, t)[l] = IF t[l] = NoLimit THEN s[l] ELSE t[l]
              /\ Updated(s, o)[l] = IF o[l] = NoLimit THEN s[l] ELSE o[l]
    BY <1>2, UpdatedIs
  <1>4. Updated(s, t) = Updated(o, t)
    BY <1>1, <1>2, <1>3, LimitsAreEqual
  <1>5. Updated(s, o) = o
    BY <1>1, <1>2, <1>3, LimitsAreEqual
  <1>6. QED
    BY <1>2, <1>4, <1>5

\* An input stays one: only NextThrottle changes it.
LEMMA InputsAreKept ==
    ASSUME input \in Inputs, [NextThrottle]_input
    PROVE  input' \in Inputs
  <1>1. CASE UNCHANGED input
    BY <1>1
  <1>2. CASE NextThrottle
    <2> DEFINE o == input.original
               t == throttled(input.original, input.cfg)
    <2>1. input.about = "throttle"
      BY <1>2 DEF NextThrottle
    <2>2. input \in ThrottleInputs
      BY <2>1 DEF Inputs, DocumentInputs, ImageInputs, BundleInputs, ProvenanceInputs
    <2>3. /\ input \in [about : {"throttle"}, original : Limits, cfg : Percents, seen : Limits]
          /\ input.seen \in {o, Updated(o, t)}
      BY <2>2 DEF ThrottleInputs
    <2>4. o \in Limits /\ input.cfg \in Percents
      BY <2>3
    <2>5. /\ t \in Limits
          /\ \A l \in {"quota", "shares", "mem"} : o[l] = NoLimit => t[l] = NoLimit
      BY <2>4, ThrottledIs, Zenon
    <2>6. PICK seen \in {Updated(input.seen, t), Updated(input.seen, restored(o))} :
             input' = [input EXCEPT !.seen = seen]
      BY <1>2 DEF NextThrottle
    <2> HIDE DEF o, t
    <2>7. /\ Updated(input.seen, t) = Updated(o, t) /\ Updated(input.seen, o) = o
          /\ Updated(o, t) \in Limits
      BY <2>3, <2>4, <2>5, ThrottleSteps, UpdatedIs
    <2>8. seen \in {o, Updated(o, t)} /\ seen \in Limits
      BY <2>4, <2>6, <2>7 DEF restored
    <2>9. /\ input' \in [about : {"throttle"}, original : Limits, cfg : Percents, seen : Limits]
          /\ input'.seen = seen /\ input'.original = o /\ input'.cfg = input.cfg
      BY <2>3, <2>6, <2>8 DEF o
    <2>10. input'.seen \in {input'.original, Updated(input'.original, throttled(input'.original, input'.cfg))}
      BY <2>8, <2>9 DEF o, t
    <2>11. QED
      BY <2>9, <2>10 DEF Inputs, ThrottleInputs
  <1>3. QED
    BY <1>1, <1>2

\* An input stays an input.
LEMMA InputsHold == SpecDecisions => [](input \in Inputs)
  <1>1. input \in Inputs /\ [NextThrottle]_input => (input \in Inputs)'
    BY InputsAreKept
  <1>2. QED
    BY <1>1, PTL DEF SpecDecisions

\* A throttle is safe, whatever was seen of the container.
LEMMA ThrottleInputIsSafe ==
    ASSUME input \in Inputs
    PROVE  ThrottleIsSafe
  <1> SUFFICES ASSUME input.about = "throttle" PROVE ThrottleIsSafe
    BY DEF ThrottleIsSafe, NeverLoosens, ThrottleIsReversible
  <1> DEFINE o == input.original
             t == throttled(input.original, input.cfg)
  <1>1. /\ o \in Limits /\ input.cfg \in Percents /\ input.seen \in {o, Updated(o, t)}
    BY DEF Inputs, ThrottleInputs, DocumentInputs, ImageInputs, BundleInputs, ProvenanceInputs
  <1>2. /\ t \in Limits
        /\ \A l \in {"quota", "shares", "mem"} : o[l] = NoLimit => t[l] = NoLimit
        /\ (o.quota \in Nat /\ t.quota # NoLimit) => t.quota <= Max({o.quota, minCPUQuotaMicros})
        /\ (o.shares \in Nat /\ t.shares # NoLimit) => t.shares <= Max({o.shares, minCPUShares})
        /\ (o.mem \in Nat /\ t.mem # NoLimit) => t.mem <= Max({o.mem, minMemoryLimitBytes})
    BY <1>1, ThrottledIs, Zenon
  <1>3. /\ DOMAIN o = {"quota", "shares", "mem"} /\ DOMAIN t = {"quota", "shares", "mem"}
        /\ o.quota \in OrNoLimit(Int) /\ o.shares \in OrNoLimit(Nat) /\ o.mem \in OrNoLimit(Int)
    BY <1>1, <1>2 DEF Limits
  <1> HIDE DEF o, t
  <1>4. /\ Updated(o, t) \in Limits
        /\ \A l \in {"quota", "shares", "mem"} :
              Updated(o, t)[l] = IF t[l] = NoLimit THEN o[l] ELSE t[l]
    BY <1>1, <1>2, UpdatedIs
  <1>5. \A l \in {"quota", "shares", "mem"} :
           input.seen[l] \in {o[l], IF t[l] = NoLimit THEN o[l] ELSE t[l]}
    BY <1>1, <1>4
  <1>6. NeverLoosens
    <2>1. minCPUQuotaMicros \in Int /\ minCPUShares \in Int /\ minMemoryLimitBytes \in Int
      BY DEF minCPUQuotaMicros, minCPUShares, minMemoryLimitBytes
    <2>2. (o.quota # NoLimit /\ o.quota >= 0) => input.seen.quota <= Max({o.quota, minCPUQuotaMicros})
      <3> SUFFICES ASSUME o.quota # NoLimit, o.quota >= 0
                   PROVE  input.seen.quota <= Max({o.quota, minCPUQuotaMicros})
        OBVIOUS
      <3>1. o.quota \in Nat /\ o.quota \in Int
        BY <1>3 DEF OrNoLimit
      <3>2. Max({o.quota, minCPUQuotaMicros}) >= o.quota /\ Max({o.quota, minCPUQuotaMicros}) \in {o.quota, minCPUQuotaMicros}
        BY <2>1, <3>1, MaxOfTwo, Zenon
      <3>3. QED
        BY <1>2, <1>5, <2>1, <3>1, <3>2
    <2>3. (o.shares # NoLimit /\ o.shares >= 0) => input.seen.shares <= Max({o.shares, minCPUShares})
      <3> SUFFICES ASSUME o.shares # NoLimit, o.shares >= 0
                   PROVE  input.seen.shares <= Max({o.shares, minCPUShares})
        OBVIOUS
      <3>1. o.shares \in Nat /\ o.shares \in Int
        BY <1>3 DEF OrNoLimit
      <3>2. Max({o.shares, minCPUShares}) >= o.shares /\ Max({o.shares, minCPUShares}) \in {o.shares, minCPUShares}
        BY <2>1, <3>1, MaxOfTwo, Zenon
      <3>3. QED
        BY <1>2, <1>5, <2>1, <3>1, <3>2
    <2>4. (o.mem # NoLimit /\ o.mem >= 0) => input.seen.mem <= Max({o.mem, minMemoryLimitBytes})
      <3> SUFFICES ASSUME o.mem # NoLimit, o.mem >= 0
                   PROVE  input.seen.mem <= Max({o.mem, minMemoryLimitBytes})
        OBVIOUS
      <3>1. o.mem \in Nat /\ o.mem \in Int
        BY <1>3 DEF OrNoLimit
      <3>2. Max({o.mem, minMemoryLimitBytes}) >= o.mem /\ Max({o.mem, minMemoryLimitBytes}) \in {o.mem, minMemoryLimitBytes}
        BY <2>1, <3>1, MaxOfTwo, Zenon
      <3>3. QED
        BY <1>2, <1>5, <2>1, <3>1, <3>2
    <2>5. QED
      BY <1>3, <2>2, <2>3, <2>4 DEF NeverLoosens, o
  <1>7. ThrottleIsReversible
    <2>1. looksThrottled(input.seen, o, input.cfg) <=> input.seen # o
      <3>1. looksThrottled(input.seen, o, input.cfg) <=>
                /\ \A l \in {"quota", "shares", "mem"} : t[l] # NoLimit => input.seen[l] = t[l]
                /\ \E l \in {"quota", "shares", "mem"} : t[l] # NoLimit /\ o[l] # t[l]
        BY <1>3 DEF looksThrottled, o, t
      <3>2. CASE input.seen = o
        BY <3>1, <3>2
      <3>3. CASE input.seen # o
        <4>1. input.seen = Updated(o, t)
          BY <1>1, <3>3
        <4>2. \E l \in {"quota", "shares", "mem"} : o[l] # Updated(o, t)[l]
          BY <1>1, <1>4, <3>3, <4>1, LimitsAreEqual
        <4>3. QED
          BY <1>4, <3>1, <3>3, <4>1, <4>2
      <3>4. QED
        BY <3>2, <3>3
    <2>2. ASSUME input.seen # o
          PROVE  /\ OriginalResourcesAnnotation(o).ok
                 /\ OriginalResourcesAnnotation(o).limits = o
      <3>1. \E l \in {"quota", "shares", "mem"} : o[l] # Updated(o, t)[l]
        BY <1>1, <1>4, <2>2, LimitsAreEqual
      <3>2. \E l \in DOMAIN o : o[l] # NoLimit
        BY <1>2, <1>3, <1>4, <3>1
      <3>3. QED
        BY <3>2 DEF OriginalResourcesAnnotation
    <2>3. Updated(input.seen, restored(o)) = o
      BY <1>1, <1>2, ThrottleSteps DEF restored
    <2>4. QED
      BY <2>1, <2>2, <2>3 DEF ThrottleIsReversible, o
  <1>8. QED
    BY <1>6, <1>7 DEF ThrottleIsSafe

\* A throttle never loosens a limit beyond its floor, and whatever throttles
\* and rollbacks were applied, a restarted plugin recognises a throttled
\* container and can restore it (buildThrottleUpdate, buildRollbackUpdate,
\* looksThrottled, OriginalResourcesAnnotation), for every limit, percentage
\* and width of the integers.
THEOREM ThrottlesAreSafe == SpecDecisions => []ThrottleIsSafe
  <1>1. input \in Inputs => ThrottleIsSafe
    BY ThrottleInputIsSafe
  <1>2. QED
    BY <1>1, InputsHold, PTL

-----------------------------------------------------------------------------
(* Documents *)

\* What the verdict on one document tells about it.
LEMMA VerifyIs ==
    ASSUME NEW doc \in Documents, NEW maxAge, NEW now
    PROVE  /\ Verify(doc, maxAge, now) \in {PassResult, FailResult, Error}
           /\ Verify(doc, maxAge, now) = PassResult =>
                 doc.valid /\ FreshnessCheck(doc, maxAge, now)
  BY DEF Verify, Evaluate, PassResult, FailResult, Error

\* The results of a check are told apart.
LEMMA ResultsAreTold ==
    /\ ~IsError(PassResult) /\ ~IsError(FailResult) /\ IsError(Error)
    /\ PassResult.passed /\ ~FailResult.passed /\ FailResult.status = "fail"
    /\ ~HardFailure(PassResult) /\ HardFailure(FailResult) /\ HardFailure(Error)
    /\ ~SoftFailResult.passed
  BY DEF IsError, HardFailure, PassResult, FailResult, SoftFailResult, Error

\* Passing results are what a check passes by.
LEMMA AggregatesPass ==
    ASSUME NEW results, \A i \in DOMAIN results : results[i] \in {PassResult, FailResult, Error}
    PROVE  /\ VerifyMultipleFirstPass(results).passed =>
                  \E i \in DOMAIN results : results[i] = PassResult
           /\ VerifyMultipleWithMerge(results).passed =>
                  /\ DOMAIN results # {}
                  /\ \A i \in DOMAIN results : results[i] = PassResult
  <1>1. VerifyMultipleFirstPass(results).passed =>
            \E i \in DOMAIN results : results[i] = PassResult
    BY ResultsAreTold DEF VerifyMultipleFirstPass
  <1>2. ASSUME VerifyMultipleWithMerge(results).passed
        PROVE  DOMAIN results # {} /\ \A i \in DOMAIN results : results[i] = PassResult
    BY <1>2, ResultsAreTold, Zenon DEF VerifyMultipleWithMerge
  <1>3. QED
    BY <1>1, <1>2

\* A document that is fresh under a maximum age has a timestamp within it.
LEMMA FreshIsWithin ==
    ASSUME NEW doc \in Documents, NEW maxAge \in Int, NEW now \in Int,
           FreshnessCheck(doc, maxAge, now)
    PROVE  doc.time # NoTime /\ doc.time \in Int /\ now - doc.time <= maxAge
  <1>1. doc.time # NoTime /\ doc.time \in Int /\ maxAge # NoMaxAge
    BY FreshnessAssumption DEF FreshnessCheck, Documents
  <1>2. VerifyFreshness(now - doc.time, maxAge)
    BY <1>1 DEF FreshnessCheck
  <1>3. QED
    BY <1>1, <1>2 DEF VerifyFreshness

\* What is dropped is stale, and what is kept then includes a document that is
\* not.
LEMMA DroppedIsStale ==
    ASSUME NEW spec, NEW docs \in Seq(Documents), NEW maxAge \in Int \union {NoMaxAge},
           NEW i \in DOMAIN docs, i \notin dropSuperseded(spec, docs, maxAge, 0)
    PROVE  /\ maxAge \in Int /\ stale(docs[i], maxAge, 0)
           /\ \E j \in dropSuperseded(spec, docs, maxAge, 0) :
                 j \in DOMAIN docs /\ timestamped(docs[j], 0) /\ ~stale(docs[j], maxAge, 0)
  BY DEF dropSuperseded

\* A check that passes rests on current documents.
LEMMA DocumentsAreCurrent ==
    ASSUME input \in Inputs
    PROVE  EvidenceIsCurrent
  <1> SUFFICES ASSUME input.about = "documents" PROVE EvidenceIsCurrent
    BY DEF EvidenceIsCurrent
  <1> DEFINE spec == input.spec
             docs == input.docs
             maxAge == input.maxAge
             later == input.later
             Docs == {docs[i] : i \in DOMAIN docs}
             Passing == {d \in Docs : Verify(d, maxAge, later) = PassResult}
             Within(d) == d.time # NoTime /\ later - d.time <= maxAge
             kept == dropSuperseded(spec, docs, maxAge, 0)
             all == [i \in DOMAIN docs |-> Verify(docs[i], maxAge, later)]
             some == [i \in kept |-> Verify(docs[i], maxAge, later)]
  <1>1. /\ docs \in Seq(Documents) /\ maxAge \in Int \union {NoMaxAge} /\ later \in Nat
        /\ spec.aggregation \in {"FirstPass", "AllMustPass"}
    BY Zenon DEF Inputs, ThrottleInputs, DocumentInputs, ImageInputs, BundleInputs, ProvenanceInputs, Specs
  <1>2. kept \subseteq DOMAIN docs /\ \A i \in DOMAIN docs : docs[i] \in Documents
    BY <1>1 DEF dropSuperseded
  <1> HIDE DEF spec, docs, maxAge, later, kept
  <1>3. ASSUME VerifyMultiple(spec, docs, maxAge, 0, later).passed
        PROVE  /\ Passing # {}
               /\ spec.aggregation = "AllMustPass" =>
                     kept # {} /\ \A i \in kept : Verify(docs[i], maxAge, later) = PassResult
    <2>1. CASE spec.aggregation = "FirstPass"
      <3>1. VerifyMultiple(spec, docs, maxAge, 0, later) = VerifyMultipleFirstPass(all)
        BY <2>1 DEF VerifyMultiple
      <3>2. \A i \in DOMAIN all : all[i] \in {PassResult, FailResult, Error}
        BY <1>2, VerifyIs
      <3>3. \E i \in DOMAIN all : all[i] = PassResult
        BY <1>3, <3>1, <3>2, AggregatesPass
      <3>4. QED
        BY <2>1, <3>3
    <2>2. CASE spec.aggregation # "FirstPass"
      <3>1. VerifyMultiple(spec, docs, maxAge, 0, later) = VerifyMultipleWithMerge(some)
        BY <2>2 DEF VerifyMultiple, kept
      <3>2. \A i \in DOMAIN some : some[i] \in {PassResult, FailResult, Error}
        BY <1>2, VerifyIs
      <3>3. DOMAIN some # {} /\ \A i \in DOMAIN some : some[i] = PassResult
        BY <1>3, <3>1, <3>2, AggregatesPass
      <3>4. kept # {} /\ \A i \in kept : Verify(docs[i], maxAge, later) = PassResult
        BY <3>3
      <3>5. QED
        BY <1>2, <3>4
    <2>3. QED
      BY <2>1, <2>2
  <1>4. \A d \in Passing : maxAge # NoMaxAge => Within(d) /\ d.time \in Int
    <2> SUFFICES ASSUME NEW d \in Passing, maxAge # NoMaxAge PROVE Within(d) /\ d.time \in Int
      OBVIOUS
    <2>1. d \in Documents /\ maxAge \in Int /\ later \in Int
      BY <1>1, <1>2
    <2>2. QED
      BY <2>1, VerifyIs, FreshIsWithin
  <1>5. ASSUME VerifyMultiple(spec, docs, maxAge, 0, later).passed,
               spec.aggregation = "AllMustPass", NEW d \in Docs \ Passing
        PROVE  /\ d.valid /\ d.time # NoTime /\ maxAge # NoMaxAge
               /\ ~Within(d)
               /\ \E e \in Passing : e.time > d.time
    <2>1. PICK i \in DOMAIN docs : d = docs[i]
      OBVIOUS
    <2>2. i \notin kept
      BY <1>3, <1>5, <2>1
    <2>3. /\ maxAge \in Int /\ stale(docs[i], maxAge, 0)
          /\ \E j \in kept : j \in DOMAIN docs /\ timestamped(docs[j], 0) /\ ~stale(docs[j], maxAge, 0)
      BY <1>1, <2>2, DroppedIsStale DEF kept
    <2>4. PICK j \in kept : j \in DOMAIN docs /\ timestamped(docs[j], 0) /\ ~stale(docs[j], maxAge, 0)
      BY <2>3
    <2>5. docs[j] \in Passing /\ docs[i] \in Documents /\ docs[j] \in Documents
      BY <1>2, <1>3, <1>5, <2>4
    <2>6. /\ docs[i].valid /\ docs[i].time # NoTime /\ docs[i].time \in Int /\ 0 - docs[i].time > maxAge
          /\ docs[j].time \in Int /\ 0 - docs[j].time <= maxAge
      BY <2>3, <2>4, <2>5 DEF stale, timestamped, Documents
    <2>7. docs[j].time > docs[i].time /\ ~(later - docs[i].time <= maxAge) /\ maxAge # NoMaxAge
      BY <1>1, <2>3, <2>6, FreshnessAssumption
    <2>8. QED
      BY <2>1, <2>5, <2>6, <2>7
  <1>6. QED
    BY <1>3, <1>4, <1>5 DEF EvidenceIsCurrent, spec, docs, maxAge, later

\* A check that passes rests on current evidence, for every number and order
\* of documents, every maximum age and however late they are evaluated
\* (VerifyMultiple, dropSuperseded).
THEOREM PassingEvidenceIsCurrent == SpecDecisions => []EvidenceIsCurrent
  <1>1. input \in Inputs => EvidenceIsCurrent
    BY DocumentsAreCurrent
  <1>2. QED
    BY <1>1, InputsHold, PTL

-----------------------------------------------------------------------------
(* Results *)

\* Another check is added to the result and counts.
LEMMA AppendCheckIs ==
    ASSUME NEW r, NEW type, NEW check, NEW q, q = AppendCheck(r, type, check)
    PROVE  /\ q.allowed <=> (r.allowed /\ check.passed)
           /\ q.checks = r.checks \union {Named(type, check)}
  BY Zenon DEF AppendCheck

\* A check in the result is what was added.
LEMMA NamedIs ==
    ASSUME NEW type, NEW check
    PROVE  /\ Named(type, check).type = type /\ Named(type, check).passed = check.passed
           /\ Named(type, check).missing = check.missing
  BY DEF Named

\* GUAC and the warning about attestations that failed verification only add
\* checks of their own.
LEMMA OptionalChecksAdd ==
    ASSUME NEW x, NEW r, NEW err, NEW q, q = appendOptionalChecks(x, r, err)
    PROVE  /\ q.allowed => r.allowed
           /\ r.checks \subseteq q.checks
           /\ \A k \in q.checks : k \in r.checks \/ k.type \in {"guac", "attestation"}
  <1> DEFINE g == IF fetchGUACData(x) = <<>> THEN r
                  ELSE AppendCheck(r, "guac", Head(fetchGUACData(x)))
  <1>1. /\ g.allowed => r.allowed
        /\ r.checks \subseteq g.checks
        /\ \A k \in g.checks : k \in r.checks \/ k.type = "guac"
    BY AppendCheckIs, NamedIs
  <1>2. q = IF isIgnorableVerificationFailure(err) THEN AppendCheck(g, "attestation", WarnResult) ELSE g
    BY DEF appendOptionalChecks
  <1> HIDE DEF g
  <1>3. CASE isIgnorableVerificationFailure(err)
    BY <1>1, <1>2, <1>3, AppendCheckIs, NamedIs
  <1>4. CASE ~isIgnorableVerificationFailure(err)
    BY <1>1, <1>2, <1>4
  <1>5. QED
    BY <1>3, <1>4

\* A missing VSA only adds a warning.
LEMMA VSAWarningAdds ==
    ASSUME NEW x, NEW r, NEW q, q = appendVSAWarning(x, r)
    PROVE  /\ q.allowed <=> r.allowed
           /\ r.checks \subseteq q.checks
           /\ \A k \in q.checks : k \in r.checks \/ (k.type = "vsa" /\ k.missing)
  <1>1. /\ handleMissingAttestation("warn", "vsa").passed
        /\ handleMissingAttestation("warn", "vsa").missing
    BY Zenon DEF handleMissingAttestation, WarnResult
  <1>2. CASE MissingPolicyFor(x, "vsa") = "warn"
    <2>1. q = AppendCheck(r, "vsa", handleMissingAttestation("warn", "vsa"))
      BY <1>2 DEF appendVSAWarning
    <2>2. QED
      BY <1>1, <2>1, AppendCheckIs, NamedIs
  <1>3. CASE MissingPolicyFor(x, "vsa") # "warn"
    BY <1>3 DEF appendVSAWarning
  <1>4. QED
    BY <1>2, <1>3

\* A CEL rule only allows what was allowed, with the attestation it requires.
LEMMA CELRequires ==
    ASSUME NEW x, NEW r, NEW q, q = appendCELCheck(x, r), q.allowed
    PROVE  /\ r.allowed
           /\ x.policy.celRequires # "none" =>
                 \E k \in r.checks : k.type = x.policy.celRequires /\ ~k.missing /\ k.passed
  <1> DEFINE verified == \E k \in r.checks :
                            k.type = x.policy.celRequires /\ ~k.missing /\ k.passed
  <1>1. CASE x.policy.celRequires = "none"
    BY <1>1 DEF appendCELCheck
  <1>2. CASE x.policy.celRequires # "none" /\ verified
    BY <1>2, AppendCheckIs DEF appendCELCheck
  <1>3. CASE x.policy.celRequires # "none" /\ ~verified
    BY <1>3, AppendCheckIs, ResultsAreTold DEF appendCELCheck
  <1>4. QED
    BY <1>1, <1>2, <1>3

-----------------------------------------------------------------------------
(* What was fetched *)

\* What a fetch answers.
LEMMA AnswersAre ==
    ASSUME NEW ans \in Answers
    PROVE  /\ ans.err \in FetchErrors /\ ans.atts \in Seq(Attestations)
           /\ \A i \in DOMAIN ans.atts : ans.atts[i] \in Attestations
           /\ ans.err = "unverified" => \A i \in DOMAIN ans.atts : ans.atts[i].type = "notation"
           /\ ans.err \notin {"none", "unverified"} => ans.atts = <<>>
  <1>1. CASE ans \in [err : {"none"}, atts : Seq(Attestations)]
    <2>1. ans.err = "none" /\ ans.atts \in Seq(Attestations)
      BY <1>1
    <2>2. \A i \in DOMAIN ans.atts : ans.atts[i] \in Attestations
      BY <2>1
    <2>3. QED
      BY <2>1, <2>2 DEF FetchErrors
  <1>2. CASE ans \in [err : {"unverified"}, atts : Seq({a \in Attestations : a.type = "notation"})]
    <2>1. ans.err = "unverified" /\ ans.atts \in Seq({a \in Attestations : a.type = "notation"})
      BY <1>2
    <2>2. \A i \in DOMAIN ans.atts : ans.atts[i] \in {a \in Attestations : a.type = "notation"}
      BY <2>1
    <2>3. ans.atts \in Seq(Attestations)
      BY <2>1, <2>2
    <2>4. QED
      BY <2>1, <2>2, <2>3 DEF FetchErrors
  <1>3. CASE ans \in [err : FetchErrors \ {"none", "unverified"}, atts : {<<>>}]
    <2>1. ans.err \in FetchErrors \ {"none", "unverified"} /\ ans.atts = <<>>
      BY <1>3
    <2>2. ans.atts \in Seq(Attestations) /\ DOMAIN ans.atts = {}
      BY <2>1
    <2>3. QED
      BY <2>1, <2>2
  <1>4. QED
    BY <1>1, <1>2, <1>3 DEF Answers

\* What a request for an image is made of.
LEMMA ImageInputsAre ==
    ASSUME NEW x \in ImageInputs
    PROVE  /\ x.platform \in Answers /\ x.index \in Answers \union {NoIndex}
           /\ x.policy \in Policies /\ x.expired \in SUBSET (Checks \union {"verification"})
           /\ x.digest \in BOOLEAN /\ x.access \in BOOLEAN
  BY DEF ImageInputs

\* The two answers, as they are passed on.
LEMMA IndexIs ==
    ASSUME NEW x, NEW index, index = fetchIndexAttestations(x)
    PROVE  /\ x.index = NoIndex => index.found = <<>> /\ index.partial = <<>> /\ index.err = "none"
           /\ x.index # NoIndex =>
                 /\ index.err = x.index.err
                 /\ index.found = IF x.index.err = "none" THEN x.index.atts ELSE <<>>
                 /\ index.partial = IF x.index.err = "unverified" THEN x.index.atts ELSE <<>>
  BY DEF fetchIndexAttestations, isIgnorableVerificationFailure

\* The error that decides about both digests.
LEMMA DecidingIs ==
    ASSUME NEW x, NEW index, x.platform.err \in FetchErrors, index.err \in FetchErrors
    PROVE  /\ DecidingError(x, index) \in {"none", "unverified"} =>
                 x.platform.err \in {"none", "unverified"} /\ index.err \in {"none", "unverified"}
           /\ DecidingError(x, index) = "none" => x.platform.err = "none"
           /\ DecidingError(x, index) = "unverified" =>
                 \/ x.platform.err = "unverified"
                 \/ x.platform.err = "none" /\ x.platform.atts = <<>> /\ index.err = "unverified"
  BY DEF DecidingError, isIgnorableVerificationFailure, FetchErrors

\* An image that is verified was fetched completely: every digest that was
\* asked gave its set, and the set that is evaluated is the one of the digest
\* it is bound to; what else was received holds no VSA.
LEMMA FetchedIs ==
    ASSUME NEW x \in ImageInputs, NEW f, f = fetchAttestations(x),
           f.err \in {"none", "unverified"}
    PROVE  /\ \A d \in Consulted(x) : Answer(x, d).err \in {"none", "unverified"}
           /\ f.digest \in Consulted(x) /\ f.atts = Answer(x, f.digest).atts
           /\ f.atts \in Seq(Attestations)
           /\ \A d \in Consulted(x) \ {f.digest} : \A a \in Attested(x, d) : a.type # "vsa"
  <1> DEFINE index == fetchIndexAttestations(x)
             err == DecidingError(x, index)
             kept == keepPartial(x.platform.atts, index.partial)
  <1>1. x.platform \in Answers /\ x.index \in Answers \union {NoIndex}
    BY ImageInputsAre
  <1>2. /\ x.platform.err \in FetchErrors /\ x.platform.atts \in Seq(Attestations)
        /\ x.platform.err = "unverified" =>
              \A i \in DOMAIN x.platform.atts : x.platform.atts[i].type = "notation"
    BY <1>1, AnswersAre
  <1>3. x.index # NoIndex =>
          /\ x.index.err \in FetchErrors /\ x.index.atts \in Seq(Attestations)
          /\ x.index.err = "unverified" =>
                \A i \in DOMAIN x.index.atts : x.index.atts[i].type = "notation"
    BY <1>1, AnswersAre
  <1>4. /\ x.index = NoIndex => index.found = <<>> /\ index.partial = <<>> /\ index.err = "none"
        /\ x.index # NoIndex =>
                 /\ index.err = x.index.err
                 /\ index.found = IF x.index.err = "none" THEN x.index.atts ELSE <<>>
                 /\ index.partial = IF x.index.err = "unverified" THEN x.index.atts ELSE <<>>
    BY IndexIs
  <1>5. index.err \in FetchErrors
    BY <1>3, <1>4 DEF FetchErrors
  <1>6. CASE index.found # <<>>
    <2>1. /\ x.index # NoIndex /\ x.index.err = "none" /\ x.index.atts # <<>>
          /\ f.atts = x.index.atts /\ f.digest = "index"
      BY <1>4, <1>6 DEF fetchAttestations
    <2>2. Consulted(x) = {"index"} /\ Answer(x, "index") = x.index
      BY <2>1 DEF Consulted, Answer
    <2>3. QED
      BY <1>3, <2>1, <2>2
  <1>7. CASE index.found = <<>>
    <2>1. /\ f.err = err
          /\ f.atts = CASE err = "unverified" -> kept.atts
                        [] err = "none" -> x.platform.atts
                        [] OTHER -> <<>>
          /\ f.digest = IF err = "unverified" THEN kept.digest ELSE "platform"
      BY <1>7 DEF fetchAttestations
    <2> HIDE DEF index
    <2>2. /\ x.platform.err \in {"none", "unverified"} /\ index.err \in {"none", "unverified"}
          /\ err = "none" => x.platform.err = "none"
          /\ err = "unverified" =>
                 \/ x.platform.err = "unverified"
                 \/ x.platform.err = "none" /\ x.platform.atts = <<>> /\ index.err = "unverified"
      BY <1>2, <1>5, <2>1, DecidingIs
    <2>3. /\ Consulted(x) = IF x.index = NoIndex THEN {"platform"} ELSE {"index", "platform"}
          /\ Answer(x, "platform") = x.platform /\ Answer(x, "index") = x.index
      BY <1>4, <1>7 DEF Consulted, Answer
    <2>4. \A d \in Consulted(x) : Answer(x, d).err \in {"none", "unverified"}
      BY <1>4, <2>2, <2>3
    <2> HIDE DEF err
    <2>5. \/ f.digest = "platform" /\ f.atts = x.platform.atts
          \/ /\ f.digest = "index" /\ x.index # NoIndex /\ f.atts = x.index.atts
             /\ x.platform.atts = <<>>
      BY <1>4, <2>1 DEF keepPartial
    <2>6. \A a \in Attested(x, "index") : x.index # NoIndex => a.type # "vsa"
      BY <1>3, <1>4, <1>7, <2>2, <2>3 DEF Attested
    <2>7. QED
      BY <1>2, <1>3, <2>3, <2>4, <2>5, <2>6 DEF Attested
  <1>8. QED
    BY <1>6, <1>7

-----------------------------------------------------------------------------
(* Verified images *)

\* Only a policy that denies fails what is missing.
LEMMA MissingIs ==
    ASSUME NEW x, NEW type, x.policy.missing[type] \in {"unset", "allow", "warn", "deny"},
           type # "fetch", NEW r, r = handleMissingAttestation(MissingPolicyFor(x, type), type)
    PROVE  r.missing /\ (r.passed <=> x.policy.missing[type] # "deny")
  BY Zenon DEF handleMissingAttestation, MissingPolicyFor, WarnResult, PassResult, FailResult

\* What passes is an attestation of the digest.
LEMMA OutcomeIs ==
    ASSUME NEW a, NEW digest
    PROVE  /\ Outcome(a, digest) \in {PassResult, FailResult, Error}
           /\ Outcome(a, digest) = PassResult => a.subject = digest /\ a.outcome = "pass"
  BY DEF Outcome, PassResult, FailResult, Error

\* What was evaluated is not missing.
LEMMA AggregatesAreFound ==
    ASSUME NEW results
    PROVE  ~VerifyMultipleFirstPass(results).missing /\ ~VerifyMultipleWithMerge(results).missing
  BY DEF VerifyMultipleFirstPass, VerifyMultipleWithMerge, PassResult, FailResult, SoftFailResult

\* A direct check that passes found an attestation that passes, or what is
\* missing may be.
LEMMA CheckPasses ==
    ASSUME NEW x \in ImageInputs, NEW c \in Checks, NEW atts, NEW bin, NEW digest,
           NEW r, r = runAttestationCheck(x, c, atts, bin, digest), r.passed
    PROVE  \/ r.missing /\ x.policy.missing[c] # "deny"
           \/ \E i \in bin : atts[i].subject = digest /\ atts[i].outcome = "pass"
  <1> DEFINE docs == Applicable(atts, bin, digest)
             results == [i \in docs |-> Outcome(atts[i], digest)]
  <1>1. x.policy.missing[c] \in {"unset", "allow", "warn", "deny"} /\ c # "fetch"
    BY ImageInputsAre, ChecksAssumption DEF Policies
  <1>2. \/ r = handleMissingAttestation(MissingPolicyFor(x, c), c)
        \/ r = FailResult
        \/ r = VerifyMultipleFirstPass(results)
        \/ r = VerifyMultipleWithMerge(results)
    BY DEF runAttestationCheck
  <1>3. docs \subseteq bin
    BY DEF Applicable
  <1> HIDE DEF docs
  <1>4. \A i \in DOMAIN results : results[i] \in {PassResult, FailResult, Error}
    BY OutcomeIs
  <1>5. CASE r = handleMissingAttestation(MissingPolicyFor(x, c), c)
    BY <1>1, <1>5, MissingIs
  <1>6. CASE r = FailResult
    BY <1>6, ResultsAreTold
  <1>7. CASE \E i \in DOMAIN results : results[i] = PassResult
    BY <1>3, <1>7, OutcomeIs
  <1>8. CASE r = VerifyMultipleFirstPass(results)
    BY <1>4, <1>7, <1>8, AggregatesPass
  <1>9. CASE r = VerifyMultipleWithMerge(results)
    <2>1. DOMAIN results # {} /\ \A i \in DOMAIN results : results[i] = PassResult
      BY <1>4, <1>9, AggregatesPass
    <2>2. QED
      BY <1>7, <2>1
  <1>10. QED
    BY <1>2, <1>5, <1>6, <1>8, <1>9

\* An image that is verified was looked into, and every check it got passed.
LEMMA VerifiedRan ==
    ASSUME NEW x \in ImageInputs, NEW f, f = fetchAttestations(x), Verdict(x).verified
    PROVE  /\ x.digest /\ x.access /\ f.err \in {"none", "unverified"}
           /\ runVSAAndParallelChecks(x, f).allowed
  <1> DEFINE R == runChecks(x)
  <1>1. R.allowed /\ \A k \in R.checks : k.type \notin {"internal", "fetch"}
    BY Zenon DEF Verdict, applyEnforcement, resultHasFailures, Incomplete
  <1>2. \A type, check : /\ resultFromCheck(type, check).allowed <=> check.passed
                         /\ Named(type, check) \in resultFromCheck(type, check).checks
    BY DEF resultFromCheck
  <1>3. R # resultFromCheck("internal", FailResult) /\ R # handleFetchError(x)
    BY <1>1, <1>2, NamedIs DEF handleFetchError
  <1>4. R # resultFromCheck("attestation", FailResult)
    BY <1>1, <1>2, ResultsAreTold
  <1>5. R # fetchErrorResult(x, f.err)
    BY <1>3, <1>4 DEF fetchErrorResult
  <1>6. x.digest \in BOOLEAN /\ x.access \in BOOLEAN
    BY ImageInputsAre
  <1>7. R = CASE ~x.digest -> resultFromCheck("internal", FailResult)
              [] x.digest /\ ~x.access -> handleFetchError(x)
              [] x.digest /\ x.access /\ f.transport -> handleFetchError(x)
              [] x.digest /\ x.access /\ ~f.transport
                    /\ f.err \notin {"none", "unverified"} -> fetchErrorResult(x, f.err)
              [] OTHER -> runVSAAndParallelChecks(x, f)
    BY DEF runChecks
  <1> HIDE DEF R
  <1>8. QED
    BY <1>1, <1>3, <1>5, <1>6, <1>7

\* The VSAs of the digest that is evaluated decide what VSAs conclude.
LEMMA VSAsConclude ==
    ASSUME NEW x \in ImageInputs, "verification" \notin x.expired,
           NEW f, f = fetchAttestations(x), f.err \in {"none", "unverified"},
           NEW vsas, vsas = {f.atts[i] : i \in binAttestations(f.atts, scopeBuilderKeys(f.atts), "vsa")}
    PROVE  /\ checkVSA(x, vsas, f.digest) \in {"rejected", "passed", "missing"}
           /\ Concluded(x, "FAILED") => checkVSA(x, vsas, f.digest) = "rejected"
           /\ checkVSA(x, vsas, f.digest) = "passed" => Concluded(x, "PASSED")
  <1>1. /\ f.digest \in Consulted(x) /\ f.atts = Answer(x, f.digest).atts
        /\ \A d \in Consulted(x) \ {f.digest} : \A a \in Attested(x, d) : a.type # "vsa"
    BY FetchedIs
  <1>2. \A result : Concluded(x, result) <=> \E v \in vsas : Conclusive(v, f.digest, result)
    <2> TAKE result
    <2>1. ASSUME Concluded(x, result) PROVE \E v \in vsas : Conclusive(v, f.digest, result)
      <3>1. PICK d \in Consulted(x) : \E a \in Attested(x, d) :
                    a.type = "vsa" /\ ~a.builderOnly /\ Conclusive(a, d, result)
        BY <2>1 DEF Concluded
      <3>2. d = f.digest
        BY <1>1, <3>1
      <3>3. PICK i \in DOMAIN f.atts : /\ f.atts[i].type = "vsa" /\ ~f.atts[i].builderOnly
                                       /\ Conclusive(f.atts[i], f.digest, result)
        BY <1>1, <3>1, <3>2 DEF Attested
      <3>4. f.atts[i] \in vsas
        BY <3>3 DEF binAttestations, scopeBuilderKeys
      <3>5. QED
        BY <3>3, <3>4
    <2>2. ASSUME NEW v \in vsas, Conclusive(v, f.digest, result) PROVE Concluded(x, result)
      <3>1. v \in Attested(x, f.digest) /\ v.type = "vsa" /\ ~v.builderOnly
        BY <1>1 DEF binAttestations, scopeBuilderKeys, Attested
      <3>2. QED
        BY <1>1, <2>2, <3>1 DEF Concluded
    <2>3. QED
      BY <2>1, <2>2
  <1>3. checkVSA(x, vsas, f.digest) =
            IF Concluded(x, "FAILED") THEN "rejected"
            ELSE IF Concluded(x, "PASSED") THEN "passed" ELSE "missing"
    <2> DEFINE F == \E v \in vsas : Conclusive(v, f.digest, "FAILED")
               P == \E v \in vsas : Conclusive(v, f.digest, "PASSED")
    <2>1. checkVSA(x, vsas, f.digest) = CASE F -> "rejected" [] ~F /\ P -> "passed" [] OTHER -> "missing"
      BY DEF checkVSA
    <2>2. (F <=> Concluded(x, "FAILED")) /\ (P <=> Concluded(x, "PASSED"))
      BY <1>2
    <2> HIDE DEF F, P
    <2>3. QED
      BY <2>1, <2>2
  <1>4. QED
    BY <1>3

\* What the direct checks prove of the image.
LEMMA ChecksProve ==
    ASSUME NEW x \in ImageInputs, NEW f, f = fetchAttestations(x), f.err \in {"none", "unverified"},
           NEW r, r = runParallelChecks(x, f.atts, scopeBuilderKeys(f.atts), f.digest)
    PROVE  /\ r.allowed => \A c \in Checks : x.policy.missing[c] = "deny" => Proven(x, c)
           /\ \A k \in r.checks : k.type \in Checks /\ ((k.passed /\ ~k.missing) => Proven(x, k.type))
  <1> DEFINE Bin(c) == binAttestations(f.atts, scopeBuilderKeys(f.atts), c)
             Check(c) == runAttestationCheck(x, c, f.atts, Bin(c), f.digest)
  <1>1. r = [allowed |-> \A c \in Checks : Check(c).passed,
             checks |-> {Named(c, Check(c)) : c \in Checks}]
    BY DEF runParallelChecks
  <1>2. f.digest \in Consulted(x) /\ f.atts = Answer(x, f.digest).atts
    BY FetchedIs
  <1>3. \A c \in Checks : Check(c).passed =>
            (Check(c).missing /\ x.policy.missing[c] # "deny") \/ Proven(x, c)
    <2> SUFFICES ASSUME NEW c \in Checks, Check(c).passed
                 PROVE  (Check(c).missing /\ x.policy.missing[c] # "deny") \/ Proven(x, c)
      OBVIOUS
    <2>1. \/ Check(c).missing /\ x.policy.missing[c] # "deny"
          \/ \E i \in Bin(c) : f.atts[i].subject = f.digest /\ f.atts[i].outcome = "pass"
      BY CheckPasses
    <2>2. ASSUME NEW i \in Bin(c), f.atts[i].subject = f.digest, f.atts[i].outcome = "pass"
          PROVE  Proven(x, c)
      <3>1. /\ f.atts[i] \in Attested(x, f.digest) /\ f.atts[i].type = c
            /\ ~f.atts[i].builderOnly \/ c = "slsa"
        BY <1>2 DEF binAttestations, scopeBuilderKeys, Attested
      <3>2. QED
        BY <1>2, <2>2, <3>1 DEF Proven
    <2>3. QED
      BY <2>1, <2>2
  <1> HIDE DEF Check
  <1>4. r.allowed => \A c \in Checks : Check(c).passed
    BY <1>1
  <1>5. \A k \in r.checks : \E c \in Checks :
            k.type = c /\ k.passed = Check(c).passed /\ k.missing = Check(c).missing
    BY <1>1, NamedIs
  <1>6. QED
    BY <1>3, <1>4, <1>5

\* An image that is verified has earned it.
LEMMA ImageIsEarned ==
    ASSUME input \in Inputs
    PROVE  VerifiedIsEarned
  <1> SUFFICES ASSUME input.about = "image", "verification" \notin input.expired,
                      Verdict(input).verified
               PROVE  VerifiedIsEarned
    BY DEF VerifiedIsEarned
  <1> DEFINE x == input
             f == fetchAttestations(x)
             scope == scopeBuilderKeys(f.atts)
             vsas == {f.atts[i] : i \in binAttestations(f.atts, scope, "vsa")}
             vsa == checkVSA(x, vsas, f.digest)
             direct == runParallelChecks(x, f.atts, scope, f.digest)
             R == runVSAAndParallelChecks(x, f)
  <1>1. x \in ImageInputs
    BY Zenon DEF Inputs, ThrottleInputs, DocumentInputs, BundleInputs, ProvenanceInputs
  <1>2. x.digest /\ x.access /\ f.err \in {"none", "unverified"} /\ R.allowed
    BY <1>1, VerifiedRan
  <1>3. \A d \in Consulted(x) : Answer(x, d).err \in {"none", "unverified"}
    BY <1>1, <1>2, FetchedIs
  <1>4. /\ vsa \in {"rejected", "passed", "missing"}
        /\ Concluded(x, "FAILED") => vsa = "rejected"
        /\ vsa = "passed" => Concluded(x, "PASSED")
    BY <1>1, <1>2, VSAsConclude
  <1>5. /\ direct.allowed => \A c \in Checks : x.policy.missing[c] = "deny" => Proven(x, c)
        /\ \A k \in direct.checks : k.type \in Checks /\ ((k.passed /\ ~k.missing) => Proven(x, k.type))
    BY <1>1, <1>2, ChecksProve
  <1>6. R = CASE vsa = "rejected" -> resultFromCheck("vsa", FailResult)
              [] vsa = "passed" -> appendCELCheck(x, appendOptionalChecks(x, resultFromCheck("vsa", PassResult), f.err))
              [] vsa = "missing" /\ checkVSAMissing(x) ->
                    resultFromCheck("vsa", handleMissingAttestation(MissingPolicyFor(x, "vsa"), "vsa"))
              [] OTHER -> appendCELCheck(x, appendVSAWarning(x, appendOptionalChecks(x, direct, f.err)))
    BY DEF runVSAAndParallelChecks
  <1>7. /\ x.policy.missing["vsa"] \in {"unset", "allow", "warn", "deny"}
        /\ x.policy.celRequires \in Checks \union {"none", "vsa"}
        /\ Checks \intersect {"vsa", "guac", "cel", "attestation", "fetch", "internal", "none"} = {}
    BY <1>1, ImageInputsAre, ChecksAssumption DEF Policies
  <1> HIDE DEF vsa, direct, R, f, x
  <1>8. \A type, check : /\ resultFromCheck(type, check).allowed <=> check.passed
                         /\ resultFromCheck(type, check).checks = {Named(type, check)}
    BY DEF resultFromCheck
  <1>9. vsa # "rejected"
    BY <1>2, <1>6, <1>8, ResultsAreTold
  <1>10. CASE vsa = "passed"
    <2> DEFINE base == resultFromCheck("vsa", PassResult)
               full == appendOptionalChecks(x, base, f.err)
    <2>1. \A k \in base.checks : k.type = "vsa"
      BY <1>8, NamedIs
    <2>2. \A k \in full.checks : k.type \in {"vsa", "guac", "attestation"}
      BY <2>1, OptionalChecksAdd
    <2>3. R = appendCELCheck(x, full)
      BY <1>6, <1>10
    <2> HIDE DEF full
    <2>4. x.policy.celRequires # "none" => \E k \in full.checks : k.type = x.policy.celRequires
      BY <1>2, <2>3, CELRequires
    <2>5. x.policy.celRequires \notin Checks
      BY <1>7, <2>2, <2>4
    <2>6. QED
      BY <1>2, <1>3, <1>4, <1>9, <1>10, <2>5 DEF VerifiedIsEarned, x
  <1>11. CASE vsa = "missing"
    <2> DEFINE full == appendOptionalChecks(x, direct, f.err)
               warned == appendVSAWarning(x, full)
    <2>1. ~checkVSAMissing(x) /\ x.policy.missing["vsa"] # "deny"
      <3>1. ASSUME checkVSAMissing(x) PROVE FALSE
        <4>1. R = resultFromCheck("vsa", handleMissingAttestation(MissingPolicyFor(x, "vsa"), "vsa"))
          BY <1>6, <1>11, <3>1
        <4>2. x.policy.missing["vsa"] = "deny"
          BY <1>7, <3>1 DEF checkVSAMissing, MissingPolicyFor
        <4>3. QED
          BY <1>2, <1>7, <1>8, <4>1, <4>2, MissingIs
      <3>2. QED
        BY <3>1 DEF checkVSAMissing, MissingPolicyFor
    <2>2. R = appendCELCheck(x, warned)
      BY <1>6, <1>11, <2>1
    <2>3. /\ full.allowed => direct.allowed
          /\ \A k \in full.checks : k \in direct.checks \/ k.type \in {"guac", "attestation"}
      BY OptionalChecksAdd
    <2> HIDE DEF full
    <2>4. /\ warned.allowed <=> full.allowed
          /\ \A k \in warned.checks : k \in full.checks \/ (k.type = "vsa" /\ k.missing)
      BY VSAWarningAdds
    <2> HIDE DEF warned
    <2>5. /\ warned.allowed
          /\ x.policy.celRequires # "none" =>
                \E k \in warned.checks : k.type = x.policy.celRequires /\ ~k.missing /\ k.passed
      BY <1>2, <2>2, CELRequires
    <2>6. x.policy.celRequires # "vsa" /\ (x.policy.celRequires \in Checks => Proven(x, x.policy.celRequires))
      BY <1>5, <1>7, <2>3, <2>4, <2>5
    <2>7. QED
      BY <1>2, <1>3, <1>4, <1>5, <1>9, <2>1, <2>3, <2>4, <2>5, <2>6 DEF VerifiedIsEarned, x
  <1>12. QED
    BY <1>4, <1>9, <1>10, <1>11

\* An image counts as verified only when that is earned, for every set of
\* checks, every policy and whatever the registries answer (runChecks,
\* applyEnforcement).
THEOREM VerifiedImagesEarnedIt == SpecDecisions => []VerifiedIsEarned
  <1>1. input \in Inputs => VerifiedIsEarned
    BY ImageIsEarned
  <1>2. QED
    BY <1>1, InputsHold, PTL

-----------------------------------------------------------------------------
(* Attestations that fail verification *)

\* The two requests differ in what the registry answers only.
SameRequest(x, y) ==
    /\ y.policy = x.policy /\ y.expired = x.expired
    /\ y.mode = x.mode /\ y.globalMode = x.globalMode
    /\ y.fetchFailurePolicy = x.fetchFailurePolicy
    /\ y.fetchFailureExplicit = x.fetchFailureExplicit
    /\ y.guac = x.guac /\ y.guacFallback = x.guacFallback
    /\ y.digest = x.digest /\ y.access = x.access

\* The two results differ in the warning about unverified attestations only.
SameButWarning(r, s) ==
    /\ r.allowed <=> s.allowed
    /\ \A k : (k.type # "attestation" \/ ~k.passed) => (k \in r.checks <=> k \in s.checks)

\* What the registry answers only matters through what was fetched.
LEMMA SameRequestSameChecks ==
    ASSUME NEW x, NEW y, SameRequest(x, y)
    PROVE  /\ handleFetchError(y) = handleFetchError(x)
           /\ \A err : fetchErrorResult(y, err) = fetchErrorResult(x, err)
           /\ \A vsas, digest : checkVSA(y, vsas, digest) = checkVSA(x, vsas, digest)
           /\ \A atts, scope, digest :
                 runParallelChecks(y, atts, scope, digest) = runParallelChecks(x, atts, scope, digest)
           /\ \A type : MissingPolicyFor(y, type) = MissingPolicyFor(x, type)
           /\ checkVSAMissing(y) <=> checkVSAMissing(x)
           /\ fetchGUACData(y) = fetchGUACData(x)
           /\ \A r : appendVSAWarning(y, r) = appendVSAWarning(x, r)
           /\ \A r : appendCELCheck(y, r) = appendCELCheck(x, r)
           /\ \A r, err : appendOptionalChecks(y, r, err) = appendOptionalChecks(x, r, err)
           /\ \A r : applyEnforcement(y, r) = applyEnforcement(x, r)
  <1> USE DEF SameRequest
  <1>1. handleFetchError(y) = handleFetchError(x)
    BY DEF handleFetchError, EffectiveFetchFailurePolicy
  <1>2. \A err : fetchErrorResult(y, err) = fetchErrorResult(x, err)
    BY <1>1 DEF fetchErrorResult
  <1>3. \A vsas, digest : checkVSA(y, vsas, digest) = checkVSA(x, vsas, digest)
    BY DEF checkVSA
  <1>4. \A type : MissingPolicyFor(y, type) = MissingPolicyFor(x, type)
    BY DEF MissingPolicyFor
  <1>5. \A c, atts, bin, digest :
            runAttestationCheck(y, c, atts, bin, digest) = runAttestationCheck(x, c, atts, bin, digest)
    BY <1>4 DEF runAttestationCheck
  <1>6. \A atts, scope, digest :
            runParallelChecks(y, atts, scope, digest) = runParallelChecks(x, atts, scope, digest)
    BY <1>5, Zenon DEF runParallelChecks
  <1>7. fetchGUACData(y) = fetchGUACData(x)
    BY Zenon DEF fetchGUACData
  <1>8. /\ checkVSAMissing(y) <=> checkVSAMissing(x)
        /\ \A r : appendVSAWarning(y, r) = appendVSAWarning(x, r)
    BY <1>4 DEF checkVSAMissing, appendVSAWarning
  <1>9. \A r, err : appendOptionalChecks(y, r, err) = appendOptionalChecks(x, r, err)
    BY <1>7, Zenon DEF appendOptionalChecks
  <1>10. \A r : appendCELCheck(y, r) = appendCELCheck(x, r)
    BY Zenon DEF appendCELCheck
  <1>11. \A r : applyEnforcement(y, r) = applyEnforcement(x, r)
    BY DEF applyEnforcement
  <1>12. QED
    BY <1>1, <1>2, <1>3, <1>4, <1>6, <1>7, <1>8, <1>9, <1>10, <1>11

\* A check that is appended, a CEL rule and the enforcement do not tell results
\* apart that differ in the warning.
LEMMA AppendKeepsWarning ==
    ASSUME NEW r, NEW s, SameButWarning(r, s), NEW type, NEW check,
           NEW p, p = AppendCheck(r, type, check), NEW q, q = AppendCheck(s, type, check)
    PROVE  SameButWarning(p, q)
  <1>1. /\ p.allowed <=> (r.allowed /\ check.passed)
        /\ p.checks = r.checks \union {Named(type, check)}
        /\ q.allowed <=> (s.allowed /\ check.passed)
        /\ q.checks = s.checks \union {Named(type, check)}
    BY AppendCheckIs
  <1>2. QED
    BY <1>1 DEF SameButWarning

\* CEL rules do not see the warning.
LEMMA CELKeepsWarning ==
    ASSUME NEW r, NEW s, SameButWarning(r, s), NEW x, x.policy.celRequires # "attestation",
           NEW p, p = appendCELCheck(x, r), NEW q, q = appendCELCheck(x, s)
    PROVE  SameButWarning(p, q)
  <1> DEFINE V(t) == \E k \in t.checks : k.type = x.policy.celRequires /\ ~k.missing /\ k.passed
  <1>1. V(r) <=> V(s)
    BY DEF SameButWarning
  <1>2. \A t : appendCELCheck(x, t) =
                  IF x.policy.celRequires = "none" THEN t
                  ELSE IF V(t) THEN AppendCheck(t, "cel", PassResult)
                  ELSE AppendCheck(t, "cel", FailResult)
    BY DEF appendCELCheck
  <1> HIDE DEF V
  <1>3. SameButWarning(AppendCheck(r, "cel", PassResult), AppendCheck(s, "cel", PassResult))
    BY AppendKeepsWarning
  <1>4. SameButWarning(AppendCheck(r, "cel", FailResult), AppendCheck(s, "cel", FailResult))
    BY AppendKeepsWarning
  <1>5. QED
    BY <1>1, <1>2, <1>3, <1>4

\* The warning does not count in the verdict.
LEMMA WarningIsNotEnforced ==
    ASSUME NEW r, NEW s, SameButWarning(r, s), NEW x
    PROVE  applyEnforcement(x, r) = applyEnforcement(x, s)
  <1>1. resultHasFailures(r) <=> resultHasFailures(s)
    BY DEF SameButWarning, resultHasFailures
  <1>2. Incomplete(r) <=> Incomplete(s)
    BY DEF SameButWarning, Incomplete
  <1>3. r.allowed <=> s.allowed
    BY DEF SameButWarning
  <1>4. QED
    BY <1>1, <1>2, <1>3 DEF applyEnforcement

\* The two fetches gave the same material, and differ at most in whether some
\* of it failed verification.
SameMaterial(f, g) ==
    /\ g.atts = f.atts /\ g.digest = f.digest /\ (g.transport <=> f.transport)
    /\ g.err = f.err \/ {f.err, g.err} = {"none", "unverified"}

\* Requests that fetch the same material get the same verdict.
LEMMA SameMaterialSameVerdict ==
    ASSUME NEW x \in ImageInputs, NEW y, SameRequest(x, y),
           SameMaterial(fetchAttestations(x), fetchAttestations(y))
    PROVE  Verdict(y) = Verdict(x)
  <1> DEFINE f == fetchAttestations(x)
             g == fetchAttestations(y)
             scope == scopeBuilderKeys(f.atts)
             vsas == {f.atts[i] : i \in binAttestations(f.atts, scope, "vsa")}
             vsa == checkVSA(x, vsas, f.digest)
             direct == runParallelChecks(x, f.atts, scope, f.digest)
             Done(err) ==
                CASE vsa = "rejected" -> resultFromCheck("vsa", FailResult)
                  [] vsa = "passed" -> appendCELCheck(x, appendOptionalChecks(x, resultFromCheck("vsa", PassResult), err))
                  [] vsa = "missing" /\ checkVSAMissing(x) ->
                        resultFromCheck("vsa", handleMissingAttestation(MissingPolicyFor(x, "vsa"), "vsa"))
                  [] OTHER -> appendCELCheck(x, appendVSAWarning(x, appendOptionalChecks(x, direct, err)))
  <1> USE DEF SameMaterial
  <1>1. x.policy.celRequires # "attestation"
    BY ImageInputsAre, ChecksAssumption DEF Policies
  <1>2. runVSAAndParallelChecks(x, f) = Done(f.err)
    BY DEF runVSAAndParallelChecks
  <1>3. runVSAAndParallelChecks(y, g) = Done(g.err)
    BY SameRequestSameChecks DEF runVSAAndParallelChecks
  <1>4. ASSUME f.err # g.err PROVE SameButWarning(Done(f.err), Done(g.err))
    <2> DEFINE O(r, err) == appendOptionalChecks(x, r, err)
    <2>1. \A r : SameButWarning(r, r)
      BY DEF SameButWarning
    <2>2. \A r : SameButWarning(O(r, f.err), O(r, g.err))
      <3> TAKE r
      <3> DEFINE w == IF fetchGUACData(x) = <<>> THEN r
                      ELSE AppendCheck(r, "guac", Head(fetchGUACData(x)))
                 W == AppendCheck(w, "attestation", WarnResult)
      <3>1. O(r, "none") = w /\ O(r, "unverified") = W
        BY DEF appendOptionalChecks, isIgnorableVerificationFailure
      <3> HIDE DEF w
      <3>2. WarnResult.passed
        BY DEF WarnResult
      <3>3. /\ W.allowed <=> (w.allowed /\ WarnResult.passed)
            /\ W.checks = w.checks \union {Named("attestation", WarnResult)}
        BY AppendCheckIs
      <3>4. /\ Named("attestation", WarnResult).type = "attestation"
            /\ Named("attestation", WarnResult).passed = WarnResult.passed
        BY NamedIs
      <3> HIDE DEF W, O
      <3>5. SameButWarning(w, W) /\ SameButWarning(W, w)
        BY Zenon, <3>2, <3>3, <3>4 DEF SameButWarning
      <3>6. (f.err = "none" /\ g.err = "unverified") \/ (f.err = "unverified" /\ g.err = "none")
        BY <1>4
      <3>7. QED
        BY <3>1, <3>5, <3>6
    <2> HIDE DEF O
    <2>3. \A r, s : SameButWarning(r, s) => SameButWarning(appendVSAWarning(x, r), appendVSAWarning(x, s))
      BY AppendKeepsWarning DEF appendVSAWarning
    <2>4. \A r, s : SameButWarning(r, s) => SameButWarning(appendCELCheck(x, r), appendCELCheck(x, s))
      BY <1>1, CELKeepsWarning
    <2>5. \A err : Done(err) =
                CASE vsa = "rejected" -> resultFromCheck("vsa", FailResult)
                  [] vsa = "passed" -> appendCELCheck(x, O(resultFromCheck("vsa", PassResult), err))
                  [] vsa = "missing" /\ checkVSAMissing(x) ->
                        resultFromCheck("vsa", handleMissingAttestation(MissingPolicyFor(x, "vsa"), "vsa"))
                  [] OTHER -> appendCELCheck(x, appendVSAWarning(x, O(direct, err)))
      BY DEF O
    <2> HIDE DEF Done, vsa, direct, f, g
    <2>6. vsa \in {"rejected", "passed", "missing"}
      BY DEF checkVSA, vsa
    <2>7. CASE vsa = "rejected"
      BY <2>1, <2>5, <2>7
    <2>8. CASE vsa = "passed"
      BY <2>2, <2>4, <2>5, <2>8
    <2>9. CASE vsa = "missing" /\ checkVSAMissing(x)
      BY <2>1, <2>5, <2>9
    <2>10. CASE vsa = "missing" /\ ~checkVSAMissing(x)
      BY <2>2, <2>3, <2>4, <2>5, <2>10
    <2>11. QED
      BY <2>6, <2>7, <2>8, <2>9, <2>10
  <1>5. /\ applyEnforcement(x, Done(g.err)) = applyEnforcement(x, Done(f.err))
        /\ \A r : applyEnforcement(y, r) = applyEnforcement(x, r)
    <2>1. CASE f.err = g.err
      BY <2>1, SameRequestSameChecks
    <2>2. CASE f.err # g.err
      BY <2>2, <1>4, WarningIsNotEnforced, SameRequestSameChecks
    <2>3. QED
      BY <2>1, <2>2
  <1>6. /\ y.digest = x.digest /\ y.access = x.access
        /\ handleFetchError(y) = handleFetchError(x)
        /\ \A err : fetchErrorResult(y, err) = fetchErrorResult(x, err)
    BY SameRequestSameChecks DEF SameRequest
  <1> HIDE DEF Done
  <1>7. /\ g.transport <=> f.transport
        /\ g.err \notin {"none", "unverified"} <=> f.err \notin {"none", "unverified"}
        /\ g.err \notin {"none", "unverified"} => g.err = f.err
    BY DEF SameMaterial
  <1> HIDE DEF f, g
  <1> DEFINE Ran == x.digest /\ x.access /\ ~f.transport /\ f.err \in {"none", "unverified"}
  <1>8. CASE Ran
    <2>1. runChecks(x) = Done(f.err) /\ runChecks(y) = Done(g.err)
      BY <1>2, <1>3, <1>6, <1>7, <1>8 DEF runChecks, f, g
    <2>2. QED
      BY <1>5, <2>1 DEF Verdict
  <1>9. CASE ~Ran
    <2>1. runChecks(y) = runChecks(x)
      BY <1>6, <1>7, <1>9 DEF runChecks, f, g
    <2>2. QED
      BY <1>5, <2>1 DEF Verdict
  <1>10. QED
    BY <1>8, <1>9

\* What is fetched, case by case.
LEMMA FetchIs ==
    ASSUME NEW x, NEW index, index = fetchIndexAttestations(x),
           NEW err, err = DecidingError(x, index),
           NEW kept, kept = keepPartial(x.platform.atts, index.partial),
           NEW f, f = fetchAttestations(x)
    PROVE  /\ index.found # <<>> =>
                 f.atts = index.found /\ f.digest = "index" /\ f.err = "none" /\ ~f.transport
           /\ index.found = <<>> =>
                 /\ f.err = err
                 /\ f.atts = IF err = "unverified" THEN kept.atts
                             ELSE IF err = "none" THEN x.platform.atts ELSE <<>>
                 /\ f.digest = IF err = "unverified" THEN kept.digest ELSE "platform"
                 /\ f.transport <=> (index.err = "transport" \/ x.platform.err = "transport")
  BY DEF fetchAttestations, isFetchTransportFailure

\* Platform material that fails verification is fetched like verified material.
LEMMA PlatformJunk ==
    ASSUME NEW x \in ImageInputs, x.platform.err = "unverified",
           NEW y, y.index = x.index, y.platform.err = "none", y.platform.atts = x.platform.atts
    PROVE  SameMaterial(fetchAttestations(x), fetchAttestations(y))
  <1> DEFINE index == fetchIndexAttestations(x)
             f == fetchAttestations(x)
             g == fetchAttestations(y)
  <1>1. fetchIndexAttestations(y) = index
    BY DEF fetchIndexAttestations
  <1>2. index.err # "unverified" => index.partial = <<>>
    BY IndexIs
  <1>3. /\ DecidingError(x, index) = IF index.err \in {"none", "unverified"} THEN "unverified" ELSE index.err
        /\ DecidingError(y, index) =
              IF index.err \notin {"none", "unverified"} \/ x.platform.atts = <<>> THEN index.err ELSE "none"
    BY DEF DecidingError, isIgnorableVerificationFailure
  <1> DEFINE kept == keepPartial(x.platform.atts, index.partial)
  <1>4. /\ (x.platform.atts = <<>> /\ index.partial # <<>>) =>
              kept.atts = index.partial /\ kept.digest = "index"
        /\ ~(x.platform.atts = <<>> /\ index.partial # <<>>) =>
              kept.atts = x.platform.atts /\ kept.digest = "platform"
    BY DEF keepPartial
  <1>5. /\ index.found # <<>> =>
              f.atts = index.found /\ f.digest = "index" /\ f.err = "none" /\ ~f.transport
        /\ index.found = <<>> =>
              /\ f.err = DecidingError(x, index)
              /\ f.atts = IF DecidingError(x, index) = "unverified" THEN kept.atts
                          ELSE IF DecidingError(x, index) = "none" THEN x.platform.atts ELSE <<>>
              /\ f.digest = IF DecidingError(x, index) = "unverified" THEN kept.digest ELSE "platform"
              /\ f.transport <=> (index.err = "transport" \/ x.platform.err = "transport")
    BY FetchIs
  <1>6. /\ index.found # <<>> =>
              g.atts = index.found /\ g.digest = "index" /\ g.err = "none" /\ ~g.transport
        /\ index.found = <<>> =>
              /\ g.err = DecidingError(y, index)
              /\ g.atts = IF DecidingError(y, index) = "unverified" THEN kept.atts
                          ELSE IF DecidingError(y, index) = "none" THEN x.platform.atts ELSE <<>>
              /\ g.digest = IF DecidingError(y, index) = "unverified" THEN kept.digest ELSE "platform"
              /\ g.transport <=> (index.err = "transport" \/ y.platform.err = "transport")
    BY <1>1, FetchIs
  <1> HIDE DEF f, g, kept, index
  <1>7. SameMaterial(f, g)
    <2>1. CASE index.found # <<>>
      BY <1>5, <1>6, <2>1 DEF SameMaterial
    <2>2. CASE index.found = <<>>
      BY <1>2, <1>3, <1>4, <1>5, <1>6, <2>2 DEF SameMaterial
    <2>3. QED
      BY <2>1, <2>2
  <1>8. QED
    BY <1>7 DEF f, g

\* So is an index digest without attestations.
LEMMA IndexJunk ==
    ASSUME NEW x \in ImageInputs, x.index # NoIndex, x.index.err = "unverified", x.index.atts = <<>>,
           NEW y, y.platform = x.platform, y.index.err = "none", y.index.atts = <<>>
    PROVE  SameMaterial(fetchAttestations(x), fetchAttestations(y))
  <1> DEFINE i == fetchIndexAttestations(x)
             j == fetchIndexAttestations(y)
             f == fetchAttestations(x)
             g == fetchAttestations(y)
             kept == keepPartial(x.platform.atts, <<>>)
  <1>1. i.found = <<>> /\ i.partial = <<>> /\ i.err = "unverified"
    BY IndexIs
  <1>2. j.found = <<>> /\ j.partial = <<>> /\ j.err = "none"
    <2>1. CASE y.index = NoIndex
      BY <2>1, IndexIs
    <2>2. CASE y.index # NoIndex
      BY <2>2, IndexIs
    <2>3. QED
      BY <2>1, <2>2
  <1>3. kept.atts = x.platform.atts /\ kept.digest = "platform"
    BY DEF keepPartial
  <1>4. /\ DecidingError(x, i) = IF x.platform.err = "none" /\ x.platform.atts = <<>> THEN "unverified"
                                 ELSE x.platform.err
        /\ DecidingError(y, j) = x.platform.err
    BY <1>1, <1>2 DEF DecidingError, isIgnorableVerificationFailure
  <1>5. /\ f.err = DecidingError(x, i)
        /\ f.atts = IF DecidingError(x, i) = "unverified" THEN kept.atts
                    ELSE IF DecidingError(x, i) = "none" THEN x.platform.atts ELSE <<>>
        /\ f.digest = IF DecidingError(x, i) = "unverified" THEN kept.digest ELSE "platform"
        /\ f.transport <=> (i.err = "transport" \/ x.platform.err = "transport")
    BY <1>1, FetchIs
  <1>6. /\ g.err = DecidingError(y, j)
        /\ g.atts = IF DecidingError(y, j) = "unverified" THEN kept.atts
                    ELSE IF DecidingError(y, j) = "none" THEN x.platform.atts ELSE <<>>
        /\ g.digest = IF DecidingError(y, j) = "unverified" THEN kept.digest ELSE "platform"
        /\ g.transport <=> (j.err = "transport" \/ x.platform.err = "transport")
    BY <1>2, FetchIs
  <1> HIDE DEF f, g, kept, i, j
  <1>7. SameMaterial(f, g)
    BY <1>1, <1>2, <1>3, <1>4, <1>5, <1>6 DEF SameMaterial
  <1>8. QED
    BY <1>7 DEF f, g

\* The verdict is the one without what failed verification.
LEMMA ImageIsFreeOfJunk ==
    ASSUME input \in Inputs
    PROVE  JunkIsAbsent
  <1> SUFFICES ASSUME input.about = "image" PROVE JunkIsAbsent
    BY DEF JunkIsAbsent
  <1>1. input \in ImageInputs
    BY Zenon DEF Inputs, ThrottleInputs, DocumentInputs, BundleInputs, ProvenanceInputs
  <1> DEFINE Clean(ans) == IF ans.err = "unverified" THEN [ans EXCEPT !.err = "none"] ELSE ans
             P == [input EXCEPT !.platform = Clean(@)]
             I == [input EXCEPT !.index = Clean(@)]
  <1>2. input.platform \in Answers /\ input.index \in Answers \union {NoIndex}
    BY <1>1, ImageInputsAre
  <1>3. \A ans \in Answers : ans.err = "unverified" => Clean(ans).err = "none" /\ Clean(ans).atts = ans.atts
    BY DEF Answers
  <1>4. \A ans : ans.err # "unverified" => Clean(ans) = ans
    OBVIOUS
  <1> HIDE DEF Clean
  <1>5. SameRequest(input, P) /\ P.index = input.index /\ P.platform = Clean(input.platform)
    BY <1>1 DEF ImageInputs, SameRequest
  <1>6. SameRequest(input, I) /\ I.platform = input.platform /\ I.index = Clean(input.index)
    BY <1>1 DEF ImageInputs, SameRequest
  <1>7. (input.platform.err # "unverified" => P = input) /\ (input.index.err # "unverified" => I = input)
    BY <1>1, <1>4 DEF ImageInputs
  <1> HIDE DEF P, I
  <1>8. Verdict(input) = Verdict(P)
    <2>1. CASE input.platform.err = "unverified"
      <3>1. SameMaterial(fetchAttestations(input), fetchAttestations(P))
        BY <1>1, <1>2, <1>3, <1>5, <2>1, PlatformJunk
      <3>2. QED
        BY <1>1, <1>5, <3>1, SameMaterialSameVerdict
    <2>2. QED
      BY <1>7, <2>1
  <1>9. (input.index # NoIndex /\ input.index.atts = <<>>) => Verdict(input) = Verdict(I)
    <2>1. CASE input.index # NoIndex /\ input.index.atts = <<>> /\ input.index.err = "unverified"
      <3>1. SameMaterial(fetchAttestations(input), fetchAttestations(I))
        BY <1>1, <1>2, <1>3, <1>6, <2>1, IndexJunk
      <3>2. QED
        BY <1>1, <1>6, <3>1, SameMaterialSameVerdict
    <2>2. QED
      BY <1>7, <2>1
  <1>10. QED
    BY <1>8, <1>9 DEF JunkIsAbsent, P, I, Clean

\* Attestations that fail verification never change a verdict, for every set of
\* checks and every policy (unverifiedAttestationsCheck).
THEOREM UnverifiedAttestationsCountAsAbsent == SpecDecisions => []JunkIsAbsent
  <1>1. input \in Inputs => JunkIsAbsent
    BY ImageIsFreeOfJunk
  <1>2. QED
    BY <1>1, InputsHold, PTL

-----------------------------------------------------------------------------
(* Trust in a bundle *)

\* The verdicts on a bundle are told apart.
LEMMA VerdictsAre ==
    /\ Invalid.verdict = "invalid"
    /\ \A paths : ByKeys(paths) = Invalid \/ (ByKeys(paths).verdict = "verified" /\ ByKeys(paths).paths = paths)
    /\ \A b : ByCertificate(b).verdict = "verified"
    /\ rootFailures(TRUE).verdict = "noRoot" /\ rootFailures(FALSE) = Invalid
    /\ \A b, keys, err : unloadedKeyError(b, keys, err) = err \/ unloadedKeyError(b, keys, err).verdict = "noKey"
  BY DEF Invalid, ByKeys, ByCertificate, rootFailures, unloadedKeyError

\* A sequence is empty if one of its length is.
LEMMA EmptyTogether ==
    ASSUME NEW S, NEW s \in Seq(S), NEW t \in [DOMAIN s -> S]
    PROVE  t = <<>> <=> s = <<>>
  <1>1. Len(s) \in Nat /\ DOMAIN s = 1..Len(s)
    OBVIOUS
  <1>2. t \in Seq(S)
    BY <1>1
  <1>3. DOMAIN t = DOMAIN s
    OBVIOUS
  <1>4. QED
    BY <1>1, <1>2, <1>3

\* The same keys, all of them loaded.
AllLoaded(keys, all) ==
    /\ DOMAIN all = DOMAIN keys
    /\ \A i \in DOMAIN keys :
          /\ all[i].path = keys[i].path /\ all[i].key = keys[i].key /\ all[i].loads
          /\ all[i].from = keys[i].from /\ all[i].to = keys[i].to

\* The configuration with everything loaded.
LEMMA CompletedIs ==
    ASSUME NEW opts \in Options, NEW all, all = Completed(opts)
    PROVE  /\ all.issuers = opts.issuers /\ all.sans = opts.sans
           /\ all.requireLog = opts.requireLog /\ all.now = opts.now
           /\ AllLoaded(opts.keys, all.keys)
           /\ all.keys = <<>> <=> opts.keys = <<>>
  <1>1. /\ all.issuers = opts.issuers /\ all.sans = opts.sans
        /\ all.requireLog = opts.requireLog /\ all.now = opts.now
        /\ all.keys = [i \in DOMAIN opts.keys |-> [opts.keys[i] EXCEPT !.loads = TRUE]]
    BY DEF Completed, Options
  <1>2. opts.keys \in Seq(Keys)
    BY DEF Options
  <1>3. \A k \in Keys : [k EXCEPT !.loads = TRUE] \in Keys
    BY Zenon DEF Keys
  <1>4. all.keys \in [DOMAIN opts.keys -> Keys]
    BY <1>1, <1>2, <1>3
  <1>5. AllLoaded(opts.keys, all.keys)
    <2>1. DOMAIN all.keys = DOMAIN opts.keys
      BY <1>1
    <2>2. \A i \in DOMAIN opts.keys : all.keys[i] = [opts.keys[i] EXCEPT !.loads = TRUE] /\ opts.keys[i] \in Keys
      BY <1>1, <1>2
    <2>3. QED
      BY Zenon, <2>1, <2>2 DEF AllLoaded, Keys
  <1>6. QED
    BY <1>1, <1>2, <1>4, <1>5, EmptyTogether

\* The roots, had all been available.
LEMMA AvailableIs ==
    ASSUME NEW sources \in Seq(RootSources), NEW all, all = AllAvailable(sources)
    PROVE  /\ DOMAIN all = DOMAIN sources
           /\ all = <<>> <=> sources = <<>>
           /\ \A i \in DOMAIN sources :
                 /\ all[i].name = sources[i].name /\ all[i].issuers = sources[i].issuers
                 /\ all[i].keyless = sources[i].keyless /\ all[i].skipSCTs = sources[i].skipSCTs
                 /\ all[i].available
  <1>1. all = [i \in DOMAIN sources |-> [sources[i] EXCEPT !.available = TRUE]]
    BY DEF AllAvailable
  <1>2. \A i \in DOMAIN sources : sources[i] \in RootSources
    OBVIOUS
  <1>3. \A i \in DOMAIN sources : all[i] = [sources[i] EXCEPT !.available = TRUE]
    BY <1>1
  <1>4. \A i \in DOMAIN sources :
                 /\ all[i].name = sources[i].name /\ all[i].issuers = sources[i].issuers
                 /\ all[i].keyless = sources[i].keyless /\ all[i].skipSCTs = sources[i].skipSCTs
                 /\ all[i].available
    BY Zenon, <1>2, <1>3 DEF RootSources
  <1>5. \A src \in RootSources : [src EXCEPT !.available = TRUE] \in RootSources
    BY Zenon DEF RootSources
  <1>6. all \in [DOMAIN sources -> RootSources]
    BY <1>1, <1>2, <1>5
  <1>7. QED
    BY <1>4, <1>6, EmptyTogether

\* The loaded keys tell as much about the key that is named as all of them.
SaysAll(loaded, hint, all) ==
    /\ buildKeyMaterial(all) = Entries(all)
    /\ loaded # {} => buildKeyMaterial(all) # {}
    /\ \A t : ValidAtTime(loaded, hint, t) <=> ValidAtTime(buildKeyMaterial(all), hint, t)
    /\ \A times : signerFromResult(loaded, hint, times)
                     = signerFromResult(buildKeyMaterial(all), hint, times)

\* The entries of the key a bundle names are all loaded, or none is: once the
\* key is known to be among what loaded, the others add nothing.
LEMMA LoadedKeyIsWhole ==
    ASSUME NEW keys \in Seq(Keys), LoadsAsOne(keys), NEW hint,
           NEW loaded, loaded = buildKeyMaterial(keys),
           loaded = Entries(keys) \/ EntriesOf(loaded, hint) # {},
           NEW all, AllLoaded(keys, all)
    PROVE  SaysAll(loaded, hint, all)
  <1> DEFINE E == EntriesOf(loaded, hint)
             F == EntriesOf(buildKeyMaterial(all), hint)
  <1>2. \A i \in DOMAIN keys :
            /\ all[i].path = keys[i].path /\ all[i].key = keys[i].key /\ all[i].loads
            /\ all[i].from = keys[i].from /\ all[i].to = keys[i].to
    BY DEF AllLoaded
  <1>3. DOMAIN all = DOMAIN keys
    BY DEF AllLoaded
  <1>4. buildKeyMaterial(all) = Entries(all)
    BY <1>2, <1>3 DEF buildKeyMaterial, Entries
  <1>5. loaded # {} => Entries(all) # {}
    BY <1>3 DEF buildKeyMaterial, Entries
  <1>6. \A i \in DOMAIN keys : keys[i].key = hint => keys[i] \in E
    <2> SUFFICES ASSUME NEW i \in DOMAIN keys, keys[i].key = hint PROVE keys[i] \in E
      OBVIOUS
    <2>1. keys[i] \in Entries(keys)
      BY DEF Entries
    <2>2. CASE loaded = Entries(keys)
      BY <2>1, <2>2 DEF EntriesOf
    <2>3. CASE EntriesOf(loaded, hint) # {}
      <3>1. PICK e \in loaded : e.key = hint
        BY <2>3 DEF EntriesOf
      <3>2. e \in Entries(keys) /\ e.loads
        BY <3>1 DEF buildKeyMaterial
      <3>3. keys[i].loads
        BY <2>1, <3>1, <3>2 DEF LoadsAsOne
      <3>4. QED
        BY <2>1, <3>3 DEF buildKeyMaterial, EntriesOf
    <2>4. QED
      BY <2>2, <2>3
  <1>7. \A e \in E : \E g \in F : /\ g.path = e.path /\ \A t : validAt(g, t) <=> validAt(e, t)
    <2> SUFFICES ASSUME NEW e \in E
                 PROVE  \E g \in F : g.path = e.path /\ \A t : validAt(g, t) <=> validAt(e, t)
      OBVIOUS
    <2>1. PICK i \in DOMAIN keys : keys[i] = e /\ e.key = hint
      BY DEF EntriesOf, buildKeyMaterial, Entries
    <2>2. all[i] \in F
      BY <1>2, <1>3, <1>4, <2>1 DEF EntriesOf, Entries
    <2>3. \A t : validAt(all[i], t) <=> validAt(e, t)
      BY <1>2, <2>1 DEF validAt
    <2>4. all[i].path = e.path
      BY <1>2, <2>1
    <2>5. QED
      BY <2>2, <2>3, <2>4
  <1>8. \A g \in F : \E e \in E : /\ g.path = e.path /\ \A t : validAt(g, t) <=> validAt(e, t)
    <2> SUFFICES ASSUME NEW g \in F
                 PROVE  \E e \in E : g.path = e.path /\ \A t : validAt(g, t) <=> validAt(e, t)
      OBVIOUS
    <2>1. PICK i \in DOMAIN keys : all[i] = g /\ g.key = hint
      BY <1>3 DEF EntriesOf, buildKeyMaterial, Entries
    <2>2. keys[i] \in E
      BY <1>2, <1>6, <2>1
    <2>3. \A t : validAt(keys[i], t) <=> validAt(g, t)
      BY <1>2, <2>1 DEF validAt
    <2>4. keys[i].path = g.path
      BY <1>2, <2>1
    <2>5. QED
      BY <2>2, <2>3, <2>4
  <1> HIDE DEF E, F
  <1>9. \A t : ValidAtTime(loaded, hint, t) <=> ValidAtTime(buildKeyMaterial(all), hint, t)
    BY <1>7, <1>8 DEF ValidAtTime, E, F
  <1>10. \A times : signerFromResult(loaded, hint, times)
                       = signerFromResult(buildKeyMaterial(all), hint, times)
    <2> TAKE times
    <2>1. /\ signerFromResult(loaded, hint, times) = {e.path : e \in {f \in E : \A t \in times : validAt(f, t)}}
          /\ signerFromResult(buildKeyMaterial(all), hint, times)
                = {e.path : e \in {f \in F : \A t \in times : validAt(f, t)}}
      BY DEF signerFromResult, E, F
    <2>2. QED
      BY <1>7, <1>8, <2>1
  <1>11. QED
    BY <1>4, <1>5, <1>9, <1>10 DEF SaysAll

\* A verdict on a certificate is the same once every root is available.
LEMMA KeylessIsStable ==
    ASSUME NEW b, NEW opts \in Options, NEW sources \in Seq(RootSources),
           NEW r, r = verifyKeyless(b, opts, sources), r.verdict \in {"verified", "invalid"}
    PROVE  r = verifyKeyless(b, Completed(opts), AllAvailable(sources))
  <1> DEFINE O == Completed(opts)
             S == AllAvailable(sources)
             answers == {verifyKeylessWithRoot(b, opts, sources[i]) : i \in DOMAIN sources}
             after == {verifyKeylessWithRoot(b, O, S[i]) : i \in DOMAIN S}
             closed == opts.issuers = {} \/ (opts.requireLog /\ ~b.logged)
  <1>1. O.issuers = opts.issuers /\ O.sans = opts.sans /\ O.requireLog = opts.requireLog
    BY CompletedIs
  <1>2. /\ DOMAIN S = DOMAIN sources
        /\ \A i \in DOMAIN sources :
              /\ S[i].name = sources[i].name /\ S[i].issuers = sources[i].issuers
              /\ S[i].keyless = sources[i].keyless /\ S[i].skipSCTs = sources[i].skipSCTs
              /\ S[i].available
    BY AvailableIs
  <1>3. /\ r = IF closed THEN Invalid ELSE IF "accepts" \in answers THEN ByCertificate(b)
               ELSE rootFailures("unavailable" \in answers)
        /\ verifyKeyless(b, O, S) =
               IF closed THEN Invalid ELSE IF "accepts" \in after THEN ByCertificate(b)
               ELSE rootFailures("unavailable" \in after)
    BY <1>1 DEF verifyKeyless
  <1>4. \A i \in DOMAIN sources :
            LET before == verifyKeylessWithRoot(b, opts, sources[i])
                now == verifyKeylessWithRoot(b, O, S[i])
            IN  /\ before \in {"accepts", "rejects", "unavailable"}
                /\ before # "unavailable" => now = before
                /\ now # "unavailable"
    <2> SUFFICES ASSUME NEW i \in DOMAIN sources
                 PROVE  LET before == verifyKeylessWithRoot(b, opts, sources[i])
                            now == verifyKeylessWithRoot(b, O, S[i])
                        IN  /\ before \in {"accepts", "rejects", "unavailable"}
                            /\ before # "unavailable" => now = before
                            /\ now # "unavailable"
      OBVIOUS
    <2>1. rootIssuers(O, S[i]) = rootIssuers(opts, sources[i])
      BY <1>1, <1>2 DEF rootIssuers
    <2>2. \A issuers : CertificateVerifies(b, issuers, O.sans, S[i])
                          <=> CertificateVerifies(b, issuers, opts.sans, sources[i])
      BY <1>1, <1>2 DEF CertificateVerifies
    <2>3. S[i].available
      BY <1>2
    <2> HIDE DEF O, S
    <2>4. QED
      BY <2>1, <2>2, <2>3 DEF verifyKeylessWithRoot
  <1> HIDE DEF O, S
  <1>5. /\ "accepts" \in answers => "accepts" \in after
        /\ "unavailable" \notin after
        /\ "unavailable" \notin answers => ("accepts" \in after => "accepts" \in answers)
    BY <1>2, <1>4
  <1> HIDE DEF answers, after, closed
  <1>6. \/ closed \/ "accepts" \in answers \/ "unavailable" \notin answers
    BY Zenon, <1>3, VerdictsAre
  <1>7. ("unavailable" \in after) = FALSE
    BY <1>5
  <1>8. ("unavailable" \notin answers) => ("unavailable" \in answers) = FALSE
    OBVIOUS
  <1>9. QED
    BY <1>3, <1>5, <1>6, <1>7, <1>8 DEF O, S

\* So is a verdict on a key signature once every key and root is available.
LEMMA KeyBasedIsStable ==
    ASSUME NEW b, NEW opts \in Options, LoadsAsOne(opts.keys), NEW sources \in Seq(RootSources),
           NEW r, r = verifyKeyBased(b, opts, sources), r.verdict \in {"verified", "invalid"}
    PROVE  r = verifyKeyBased(b, Completed(opts), AllAvailable(sources))
  <1> DEFINE O == Completed(opts)
             S == AllAvailable(sources)
             old == buildKeyMaterial(opts.keys)
             new == buildKeyMaterial(O.keys)
             Accepting(loaded, s) == {i \in DOMAIN s : s[i].available /\ s[i].name \in b.logs
                                                         /\ KeyVerifies(b, loaded, b.times)}
             Fails(s) == rootFailures(\E i \in DOMAIN s : ~s[i].available)
             Decided(o, loaded, s) ==
                IF o.keys = <<>> THEN Invalid
                ELSE IF loaded = {} THEN [verdict |-> "noKey"]
                ELSE IF ~o.requireLog
                THEN IF KeyVerifies(b, loaded, {o.now})
                     THEN ByKeys(signerFromResult(loaded, b.hint, {o.now}))
                     ELSE unloadedKeyError(b, o.keys, Invalid)
                ELSE IF s = <<>> THEN Invalid
                ELSE IF Accepting(loaded, s) # {} THEN ByKeys(signerFromResult(loaded, b.hint, b.times))
                ELSE unloadedKeyError(b, o.keys, Fails(s))
             known == old = Entries(opts.keys) \/ EntriesOf(old, b.hint) # {}
  <1>1. r = Decided(opts, old, sources) /\ verifyKeyBased(b, O, S) = Decided(O, new, S)
    BY Zenon DEF verifyKeyBased
  <1>2. /\ O.requireLog = opts.requireLog /\ O.now = opts.now
        /\ AllLoaded(opts.keys, O.keys)
        /\ O.keys = <<>> <=> opts.keys = <<>>
    BY CompletedIs
  <1>3. /\ DOMAIN S = DOMAIN sources /\ (S = <<>> <=> sources = <<>>)
        /\ \A i \in DOMAIN sources : S[i].name = sources[i].name /\ S[i].available
    BY AvailableIs
  <1> HIDE DEF O, S
  <1>4. known =>
            /\ new = Entries(O.keys)
            /\ old # {} => new # {}
            /\ \A t : ValidAtTime(old, b.hint, t) <=> ValidAtTime(new, b.hint, t)
            /\ \A times : signerFromResult(old, b.hint, times) = signerFromResult(new, b.hint, times)
    <2>1. opts.keys \in Seq(Keys)
      BY DEF Options
    <2>2. known => SaysAll(old, b.hint, O.keys)
      BY Zenon, <1>2, <2>1, LoadedKeyIsWhole
    <2>3. QED
      BY <2>2, Zenon DEF SaysAll
  <1>5. known => \A times : KeyVerifies(b, old, times) <=> KeyVerifies(b, new, times)
    BY <1>4 DEF KeyVerifies
  <1>6. \A times : KeyVerifies(b, old, times) => known
    <2>1. \A times : KeyVerifies(b, old, times) => \E t \in times : ValidAtTime(old, b.hint, t)
      BY DEF KeyVerifies
    <2>2. QED
      BY <2>1 DEF ValidAtTime
  <1>7. /\ \A err : ~known => unloadedKeyError(b, opts.keys, err).verdict = "noKey"
        /\ \A err : known => unloadedKeyError(b, opts.keys, err) = err
        /\ \A err : known => unloadedKeyError(b, O.keys, err) = err
    BY <1>4 DEF unloadedKeyError
  <1>8. Accepting(old, sources) # {} => KeyVerifies(b, old, b.times)
    OBVIOUS
  <1>9. Fails(S) = Invalid
    <2>1. (\E i \in DOMAIN S : ~S[i].available) = FALSE
      BY <1>3
    <2>2. QED
      BY Zenon, <2>1, VerdictsAre
  <1>10. (\E i \in DOMAIN sources : ~sources[i].available) => Fails(sources).verdict = "noRoot"
    BY Zenon, VerdictsAre
  <1>11. (\A i \in DOMAIN sources : sources[i].available) =>
             /\ Fails(sources) = Invalid
             /\ known => (Accepting(new, S) # {} <=> Accepting(old, sources) # {})
    <2> SUFFICES ASSUME \A i \in DOMAIN sources : sources[i].available
                 PROVE  /\ Fails(sources) = Invalid
                        /\ known => (Accepting(new, S) # {} <=> Accepting(old, sources) # {})
      BY Zenon
    <2>1. (\E i \in DOMAIN sources : ~sources[i].available) = FALSE
      OBVIOUS
    <2>2. Fails(sources) = Invalid
      BY Zenon, <2>1, VerdictsAre
    <2>3. known => Accepting(new, S) = Accepting(old, sources)
      BY <1>3, <1>5
    <2>4. QED
      BY Zenon, <2>2, <2>3
  <1>12. known => (Accepting(old, sources) # {} => Accepting(new, S) # {})
    BY <1>3, <1>5
  <1> HIDE DEF old, new, known, Accepting, Fails
  <1>13. Invalid.verdict = "invalid" /\ \A paths : ByKeys(paths).verdict \in {"invalid", "verified"}
    BY Zenon, VerdictsAre
  <1> SUFFICES r = verifyKeyBased(b, O, S)
    BY DEF O, S
  <1>14. CASE opts.keys = <<>>
    BY <1>1, <1>2, <1>14
  <1>15. CASE opts.keys # <<>> /\ ~opts.requireLog
    <2>1. old # {}
      BY <1>1, <1>15
    <2>2. known
      BY <1>1, <1>6, <1>7, <1>15, <2>1
    <2>3. QED
      BY Zenon, <1>1, <1>2, <1>4, <1>5, <1>7, <1>15, <2>1, <2>2
  <1>16. CASE opts.keys # <<>> /\ opts.requireLog
    <2>1. old # {}
      BY <1>1, <1>16
    <2>2. CASE sources = <<>>
      <3>1. new # {}
        <4>1. opts.keys \in Seq(Keys)
          BY DEF Options
        <4>2. PICK e : e \in old
          BY <2>1
        <4>3. EntriesOf(old, e.key) # {}
          BY <4>2 DEF EntriesOf
        <4>4. old = buildKeyMaterial(opts.keys) /\ AllLoaded(opts.keys, O.keys)
          BY <1>2 DEF old
        <4>5. SaysAll(old, e.key, O.keys)
          BY Zenon, <4>1, <4>3, <4>4, LoadedKeyIsWhole
        <4>6. QED
          BY Zenon, <2>1, <4>5 DEF new, SaysAll
      <3>2. QED
        BY <1>1, <1>2, <1>3, <1>16, <2>1, <2>2, <3>1
    <2>3. CASE sources # <<>>
      <3>1. known
        BY <1>1, <1>6, <1>7, <1>8, <1>16, <2>1, <2>3
      <3>2. CASE Accepting(old, sources) # {}
        BY Zenon, <1>1, <1>2, <1>3, <1>4, <1>12, <1>16, <2>1, <2>3, <3>1, <3>2
      <3>3. CASE Accepting(old, sources) = {}
        <4>1. r = Fails(sources)
          BY Zenon, <1>1, <1>7, <1>16, <2>1, <2>3, <3>1, <3>3
        <4>2. \A i \in DOMAIN sources : sources[i].available
          BY <1>10, <4>1
        <4>3. Accepting(new, S) = {} /\ r = Invalid
          BY <1>11, <3>1, <3>3, <4>1, <4>2
        <4>4. Decided(O, new, S) = Invalid
          BY Zenon, <1>2, <1>3, <1>4, <1>7, <1>9, <1>16, <2>1, <2>3, <3>1, <4>3
        <4>5. QED
          BY Zenon, <1>1, <4>3, <4>4
      <3>4. QED
        BY <3>2, <3>3
    <2>4. QED
      BY <2>2, <2>3
  <1>17. QED
    BY <1>14, <1>15, <1>16

\* A verdict on a bundle that is not a matter of what could be loaded.
LEMMA VerdictIsStable ==
    ASSUME NEW b \in Bundles, NEW opts \in Options, LoadsAsOne(opts.keys), NEW sources \in Seq(RootSources)
    PROVE  OutageChangesNothing(b, opts, sources)
  <1> DEFINE O == Completed(opts)
             S == AllAvailable(sources)
             Signer(o, s) == IF b.signer = "cert" THEN verifyKeyless(b, o, s) ELSE verifyKeyBased(b, o, s)
             Bad(o, s) == \/ b.signer \notin {"cert", "key"}
                          \/ Signer(o, s).verdict = "verified" /\ b.payload # "statement"
  <1>1. \A o, s : VerifyBundle(b, o, s) = IF Bad(o, s) THEN Invalid ELSE Signer(o, s)
    BY DEF VerifyBundle
  <1>2. Signer(opts, sources).verdict \in {"verified", "invalid"} => Signer(O, S) = Signer(opts, sources)
    BY KeylessIsStable, KeyBasedIsStable
  <1> HIDE DEF Signer, O, S
  <1>3. VerifyBundle(b, opts, sources).verdict \in {"verified", "invalid"} =>
            VerifyBundle(b, O, S) = VerifyBundle(b, opts, sources)
    <2>1. CASE b.signer \notin {"cert", "key"}
      BY <1>1, <2>1
    <2>2. CASE b.signer \in {"cert", "key"} /\ Signer(opts, sources).verdict \in {"verified", "invalid"}
      BY <1>1, <1>2, <2>2
    <2>3. CASE b.signer \in {"cert", "key"} /\ Signer(opts, sources).verdict \notin {"verified", "invalid"}
      BY <1>1, <2>3
    <2>4. QED
      BY <2>1, <2>2, <2>3
  <1>4. QED
    BY <1>3 DEF OutageChangesNothing, O, S

\* A signer a bundle is attributed to is one the configuration names.
LEMMA SignerIsConfigured ==
    ASSUME NEW b \in Bundles, NEW opts \in Options, NEW sources \in Seq(RootSources)
    PROVE  SignerIsNamed(b, opts, sources)
  <1> DEFINE r == VerifyBundle(b, opts, sources)
             times == IF opts.requireLog THEN b.times ELSE {opts.now}
             loaded == buildKeyMaterial(opts.keys)
  <1>1. CASE r.verdict = "verified" /\ b.signer = "key"
    <2>1. r = verifyKeyBased(b, opts, sources)
      BY <1>1, VerdictsAre DEF VerifyBundle
    <2>2. \A keys, err : err.verdict # "verified" => unloadedKeyError(b, keys, err).verdict # "verified"
      BY Zenon, VerdictsAre
    <2>3. \A t : rootFailures(t).verdict # "verified"
      BY DEF rootFailures, Invalid
    <2>4. Invalid.verdict # "verified"
      BY DEF Invalid
    <2>5. r = ByKeys(signerFromResult(loaded, b.hint, times))
      <3> DEFINE fails == rootFailures(\E i \in DOMAIN sources : ~sources[i].available)
      <3>1. \/ r = Invalid \/ r = [verdict |-> "noKey"]
            \/ r = unloadedKeyError(b, opts.keys, Invalid)
            \/ r = unloadedKeyError(b, opts.keys, fails)
            \/ r = ByKeys(signerFromResult(loaded, b.hint, times))
        BY <2>1, Zenon DEF verifyKeyBased
      <3>2. fails.verdict # "verified"
        BY Zenon, <2>3
      <3>3. [verdict |-> "noKey"].verdict # "verified"
        OBVIOUS
      <3> HIDE DEF fails, times, loaded, r
      <3>4. QED
        BY <1>1, <2>2, <2>4, <3>1, <3>2, <3>3
    <2>6. r.paths = signerFromResult(loaded, b.hint, times)
      BY <1>1, <2>4, <2>5, VerdictsAre
    <2> HIDE DEF r
    <2>7. ASSUME NEW p \in r.paths
          PROVE  \E i \in DOMAIN opts.keys :
                    /\ opts.keys[i].path = p /\ opts.keys[i].key = b.hint
                    /\ \A t \in times : validAt(opts.keys[i], t)
      <3>1. PICK e \in EntriesOf(loaded, b.hint) : e.path = p /\ \A t \in times : validAt(e, t)
        BY <2>6 DEF signerFromResult
      <3>2. e \in Entries(opts.keys) /\ e.key = b.hint
        BY <3>1 DEF EntriesOf, buildKeyMaterial
      <3>3. QED
        BY <3>1, <3>2 DEF Entries
    <2>8. QED
      BY <1>1, <2>7 DEF SignerIsNamed, r
  <1>2. CASE r.verdict = "verified" /\ b.signer # "key"
    <2>1. b.signer = "cert" /\ r = verifyKeyless(b, opts, sources)
      <3>1. r = Invalid \/ (b.signer = "cert" /\ r = verifyKeyless(b, opts, sources))
        BY <1>2 DEF VerifyBundle
      <3>2. QED
        BY <1>2, <3>1 DEF Invalid
    <2>2. \A t : rootFailures(t).verdict # "verified"
      BY DEF rootFailures, Invalid
    <2>3. PICK i \in DOMAIN sources : verifyKeylessWithRoot(b, opts, sources[i]) = "accepts"
      BY <1>2, <2>1, <2>2, VerdictsAre DEF verifyKeyless
    <2>4. CertificateVerifies(b, rootIssuers(opts, sources[i]), opts.sans, sources[i])
      BY <2>3 DEF verifyKeylessWithRoot
    <2>5. /\ sources[i].name = b.root
          /\ b.issuer \in rootIssuers(opts, sources[i])
      BY <2>4 DEF CertificateVerifies, buildCertificateIdentity
    <2>6. /\ sources[i].keyless
          /\ b.issuer \in opts.issuers
          /\ sources[i].issuers = {} \/ b.issuer \in sources[i].issuers
      BY <2>5 DEF rootIssuers, scopeIssuers
    <2>7. QED
      BY <1>2, <2>5, <2>6 DEF SignerIsNamed
  <1>3. CASE r.verdict # "verified"
    BY <1>3 DEF SignerIsNamed
  <1>4. QED
    BY <1>1, <1>2, <1>3

\* What is trusted does not depend on what happened to load, and a verified
\* signer is a configured one, for any keys, roots and bundle, if a key that is
\* configured at several paths loads from all of them or from none (verify.go,
\* keys.go).
THEOREM TrustDoesNotDependOnOutages == SpecDecisions => []TrustIsStable
  <1>1. input \in Inputs => TrustIsStable
    <2> SUFFICES ASSUME input \in Inputs, input.about = "trust" PROVE TrustIsStable
      BY DEF TrustIsStable
    <2>1. input \in BundleInputs
      BY Zenon DEF Inputs, ThrottleInputs, DocumentInputs, ImageInputs, ProvenanceInputs
    <2>2. /\ input.bundle \in Bundles /\ input.opts \in Options /\ input.sources \in Seq(RootSources)
          /\ LoadsAsOne(input.opts.keys)
      BY <2>1, Zenon DEF BundleInputs
    <2>3. QED
      BY <2>2, VerdictIsStable, SignerIsConfigured DEF TrustIsStable
  <1>2. QED
    BY <1>1, InputsHold, PTL

-----------------------------------------------------------------------------

\* Induction over the naturals for a set, from the smallest number outside it.
LEMMA NatSetInduction ==
    ASSUME NEW S, 0 \in S, \A n \in Nat : n \in S => n + 1 \in S
    PROVE  Nat \subseteq S
  <1> DEFINE T == Nat \ S
             R == OpToRel(<, Nat)
  <1> SUFFICES ASSUME T # {} PROVE FALSE
    OBVIOUS
  <1>1. IsWellFoundedOn(R, Nat)
    BY NatLessThanWellFounded, Zenon
  <1>2. \A m, n \in Nat : m < n => <<m, n>> \in R
    BY DEF OpToRel
  <1> HIDE DEF R
  <1>3. PICK x \in T : \A y \in T : ~ (<<y, x>> \in R)
    BY Zenon, <1>1, WFMin
  <1>4. x # 0 /\ x - 1 \in Nat /\ x - 1 < x
    OBVIOUS
  <1>5. x - 1 \in S
    BY Zenon, <1>2, <1>3, <1>4
  <1>6. QED
    BY <1>4, <1>5

\* The repository and the ref of a source are all a pattern looks at.
LEMMA MatchIsByRepoAndRef ==
    ASSUME NEW p, NEW s, NEW t, s.repo = t.repo, s.ref = t.ref, MatchSource(p, s)
    PROVE  MatchSource(p, t)
  BY DEF MatchSource

\* The two sources of a build.
LEMMA BuiltIs ==
    ASSUME NEW s, NEW c, NEW b, b = Built(s, c)
    PROVE  b.source = s /\ b.config = c
  BY DEF Built

\* Cloud Build: what the provenance names is what the policy was asked about,
\* although the built source may take its ref from the configuration source.
LEMMA SourcesAreMatched ==
    ASSUME NEW att, NEW pol
    PROVE  NamedSourcesAreTrusted(att, pol)
  <1> DEFINE b == nestedSource(att.params.sourceToBuild)
             c == nestedSource(att.params.configSource)
             g == gcbSource(att.params)
             full == [b EXCEPT !.ref = IF @ = NoRef THEN c.ref ELSE @]
  <1> SUFFICES ASSUME VerifyProvenance(att, pol) = "pass", pol.sources # {},
                      att.version = "v1", att.buildType = BuildTypeGCBTriggered,
                      NEW s \in {b, c}, s.repo # Empty, s.ref # NoRef \/ s.repo # b.repo
               PROVE  \E p \in pol.sources : MatchSource(p, s)
    BY DEF NamedSourcesAreTrusted
  <1>1. b.repo # Empty => full.repo = b.repo /\ full.ref = IF b.ref = NoRef THEN c.ref ELSE b.ref
    BY DEF nestedSource, SourceAt, NoSource
  <1> DEFINE config == IF c.ref \notin {NoRef, full.ref} THEN c ELSE NoSource
  <1>2. g = IF b.repo = Empty THEN Built(c, NoSource)
            ELSE IF c.repo = Empty THEN Built(b, NoSource)
            ELSE IF c.repo # b.repo THEN Built(b, c)
            ELSE Built(full, config)
    BY Zenon DEF gcbSource
  <1> HIDE DEF b, c, g, full
  <1>3. g.source.repo # Empty
    <2>1. CASE b.repo = Empty
      BY <1>2, <2>1, BuiltIs
    <2>2. CASE b.repo # Empty /\ (c.repo = Empty \/ c.repo # b.repo)
      BY <1>2, <2>2, BuiltIs
    <2>3. CASE b.repo # Empty /\ c.repo # Empty /\ c.repo = b.repo
      <3>1. g = Built(full, config)
        BY <1>2, <2>3
      <3>2. QED
        BY <1>1, <2>3, <3>1, BuiltIs
    <2>4. QED
      BY <2>1, <2>2, <2>3
  <1>4. extractSourceV1(att.buildType, att.params) = g
    BY <1>3 DEF extractSourceV1, BuildTypeGCBTriggered, BuildTypeGitHubActionsWorkflow, g
  <1>5. Checked(att, g, pol)
    <2>1. VerifyProvenance(att, pol) = verifyV1(att, pol)
      BY DEF VerifyProvenance
    <2>2. QED
      BY <1>4, <2>1 DEF verifyV1
  <1>6. \A t \in {g.source, g.config} : t.repo # Empty => \E p \in pol.sources : MatchSource(p, t)
    BY <1>5 DEF Checked, verifySource
  <1>7. CASE b.repo = Empty
    <2>1. s = c /\ g.source = c
      BY <1>2, <1>7, BuiltIs
    <2>2. QED
      BY <1>6, <2>1
  <1>8. CASE b.repo # Empty /\ c.repo = Empty
    <2>1. s = b /\ g.source = b
      BY <1>2, <1>8, BuiltIs
    <2>2. QED
      BY <1>6, <2>1
  <1>9. CASE b.repo # Empty /\ c.repo # Empty /\ c.repo # b.repo
    <2>1. g.source = b /\ g.config = c
      BY <1>2, <1>9, BuiltIs
    <2>2. QED
      BY <1>6, <2>1
  <1>10. CASE b.repo # Empty /\ c.repo # Empty /\ c.repo = b.repo
    <2>1. g.source = full /\ g.config = config
      <3>1. g = Built(full, config)
        BY <1>2, <1>10
      <3>2. QED
        BY <3>1, BuiltIs
    <2>2. s.ref # NoRef
      BY <1>10
    <2>3. full.repo = b.repo /\ full.ref = IF b.ref = NoRef THEN c.ref ELSE b.ref
      BY <1>1, <1>10
    <2>4. CASE s.ref = full.ref
      <3>1. full.repo = s.repo /\ full.repo # Empty
        BY <1>10, <2>3
      <3>2. PICK p \in pol.sources : MatchSource(p, full)
        BY <1>6, <2>1, <3>1
      <3>3. MatchSource(p, s)
        BY <2>4, <3>1, <3>2, MatchIsByRepoAndRef
      <3>4. QED
        BY <3>3
    <2>5. CASE s.ref # full.ref
      <3>1. s = c
        BY <2>2, <2>3, <2>5
      <3>2. g.config = c
        BY <2>1, <2>2, <2>5, <3>1
      <3>3. QED
        BY <1>6, <3>1, <3>2
    <2>6. QED
      BY <2>4, <2>5
  <1>11. QED
    BY <1>7, <1>8, <1>9, <1>10

\* The states of a run over the first n dependencies.
IsRun(f, base, deps, n) ==
    f = [i \in 0..n |-> IF i = 0 THEN base ELSE verifyDependencyAgainst(f[i - 1], deps[i])]

\* There is such a run, so that the recursive function is one.
LEMMA RunExists ==
    ASSUME NEW base, NEW deps
    PROVE  \A n \in Nat : \E f : IsRun(f, base, deps, n)
  <1> DEFINE S == {n \in Nat : \E f : IsRun(f, base, deps, n)}
  <1>1. 0 \in S
    <2> DEFINE f == [i \in 0..0 |-> base]
    <2>1. IsRun(f, base, deps, 0)
      BY DEF IsRun
    <2>2. QED
      BY <2>1
  <1>2. ASSUME NEW n \in Nat, n \in S PROVE n + 1 \in S
    <2>1. PICK f : IsRun(f, base, deps, n)
      BY <1>2
    <2> DEFINE g == [i \in 0..(n + 1) |-> IF i = n + 1 THEN verifyDependencyAgainst(f[n], deps[n + 1]) ELSE f[i]]
               h == [i \in 0..(n + 1) |-> IF i = 0 THEN base ELSE verifyDependencyAgainst(g[i - 1], deps[i])]
    <2>2. \A i \in 0..n : f[i] = IF i = 0 THEN base ELSE verifyDependencyAgainst(f[i - 1], deps[i])
      BY <2>1 DEF IsRun
    <2>3. \A i \in 0..n : g[i] = f[i]
      OBVIOUS
    <2>4. g[n + 1] = verifyDependencyAgainst(f[n], deps[n + 1])
      OBVIOUS
    <2>5. \A i \in 0..(n + 1) : g[i] = h[i]
      <3> SUFFICES ASSUME NEW i \in 0..(n + 1) PROVE g[i] = h[i]
        OBVIOUS
      <3>1. h[i] = IF i = 0 THEN base ELSE verifyDependencyAgainst(g[i - 1], deps[i])
        OBVIOUS
      <3> HIDE DEF g, h
      <3>2. CASE i = n + 1
        <4>1. g[i - 1] = f[n] /\ i # 0
          BY <2>3, <3>2
        <4>2. QED
          BY <2>4, <3>1, <3>2, <4>1
      <3>3. CASE i = 0
        <4>1. g[i] = base
          BY <2>2, <2>3, <3>3
        <4>2. QED
          BY <3>1, <3>3, <4>1
      <3>4. CASE i \in 1..n
        <4>1. i - 1 \in 0..n /\ i \in 0..n /\ i # 0
          BY <3>4
        <4>2. g[i - 1] = f[i - 1] /\ g[i] = f[i]
          BY <2>3, <4>1
        <4>3. QED
          BY <2>2, <3>1, <4>1, <4>2
      <3>5. QED
        BY <3>2, <3>3, <3>4
    <2>6. g = h
      <3>1. g = [i \in 0..(n + 1) |-> g[i]] /\ h = [i \in 0..(n + 1) |-> h[i]]
        OBVIOUS
      <3> HIDE DEF g, h
      <3>2. [i \in 0..(n + 1) |-> g[i]] = [i \in 0..(n + 1) |-> h[i]]
        BY <2>5
      <3>3. QED
        BY <3>1, <3>2
    <2>7. \E k : IsRun(k, base, deps, n + 1)
      BY Zenon, <2>6 DEF IsRun
    <2>8. QED
      BY <2>7
  <1> HIDE DEF S
  <1>3. Nat \subseteq S
    BY <1>1, <1>2, NatSetInduction
  <1>4. QED
    BY <1>3 DEF S

\* The states of a run over the dependencies that answers for a single source.
Resolves(f, built, deps) ==
    /\ verifyResolvedSource(built, deps) = f[Len(deps)]
    /\ f[0] = [ok |-> TRUE, sources |-> <<built.source>>]
    /\ \A i \in 1..Len(deps) : f[i] = verifyDependencyAgainst(f[i - 1], deps[i])

\* The dependencies are looked at in such a run.
LEMMA ResolvedIs ==
    ASSUME NEW built, built.config.repo = Empty, NEW deps, Len(deps) \in Nat
    PROVE  \E f : Resolves(f, built, deps)
  <1> DEFINE sources == IF built.config.repo = Empty THEN <<built.source>> ELSE <<built.source, built.config>>
             base == [ok |-> TRUE, sources |-> sources]
             state == CHOOSE f : IsRun(f, base, deps, Len(deps))
  <1>1. verifyResolvedSource(built, deps) = state[Len(deps)]
    BY Zenon DEF verifyResolvedSource, IsRun
  <1>2. base = [ok |-> TRUE, sources |-> <<built.source>>]
    OBVIOUS
  <1> HIDE DEF base
  <1>3. \E f : IsRun(f, base, deps, Len(deps))
    BY Zenon, RunExists
  <1>4. IsRun(state, base, deps, Len(deps))
    BY <1>3, Zenon
  <1> HIDE DEF state
  <1>5. \A i \in 0..Len(deps) : state[i] = IF i = 0 THEN base ELSE verifyDependencyAgainst(state[i - 1], deps[i])
    BY <1>4 DEF IsRun
  <1>6. state[0] = base
    BY <1>5
  <1>7. ASSUME NEW i \in 1..Len(deps) PROVE state[i] = verifyDependencyAgainst(state[i - 1], deps[i])
    <2>1. i \in 0..Len(deps) /\ i # 0
      OBVIOUS
    <2>2. QED
      BY <1>5, <2>1
  <1>8. Resolves(state, built, deps)
    BY <1>1, <1>2, <1>6, <1>7 DEF Resolves
  <1>9. QED
    BY Zenon, <1>8

\* What a dependency on the source repository says about the commit.
Agreed(s, d) ==
    LET Comparable(len) == {c \in CommitsOf(d) : c.len = len}
    IN  /\ DOMAIN d.digests # {}
        /\ (s.ref.kind = "commit" /\ Comparable(s.ref.len) # {}) => Value(s.ref) \in CommitsOf(d)
        /\ (s.digest.alg = "gitCommit" /\ Comparable(s.digest.len) # {}) => Value(s.digest) \in CommitsOf(d)

\* A commit that compares with the digests of a dependency is one of its commits.
LEMMA CommitsAgree ==
    ASSUME NEW d, NEW x, NEW c \in CommitsOf(d), c.len = x.len,
           commitDigest(d.digests, x.len) \in {NoValue, Value(x)}
    PROVE  Value(x) \in CommitsOf(d)
  <1> DEFINE v == commitDigest(d.digests, x.len)
             Names == {<<"gitCommit", 40>>, <<"gitCommit", 64>>, <<"sha1", 40>>, <<"sha256", 64>>}
  <1>1. PICK a \in DOMAIN d.digests : <<a, d.digests[a].len>> \in Names /\ d.digests[a].len = x.len
    BY DEF CommitsOf
  <1>2. PICK b \in DOMAIN d.digests : v = d.digests[b] /\ d.digests[b].len = x.len /\ <<b, x.len>> \in Names
    <2>1. x.len \in {40, 64}
      BY <1>1
    <2>2. \/ a = "gitCommit"
          \/ a = IF x.len = 64 THEN "sha256" ELSE "sha1"
      BY <1>1
    <2>3. QED
      BY <1>1, <2>1, <2>2 DEF commitDigest
  <1>3. x.len # 0
    BY <1>1
  <1>4. v # NoValue
    BY <1>2, <1>3 DEF NoValue
  <1>5. d.digests[b] = Value(x)
    BY <1>2, <1>4
  <1>6. Value(x) = [name |-> d.digests[b].name, len |-> d.digests[b].len]
    BY <1>5 DEF Value
  <1>7. QED
    BY <1>2, <1>6 DEF CommitsOf

\* A dependency that is accepted agrees with the source.
LEMMA AcceptedAgrees ==
    ASSUME NEW s, NEW x, x.ref = s.ref, x.digest = s.digest \/ s.digest = NoDigest,
           NEW d, verifyDependency(x, d)
    PROVE  Agreed(s, d)
  <1>1. DOMAIN d.digests # {}
    BY DEF verifyDependency, firstDigest
  <1>2. ASSUME s.ref.kind = "commit", NEW c \in CommitsOf(d), c.len = s.ref.len
        PROVE  Value(s.ref) \in CommitsOf(d)
    <2>1. commitDigest(d.digests, s.ref.len) \in {NoValue, Value(s.ref)}
      BY <1>2 DEF verifyDependency, verifyDependencyRef
    <2>2. QED
      BY <1>2, <2>1, CommitsAgree
  <1>3. ASSUME s.digest.alg = "gitCommit", NEW c \in CommitsOf(d), c.len = s.digest.len
        PROVE  Value(s.digest) \in CommitsOf(d)
    <2>1. s.digest # NoDigest
      BY <1>3 DEF NoDigest
    <2>2. x.digest = s.digest
      BY <2>1
    <2>3. verifyDependencyDigest(x, d)
      BY DEF verifyDependency
    <2>4. c.len \in {40, 64}
      BY DEF CommitsOf
    <2>5. CASE "gitCommit" \in DOMAIN d.digests
      <3>1. d.digests["gitCommit"] = Value(s.digest)
        BY <1>3, <2>1, <2>2, <2>3, <2>5 DEF verifyDependencyDigest
      <3>2. d.digests["gitCommit"].len = s.digest.len
        BY <3>1 DEF Value
      <3>3. Value(s.digest) = [name |-> d.digests["gitCommit"].name, len |-> d.digests["gitCommit"].len]
        BY <3>1 DEF Value
      <3>4. QED
        BY <1>3, <2>4, <2>5, <3>2, <3>3 DEF CommitsOf
    <2>6. CASE "gitCommit" \notin DOMAIN d.digests
      <3>1. commitDigest(d.digests, s.digest.len) \in {NoValue, Value(s.digest)}
        BY <1>3, <2>1, <2>2, <2>3, <2>4, <2>6 DEF verifyDependencyDigest, isCommitSHA
      <3>2. QED
        BY <1>3, <3>1, CommitsAgree
    <2>7. QED
      BY <2>5, <2>6
  <1>4. QED
    BY <1>1, <1>2, <1>3 DEF Agreed

\* The state of a run over a single source: only its digest may be recorded.
RunState(s, ok, digest) ==
    [ok |-> ok, sources |-> <<[repo |-> s.repo, git |-> s.git, ref |-> s.ref, digest |-> digest]>>]

IsRunState(s, state) ==
    \E ok \in BOOLEAN :
        \E digest : state = RunState(s, ok, digest) /\ (digest = s.digest \/ s.digest = NoDigest)

\* Whether a run is still good.
LEMMA RunStateOk ==
    ASSUME NEW s, NEW ok, NEW digest, NEW q, q = RunState(s, ok, digest)
    PROVE  q.ok = ok
  BY DEF RunState

\* A run that is no longer good.
LEMMA ClearedIs ==
    ASSUME NEW s, NEW ok, NEW digest, NEW q, q = RunState(s, ok, digest), NEW still
    PROVE  [q EXCEPT !.ok = still] = RunState(s, still, digest)
  BY DEF RunState

\* A run that recorded a digest in the source.
LEMMA RecordedIs ==
    ASSUME NEW s, NEW ok, NEW digest, NEW q, q = RunState(s, ok, digest), NEW e
    PROVE  [q EXCEPT !.sources[1].digest = e] = RunState(s, ok, e)
  <1> DEFINE x == [repo |-> s.repo, git |-> s.git, ref |-> s.ref, digest |-> digest]
             y == [repo |-> s.repo, git |-> s.git, ref |-> s.ref, digest |-> e]
  <1>1. [x EXCEPT !.digest = e] = y
    OBVIOUS
  <1>2. [<<x>> EXCEPT ![1] = y] = <<y>>
    <2> HIDE DEF x, y
    <2> QED
      OBVIOUS
  <1>3. q = [ok |-> ok, sources |-> <<x>>] /\ RunState(s, ok, e) = [ok |-> ok, sources |-> <<y>>]
    BY DEF RunState
  <1>4. [<<x>> EXCEPT ![1].digest = e] = <<y>>
    BY <1>1, <1>2
  <1>5. QED
    <2> HIDE DEF x, y
    <2> QED
      BY <1>3, <1>4

\* One dependency: the source keeps its ref and the digest it came with, and a
\* dependency on its repository is only passed over if it agrees.
LEMMA RunSteps ==
    ASSUME NEW s, NEW state, IsRunState(s, state), NEW d, NEW q, q = verifyDependencyAgainst(state, d)
    PROVE  /\ IsRunState(s, q)
           /\ q.ok => state.ok
           /\ (q.ok /\ d.uri.repo = s.repo) => Agreed(s, d)
  <1>0. PICK ok \in BOOLEAN :
            \E digest : state = RunState(s, ok, digest) /\ (digest = s.digest \/ s.digest = NoDigest)
    BY Zenon DEF IsRunState
  <1>1. PICK digest : state = RunState(s, ok, digest) /\ (digest = s.digest \/ s.digest = NoDigest)
    BY Zenon, <1>0
  <1> DEFINE x == [repo |-> s.repo, git |-> s.git, ref |-> s.ref, digest |-> digest]
             of == {i \in DOMAIN state.sources : state.sources[i].repo = d.uri.repo}
             fits == {i \in of : verifyDependency(state.sources[i], d)}
             first == CHOOSE i \in fits : \A j \in fits : i <= j
             recorded == IF digest = NoDigest THEN firstDigest(d.digests) ELSE digest
  <1>2. state.ok = ok /\ state.sources = <<x>> /\ DOMAIN state.sources = {1} /\ state.sources[1] = x
    BY <1>1 DEF RunState
  <1>3. x.repo = s.repo /\ x.ref = s.ref /\ x.digest = digest
    OBVIOUS
  <1>4. q = IF fits = {} THEN [state EXCEPT !.ok = @ /\ of = {}]
            ELSE [state EXCEPT !.sources[first].digest = IF @ = NoDigest THEN firstDigest(d.digests) ELSE @]
    BY Zenon DEF verifyDependencyAgainst
  <1>5. CASE fits = {}
    <2> DEFINE still == ok /\ of = {}
    <2>1. q = RunState(s, still, digest)
      <3>1. q = [state EXCEPT !.ok = @ /\ of = {}]
        BY Zenon, <1>4, <1>5
      <3>2. q = [state EXCEPT !.ok = still]
        BY <1>2, <3>1
      <3> HIDE DEF of, still
      <3>3. QED
        BY <1>1, <3>2, ClearedIs
    <2>2. still \in BOOLEAN
      OBVIOUS
    <2>3. IsRunState(s, q)
      BY Zenon, <1>1, <2>1, <2>2 DEF IsRunState
    <2>4. q.ok = still
      <3> HIDE DEF still
      <3> QED
        BY <2>1, RunStateOk
    <2>5. d.uri.repo = s.repo => 1 \in of
      BY <1>2
    <2>6. QED
      BY Zenon, <1>2, <2>3, <2>4, <2>5
  <1>6. CASE fits # {}
    <2>1. fits = {1} /\ verifyDependency(x, d)
      BY <1>2, <1>6
    <2>2. first = 1
      BY <2>1
    <2>3. q = RunState(s, ok, recorded)
      <3> HIDE DEF of, fits, first
      <3>1. q = [state EXCEPT !.sources[1].digest = IF @ = NoDigest THEN firstDigest(d.digests) ELSE @]
        BY Zenon, <1>4, <1>6, <2>2
      <3>2. state.sources[1].digest = digest
        BY <1>2, <1>3
      <3>3. q = [state EXCEPT !.sources[1].digest = recorded]
        BY Zenon, <3>1, <3>2
      <3> HIDE DEF recorded
      <3>4. QED
        BY <1>1, <3>3, RecordedIs
    <2>4. recorded = s.digest \/ s.digest = NoDigest
      BY <1>1
    <2>5. IsRunState(s, q)
      BY <2>3, <2>4 DEF IsRunState
    <2>6. q.ok = ok
      BY <2>3 DEF RunState
    <2>7. Agreed(s, d)
      BY <1>1, <1>3, <2>1, AcceptedAgrees
    <2>8. QED
      BY <1>2, <2>5, <2>6, <2>7
  <1>7. QED
    BY <1>5, <1>6

\* A source has a repository, a ref and a digest.
IsSource(s) == s = [repo |-> s.repo, git |-> s.git, ref |-> s.ref, digest |-> s.digest]

\* The source at a location is one.
LEMMA SourceAtIs ==
    ASSUME NEW uri, NEW ref, NEW digest
    PROVE  IsSource(SourceAt(uri, ref, digest))
  BY DEF IsSource, SourceAt, NoSource

\* So is a source with another ref.
LEMMA ExceptRefIs ==
    ASSUME NEW s, IsSource(s), NEW e
    PROVE  IsSource([s EXCEPT !.ref = e])
  BY DEF IsSource

\* Every layout of the parameters leads to a source.
LEMMA BuiltSourceIs ==
    ASSUME NEW buildType, NEW params
    PROVE  IsSource(extractSourceV1(buildType, params).source)
  <1> DEFINE top == Built(topLevelSource(params), NoSource)
             workflow == Built(nestedSource(params.workflow), NoSource)
             gcb == gcbSource(params)
             config == nestedSource(params.configSource)
             built == nestedSource(params.sourceToBuild)
             newRef == IF built.ref = NoRef THEN config.ref ELSE built.ref
             full == [built EXCEPT !.ref = newRef]
  <1>1. IsSource(top.source)
    BY SourceAtIs, BuiltIs DEF topLevelSource
  <1>2. IsSource(workflow.source)
    BY SourceAtIs, BuiltIs DEF nestedSource
  <1>3. IsSource(gcb.source)
    <2>1. IsSource(config) /\ IsSource(built)
      BY SourceAtIs DEF nestedSource
    <2>2. IsSource(full)
      <3> HIDE DEF newRef, built
      <3> QED
        BY <2>1, ExceptRefIs
    <2>3. \E s \in {config, built, full} : \E c : gcb = Built(s, c)
      BY Zenon DEF gcbSource
    <2>4. PICK s \in {config, built, full} : \E c : gcb = Built(s, c)
      BY Zenon, <2>3
    <2> HIDE DEF config, built, full, gcb
    <2>5. gcb.source = s
      BY Zenon, <2>4, BuiltIs
    <2>6. QED
      BY Zenon, <2>1, <2>2, <2>4, <2>5
  <1>4. extractSourceV1(buildType, params) \in {top, workflow, gcb}
    BY Zenon DEF extractSourceV1
  <1> HIDE DEF top, workflow, gcb
  <1>5. QED
    BY Zenon, <1>1, <1>2, <1>3, <1>4

\* What holds after the first i dependencies.
HoldsAfter(s, f, deps, i) ==
    /\ IsRunState(s, f[i])
    /\ f[i].ok => \A j \in 1..i : deps[j].uri.repo = s.repo => Agreed(s, deps[j])

\* By induction over the dependencies: all of them agree with the source.
LEMMA RunAgrees ==
    ASSUME NEW built, IsSource(built.source), built.config.repo = Empty, NEW deps, Len(deps) \in Nat,
           verifyResolvedSource(built, deps).ok
    PROVE  \A j \in 1..Len(deps) : deps[j].uri.repo = built.source.repo => Agreed(built.source, deps[j])
  <1> DEFINE s == built.source
  <1>0. PICK f : Resolves(f, built, deps)
    BY Zenon, ResolvedIs
  <1>1. /\ verifyResolvedSource(built, deps) = f[Len(deps)]
        /\ f[0] = [ok |-> TRUE, sources |-> <<s>>]
        /\ \A i \in 1..Len(deps) : f[i] = verifyDependencyAgainst(f[i - 1], deps[i])
    BY Zenon, <1>0 DEF Resolves
  <1> DEFINE S == {i \in Nat : i <= Len(deps) => HoldsAfter(s, f, deps, i)}
  <1>2. 0 \in S
    <2>1. f[0] = RunState(s, TRUE, s.digest)
      BY Zenon, <1>1 DEF RunState, IsSource
    <2>2. IsRunState(s, f[0])
      BY Zenon, <2>1 DEF IsRunState
    <2>3. QED
      BY <2>2 DEF HoldsAfter
  <1>3. ASSUME NEW n \in Nat, n \in S PROVE n + 1 \in S
    <2> SUFFICES ASSUME n + 1 <= Len(deps) PROVE HoldsAfter(s, f, deps, n + 1)
      OBVIOUS
    <2>1. n + 1 \in 1..Len(deps) /\ n + 1 - 1 = n /\ n <= Len(deps)
      OBVIOUS
    <2>2. f[n + 1] = verifyDependencyAgainst(f[n], deps[n + 1])
      BY <1>1, <2>1
    <2>3. HoldsAfter(s, f, deps, n)
      BY <1>3, <2>1
    <2> HIDE DEF s, S
    <2>4. IsRunState(s, f[n])
      BY <2>3 DEF HoldsAfter
    <2>5. /\ IsRunState(s, f[n + 1])
          /\ f[n + 1].ok => f[n].ok
          /\ (f[n + 1].ok /\ deps[n + 1].uri.repo = s.repo) => Agreed(s, deps[n + 1])
      <3> DEFINE q == f[n + 1]
                 state == f[n]
                 d == deps[n + 1]
      <3>1. q = verifyDependencyAgainst(state, d) /\ IsRunState(s, state)
        BY <2>2, <2>4
      <3> HIDE DEF q, state, d
      <3>2. /\ IsRunState(s, q)
            /\ q.ok => state.ok
            /\ (q.ok /\ d.uri.repo = s.repo) => Agreed(s, d)
        BY Zenon, <3>1, RunSteps
      <3>3. QED
        BY Zenon, <3>2 DEF q, state, d
    <2>6. \A j \in 1..(n + 1) : j = n + 1 \/ j \in 1..n
      OBVIOUS
    <2>7. ASSUME f[n + 1].ok, NEW j \in 1..(n + 1), deps[j].uri.repo = s.repo
          PROVE  Agreed(s, deps[j])
      <3>1. CASE j = n + 1
        BY Zenon, <2>5, <2>7, <3>1
      <3>2. CASE j \in 1..n
        BY Zenon, <2>3, <2>5, <2>7, <3>2 DEF HoldsAfter
      <3>3. QED
        BY Zenon, <2>6, <3>1, <3>2
    <2>8. QED
      BY Zenon, <2>5, <2>7 DEF HoldsAfter
  <1> HIDE DEF S
  <1>4. Nat \subseteq S
    BY <1>2, <1>3, NatSetInduction
  <1>5. HoldsAfter(s, f, deps, Len(deps))
    BY <1>4 DEF S
  <1>6. QED
    BY <1>1, <1>5 DEF HoldsAfter

\* A provenance that passes does not contradict itself.
LEMMA CommitsAreAgreed ==
    ASSUME NEW att, NEW pol, att.deps \in Seq(Resources)
    PROVE  CommitIsAgreed(att, pol)
  <1> DEFINE built == extractSourceV1(att.buildType, att.params)
             s == built.source
  <1> SUFFICES ASSUME att.version = "v1", VerifyProvenance(att, pol) \in {"pass", "warn"},
                      built.config = NoSource, NEW i \in DOMAIN att.deps, s.repo # Empty,
                      att.deps[i].uri.repo = s.repo
               PROVE  Agreed(s, att.deps[i])
    BY Zenon DEF CommitIsAgreed, Agreed, Value
  <1>1. VerifyProvenance(att, pol) = verifyV1(att, pol)
    BY DEF VerifyProvenance
  <1>2. verifyResolvedSource(built, att.deps).ok
    BY <1>1 DEF verifyV1
  <1>3. built.config.repo = Empty
    BY DEF NoSource
  <1>4. IsSource(s)
    BY BuiltSourceIs
  <1>5. Len(att.deps) \in Nat /\ i \in 1..Len(att.deps)
    OBVIOUS
  <1> HIDE DEF built
  <1>6. QED
    BY <1>2, <1>3, <1>4, <1>5, RunAgrees

\* A provenance that passes names, for Cloud Build, no repository or ref that
\* the policy does not trust, and no dependency on its source repository stands
\* for another commit than the source is pinned to, for every statement and
\* policy (gcbSource, verifySource, verifyResolvedSource).
THEOREM PassingProvenanceIsTrusted == SpecDecisions => []SourcesAreTrusted
  <1>1. ASSUME input \in Inputs PROVE SourcesAreTrusted
    <2> SUFFICES ASSUME input.about = "provenance" PROVE SourcesAreTrusted
      BY Zenon DEF SourcesAreTrusted
    <2>1. input \in ProvenanceInputs
      BY <1>1 DEF Inputs, ThrottleInputs, DocumentInputs, ImageInputs, BundleInputs
    <2>2. input.att.deps \in Seq(Resources)
      BY <2>1 DEF ProvenanceInputs, Provenances
    <2>3. QED
      BY Zenon, <2>2, SourcesAreMatched, CommitsAreAgreed DEF SourcesAreTrusted
  <1>2. QED
    BY <1>1, InputsHold, PTL
=============================================================================
