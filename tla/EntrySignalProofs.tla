---------------------------- MODULE EntrySignalProofs ----------------------------
(***************************************************************************)
(* Theorems about EntrySignal, for any channel, any number of confirming   *)
(* bars and any length of a behaviour.                                     *)
(*                                                                         *)
(* The channel is always a run of target bars and the confirmation a run   *)
(* of source bars, and neither reaches past what has closed, so what a     *)
(* proposal says of its bars stays true while its task waits.  Of all      *)
(* proposals at most one is pending: accepted and not yet refused, or      *)
(* called, handed over or filled.                                          *)
(*                                                                         *)
(* The last part proves of MarketFeed, the owner's view of the market,     *)
(* that a hole in a chart is never silent.                                 *)
(***************************************************************************)
EXTENDS EntrySignal, FiniteSetTheorems, SequenceTheorems, WellFoundedInduction, TLAPS

Ids == Nat \X Nat

TypeOK ==
  /\ closes \in Seq(Nat)
  /\ wire \in [source : Seq(Nat), target : Seq(Nat)]
  /\ asked \in Nat
  /\ channel \in Seq(Int) /\ source \in Nat /\ window \in Seq(Nat)

(***************************************************************************)
(* The invariant.                                                          *)
(***************************************************************************)

\* Nothing that was asked or sent is ahead of the clock.
MarketInv ==
  /\ \E b \in Nat : \A m \in 1 .. Now : closes[m] <= b
  /\ asked * Interval <= Now
  /\ wire.source \in Seq(1 .. Now)
  /\ wire.target \in Seq({k \in Nat : k * Interval <= Now})

\* The channel and the confirmation are runs of bars.
EvaluatorInv ==
  /\ Len(channel) = Lookback
  /\ \A i \in 1 .. Lookback : channel[i] = Last(channel) - Lookback + i
  /\ Last(channel) \in Nat /\ Last(channel) * Interval <= Now
  /\ source <= Now
  /\ Len(window) <= Confirmations /\ Len(window) <= source
  /\ \A i \in 1 .. Len(window) : window[i] = source - Len(window) + i

\* The target bars of the channel, and the confirming minutes, of a proposal.
Channel(id)      == {id[1] - i : i \in 0 .. Lookback - 1}
Confirmation(id) == [i \in 1 .. Confirmations |-> id[2] - Confirmations + i]

Signal(id) ==
  /\ id \in Ids /\ id[2] <= Now
  /\ Confirmation(id)[1] > id[1] * Interval
  /\ Triggered(Channel(id), Confirmation(id))

SignalInv == \A id \in DOMAIN tasks \cup DOMAIN action : Signal(id)

\* The entries that may still trade, or have traded.
Pending == {id \in DOMAIN action : action[id] \in {"READY", "CALLED", "HANDED_OVER"}} \cup filled

DecisionInv ==
  /\ \A id \in DOMAIN action : action[id] = "HANDED_OVER" => lifecycle # "RUNNING"
  /\ \A a, b \in Pending : a = b
  /\ filled # {} => consumed
  /\ \A id \in DOMAIN events : events[id] = "ACCEPTED" => id \in DOMAIN action

Inv == TypeOK /\ MarketInv /\ EvaluatorInv /\ SignalInv /\ DecisionInv

(***************************************************************************)
(* Facts about the constants and the operators.                            *)
(***************************************************************************)

LEMMA Constants ==
  /\ Horizon \in Nat \ {0} /\ Deadline \in Nat \ {0} /\ Interval \in Nat \ {0}
  /\ Lookback \in Nat \ {0} /\ Confirmations \in Nat \ {0} /\ Backlog \in Nat \ {0}
  /\ Extension \in Nat /\ Prices \subseteq Nat
  BY EntryAssumption

LEMMA Multiples ==
  /\ \A m \in Nat : (m \div Interval) \in Nat /\ (m \div Interval) * Interval <= m
  /\ \A a, b \in Int : a <= b => a * Interval <= b * Interval
  /\ \A k \in Int : k * Interval \in Int /\ (k - 1) * Interval = k * Interval - Interval
  <1>1. Interval \in Nat \ {0}
    BY Constants
  <1>2. ASSUME NEW m \in Nat
        PROVE  (m \div Interval) \in Nat /\ (m \div Interval) * Interval <= m
    BY <1>1
  <1>3. ASSUME NEW a \in Int, NEW b \in Int, a <= b
        PROVE  a * Interval <= b * Interval
    BY <1>1, <1>3
  <1>4. ASSUME NEW k \in Int
        PROVE  k * Interval \in Int /\ (k - 1) * Interval = k * Interval - Interval
    BY <1>1
  <1> QED
    BY <1>2, <1>3, <1>4

\* A bounded set of naturals has a greatest element.
LEMMA MaxForm ==
  ASSUME NEW S \in SUBSET Nat, S # {}, NEW b \in Nat, \A x \in S : x <= b
  PROVE  Max(S) \in S /\ \A x \in S : x <= Max(S)
  <1> DEFINE R == {ss \in Nat \X Nat : ss[1] < ss[2]}
             U == {u \in Nat : \A x \in S : x <= u}
  <1>1. IsWellFoundedOn(R, Nat)
    BY NatLessThanWellFounded DEF OpToRel
  <1>2. U \subseteq Nat /\ b \in U
    OBVIOUS
  <1> HIDE DEF R, U
  <1>3. PICK u \in U : \A v \in U : ~(<<v, u>> \in R)
    BY <1>1, <1>2, WFMin
  <1>4. u \in Nat /\ \A x \in S : x <= u
    BY <1>2, <1>3 DEF U
  <1>5. \A v \in U : u <= v
    <2> SUFFICES ASSUME NEW v \in U
                 PROVE  u <= v
      OBVIOUS
    <2>1. <<v, u>> \in Nat \X Nat /\ ~(v < u)
      BY <1>2, <1>3, <1>4 DEF R
    <2> QED
      BY <1>2, <1>4, <2>1
  <1>6. u \in S
    <2> SUFFICES ASSUME u \notin S
                 PROVE  FALSE
      OBVIOUS
    <2>1. \A x \in S : x <= u - 1
      BY <1>4
    <2>2. u - 1 \in Nat
      <3>1. PICK x \in S : x \in Nat
        OBVIOUS
      <3>2. x <= u - 1
        BY <2>1
      <3> QED
        BY <1>4, <3>1, <3>2
    <2>3. u - 1 \in U
      BY <2>1, <2>2 DEF U
    <2> QED
      BY <1>4, <1>5, <2>3
  <1>7. \E m \in S : \A x \in S : m >= x
    BY <1>4, <1>6
  <1>8. Max(S) \in S /\ \A x \in S : Max(S) >= x
    BY <1>7 DEF Max
  <1> QED
    BY <1>8

\* The greatest of two.
LEMMA MaxOfTwo ==
  ASSUME NEW a \in Int, NEW b \in Int
  PROVE  Max({a, b}) = IF a >= b THEN a ELSE b
  <1>1. \E m \in {a, b} : \A x \in {a, b} : m >= x
    OBVIOUS
  <1>2. Max({a, b}) \in {a, b} /\ \A x \in {a, b} : Max({a, b}) >= x
    BY <1>1 DEF Max
  <1> QED
    BY <1>2

\* The newest of a run of minutes that ends with m.
LEMMA NewestForm ==
  ASSUME NEW s \in Seq(Nat), NEW m \in Nat, Len(s) > 0, Len(s) <= m,
         \A i \in 1 .. Len(s) : s[i] = m - Len(s) + i
  PROVE  /\ Newest(s) \in Seq(Nat) /\ Len(Newest(s)) > 0
         /\ Len(Newest(s)) <= Confirmations /\ Len(Newest(s)) <= Len(s)
         /\ \A i \in 1 .. Len(Newest(s)) : Newest(s)[i] = m - Len(Newest(s)) + i
  <1> DEFINE from == Max({1, Len(s) - Confirmations + 1})
  <1>1. Len(s) \in Nat /\ Confirmations \in Nat \ {0}
    BY LenProperties, Constants
  <1>2. from = IF 1 >= Len(s) - Confirmations + 1 THEN 1 ELSE Len(s) - Confirmations + 1
    BY <1>1, MaxOfTwo
  <1>3. from \in 1 .. Len(s) /\ Len(s) - from + 1 <= Confirmations
    BY <1>1, <1>2
  <1> HIDE DEF from
  <1>4. \A i \in from .. Len(s) : s[i] \in Nat
    BY <1>1, <1>3, ElementOfSeq
  <1>5. /\ SubSeq(s, from, Len(s)) \in Seq(Nat)
        /\ Len(SubSeq(s, from, Len(s))) = Len(s) - from + 1
        /\ \A i \in 1 .. Len(s) - from + 1 : SubSeq(s, from, Len(s))[i] = s[from + i - 1]
    BY <1>1, <1>3, <1>4, SubSeqProperties
  <1>6. \A i \in 1 .. Len(s) - from + 1 : s[from + i - 1] = m - (Len(s) - from + 1) + i
    BY <1>1, <1>3
  <1>7. Newest(s) = SubSeq(s, from, Len(s))
    BY DEF Newest, from
  <1>8. PICK n \in Nat : n = Len(s) - from + 1 /\ n > 0 /\ n <= Len(s) /\ n <= Confirmations
    <2>1. /\ Len(s) - from + 1 \in Nat /\ Len(s) - from + 1 > 0
          /\ Len(s) - from + 1 <= Len(s) /\ Len(s) - from + 1 <= Confirmations
      BY <1>1, <1>3
    <2> QED
      BY <2>1
  <1>9. /\ Newest(s) \in Seq(Nat) /\ Len(Newest(s)) = n
        /\ \A i \in 1 .. n : Newest(s)[i] = m - n + i
    BY <1>5, <1>6, <1>7, <1>8
  <1> QED
    BY <1>8, <1>9

(***************************************************************************)
(* What closed before does not change.                                     *)
(***************************************************************************)

LEMMA CloseForm ==
  ASSUME TypeOK, MarketInv
  PROVE  /\ Now \in Nat
         /\ \E b \in Nat : \A m \in Int : m <= Now => Close(m) \in Nat /\ Close(m) <= b
  <1>1. closes \in Seq(Nat) /\ Now \in Nat /\ DOMAIN closes = 1 .. Now
    BY LenProperties DEF TypeOK, Now
  <1>2. PICK b \in Nat : \A m \in 1 .. Now : closes[m] <= b
    BY DEF MarketInv
  <1>3. \A m \in 1 .. Now : closes[m] \in Nat
    BY <1>1, ElementOfSeq
  <1>4. \A m \in Int : m <= Now => Close(m) \in Nat /\ Close(m) <= b
    BY <1>1, <1>2, <1>3 DEF Close
  <1> QED
    BY <1>1, <1>4

\* The minutes of a target bar.
LEMMA HighForm ==
  ASSUME TypeOK, MarketInv, NEW k \in Int, k * Interval <= Now
  PROVE  /\ High(k) \in Nat
         /\ \A m \in (k - 1) * Interval + 1 .. k * Interval : Close(m) <= High(k)
         /\ \E b \in Nat : \A m \in Int : m <= Now => Close(m) \in Nat /\ Close(m) <= b
         /\ \A b \in Nat : (\A m \in Int : m <= Now => Close(m) <= b) => High(k) <= b
  <1>1. Now \in Nat
    BY CloseForm
  <1>2. PICK b \in Nat : \A m \in Int : m <= Now => Close(m) \in Nat /\ Close(m) <= b
    BY CloseForm
  <1>3. /\ k * Interval \in Int /\ (k - 1) * Interval = k * Interval - Interval
        /\ Interval \in Nat \ {0}
    BY Multiples, Constants
  <1> DEFINE minutes == (k - 1) * Interval + 1 .. k * Interval
             S == {Close(m) : m \in minutes}
  <1>4. minutes \subseteq Int /\ k * Interval \in minutes /\ \A m \in minutes : m <= Now
    BY <1>1, <1>3
  <1> HIDE DEF minutes
  <1>5. S \in SUBSET Nat /\ S # {} /\ \A x \in S : x <= b
    BY <1>2, <1>4
  <1>6. Max(S) \in S /\ \A x \in S : x <= Max(S)
    BY <1>5, MaxForm
  <1>7. High(k) = Max(S)
    BY DEF High, minutes
  <1>8. High(k) \in Nat /\ \A m \in minutes : Close(m) <= High(k)
    BY <1>5, <1>6, <1>7
  <1>9. ASSUME NEW c \in Nat, \A m \in Int : m <= Now => Close(m) <= c
        PROVE  High(k) <= c
    BY <1>4, <1>6, <1>7, <1>9
  <1> QED
    BY <1>2, <1>8, <1>9 DEF minutes

LEMMA UpperForm ==
  ASSUME TypeOK, MarketInv, NEW ks \in SUBSET Int, NEW k \in ks, \A j \in ks : j * Interval <= Now
  PROVE  Upper(ks) \in Nat /\ High(k) <= Upper(ks)
  <1>1. PICK b \in Nat : \A m \in Int : m <= Now => Close(m) \in Nat /\ Close(m) <= b
    BY CloseForm
  <1>2. \A j \in ks : High(j) \in Nat /\ High(j) <= b
    BY <1>1, HighForm
  <1> DEFINE S == {High(j) : j \in ks}
  <1>3. S \in SUBSET Nat /\ S # {} /\ \A x \in S : x <= b
    BY <1>2
  <1>4. Max(S) \in S /\ \A x \in S : x <= Max(S)
    BY <1>3, MaxForm
  <1> QED
    BY <1>3, <1>4 DEF Upper

\* Another minute leaves the signals that were given as they were.
Later == \E p \in Nat : closes' = Append(closes, p)

LEMMA LaterForm ==
  ASSUME TypeOK, Later
  PROVE  /\ Now \in Nat /\ Now' = Now + 1 /\ closes' \in Seq(Nat)
         /\ \A m \in Int : m <= Now => Close(m)' = Close(m)
  <1>1. closes \in Seq(Nat)
    BY DEF TypeOK
  <1>2. PICK p \in Nat : closes' = Append(closes, p)
    BY DEF Later
  <1>3. /\ closes' \in Seq(Nat) /\ Len(closes') = Len(closes) + 1
        /\ \A i \in 1 .. Len(closes) : closes'[i] = closes[i]
    BY <1>1, <1>2, AppendProperties
  <1>4. Len(closes) \in Nat
    BY <1>1, LenProperties
  <1> QED
    BY <1>3, <1>4 DEF Now, Close

LEMMA SignalStays ==
  ASSUME TypeOK, Later \/ UNCHANGED closes, NEW id, Signal(id)
  PROVE  Signal(id)'
  <1>1. id \in Ids /\ id[1] \in Nat /\ id[2] \in Nat /\ id[2] <= Now
    BY DEF Signal, Ids
  <1>2. CASE UNCHANGED closes
    BY <1>2 DEF Signal, Now, Triggered, Close, Upper, High
  <1>3. CASE Later
    <2>1. /\ Now \in Nat /\ Now' = Now + 1
          /\ \A m \in Int : m <= Now => Close(m)' = Close(m)
      BY <1>3, LaterForm
    <2>2. Confirmations \in Nat \ {0} /\ Lookback \in Nat \ {0} /\ Interval \in Nat \ {0}
      BY Constants
    <2> DEFINE ms == Confirmation(id)
    <2>3. /\ DOMAIN ms = 1 .. Confirmations
          /\ \A i \in DOMAIN ms : ms[i] \in Int /\ ms[i] <= Now
          /\ Last(ms) \in Int /\ Last(ms) <= Now
      <3>1. DOMAIN ms = 1 .. Confirmations /\ \A i \in 1 .. Confirmations : ms[i] = id[2] - Confirmations + i
        BY DEF Confirmation
      <3>2. Len(ms) = Confirmations
        BY <2>2 DEF Confirmation
      <3> QED
        BY <1>1, <2>1, <2>2, <3>1, <3>2 DEF Last
    <2>4. id[1] * Interval \in Int /\ id[1] * Interval < Now
      BY <1>1, <2>1, <2>2, <2>3, Multiples DEF Signal
    <2>5. ASSUME NEW k \in Int, k <= id[1]
          PROVE  High(k)' = High(k)
      <3>1. k * Interval \in Int /\ k * Interval <= Now
        BY <1>1, <2>1, <2>4, <2>5, Multiples
      <3>2. (k - 1) * Interval + 1 \in Int
        BY Multiples
      <3>3. \A m \in (k - 1) * Interval + 1 .. k * Interval : Close(m)' = Close(m)
        BY <2>1, <3>1, <3>2
      <3> QED
        BY <3>3 DEF High
    <2>6. Upper(Channel(id))' = Upper(Channel(id))
      <3>1. \A k \in Channel(id) : k \in Int /\ k <= id[1]
        BY <1>1, <2>2 DEF Channel
      <3> QED
        BY <2>5, <3>1 DEF Upper
    <2>7. Triggered(Channel(id), ms)'
      BY <2>1, <2>3, <2>6 DEF Signal, Triggered
    <2> QED
      BY <1>1, <2>1, <2>7 DEF Signal
  <1> QED
    BY <1>2, <1>3

(***************************************************************************)
(* The clock and the bars on their way.                                    *)
(***************************************************************************)

LEMMA MoreOf ==
  ASSUME NEW S, NEW T, S \subseteq T, NEW s \in Seq(S)
  PROVE  s \in Seq(T)
  <1>1. Len(s) \in Nat /\ s \in [1 .. Len(s) -> S]
    BY LenProperties
  <1>2. s \in [1 .. Len(s) -> T]
    BY <1>1
  <1> QED
    BY <1>1, <1>2

LEMMA ClockStep ==
  ASSUME Inv, Next
  PROVE  /\ Later \/ UNCHANGED closes
         /\ Now \in Nat /\ Now' \in Nat /\ Now <= Now'
         /\ closes' \in Seq(Nat)
         /\ \E b \in Nat : \A m \in 1 .. Now' : closes'[m] <= b
  <1>1. TypeOK /\ MarketInv /\ Now \in Nat
    BY CloseForm DEF Inv
  <1>2. ASSUME UNCHANGED closes
        PROVE  /\ Now' = Now /\ closes' \in Seq(Nat)
               /\ \E b \in Nat : \A m \in 1 .. Now' : closes'[m] <= b
    <2>1. Now' = Now /\ closes' \in Seq(Nat)
      BY <1>1, <1>2 DEF TypeOK, Now
    <2>2. PICK b \in Nat : \A m \in 1 .. Now : closes[m] <= b
      BY <1>1 DEF MarketInv
    <2>3. \A m \in 1 .. Now' : closes'[m] <= b
      BY <1>2, <2>1, <2>2
    <2> QED
      BY <2>1, <2>3
  <1>3. ASSUME NEW p \in Prices, Minute(p)
        PROVE  /\ Later
               /\ Now' = Now + 1 /\ closes' \in Seq(Nat)
               /\ \E b \in Nat : \A m \in 1 .. Now' : closes'[m] <= b
    <2>1. p \in Nat /\ closes' = Append(closes, p) /\ closes \in Seq(Nat)
      BY <1>1, <1>3, Constants DEF Minute, TypeOK
    <2>2. Later
      BY <2>1 DEF Later
    <2>3. Now' = Now + 1 /\ closes' \in Seq(Nat)
      BY <1>1, <2>2, LaterForm
    <2>4. PICK b \in Nat : \A m \in 1 .. Now : closes[m] <= b
      BY <1>1 DEF MarketInv
    <2>5. PICK c \in Nat : b <= c /\ p <= c
      <3>1. b + p \in Nat /\ b <= b + p /\ p <= b + p
        BY <2>1
      <3> QED
        BY <3>1
    <2>6. ASSUME NEW m \in 1 .. Now'
          PROVE  closes'[m] <= c
      <3>1. closes'[m] = IF m = Now + 1 THEN p ELSE closes[m]
        BY <1>1, <2>1, <2>3, AppendProperties DEF Now
      <3>2. m # Now + 1 => closes[m] \in Nat /\ closes[m] <= b
        BY <1>1, <2>1, <2>3, <2>4, ElementOfSeq DEF Now
      <3> QED
        BY <2>1, <2>5, <3>1, <3>2
    <2> QED
      BY <2>2, <2>3, <2>6
  <1>4. (\E p \in Prices : Minute(p)) \/ UNCHANGED closes
    BY DEF Next, Disconnect, Reconnect, Start, HistoryComplete, HistoryRefused, TargetBar, SourceBar,
           TaskStep, TaskFails, RefuseFacts, Decide, RefuseRefreshed, Call, CallNot, Fill, NoFill,
           Resume, StopOrRelease, TakeOver, Down, world
  <1>5. CASE UNCHANGED closes
    BY <1>1, <1>2, <1>5
  <1>6. CASE \E p \in Prices : Minute(p)
    <2>1. PICK p \in Prices : Minute(p)
      BY <1>6
    <2>2. /\ Later
          /\ Now' = Now + 1 /\ closes' \in Seq(Nat)
          /\ \E b \in Nat : \A m \in 1 .. Now' : closes'[m] <= b
      BY <1>3, <2>1
    <2>3. Now \in Nat /\ Now' \in Nat /\ Now <= Now'
      BY <1>1, <2>2
    <2> QED
      BY <2>2, <2>3, Zenon
  <1> QED
    BY <1>4, <1>5, <1>6

\* What is on its way stays behind the clock.
Sent(n)   == Seq(1 .. n)
Closed(n) == Seq({k \in Nat : k * Interval <= n})

LEMMA SentStays ==
  ASSUME NEW n \in Nat, NEW o \in Nat, n <= o
  PROVE  Sent(n) \subseteq Sent(o) /\ Closed(n) \subseteq Closed(o)
  <1>1. 1 .. n \subseteq 1 .. o
    OBVIOUS
  <1>2. {k \in Nat : k * Interval <= n} \subseteq {k \in Nat : k * Interval <= o}
    BY Multiples
  <1> QED
    BY <1>1, <1>2, MoreOf DEF Sent, Closed

WireInv == /\ wire \in [source : Seq(Nat), target : Seq(Nat)]
           /\ wire.source \in Sent(Now) /\ wire.target \in Closed(Now)

LEMMA WireForm ==
  ASSUME NEW s \in Sent(Now), NEW t \in Closed(Now), Now \in Nat
  PROVE  [source |-> s, target |-> t] \in [source : Seq(Nat), target : Seq(Nat)]
  <1>1. 1 .. Now \subseteq Nat /\ {k \in Nat : k * Interval <= Now} \subseteq Nat
    OBVIOUS
  <1>2. s \in Seq(Nat) /\ t \in Seq(Nat)
    BY <1>1, MoreOf DEF Sent, Closed
  <1> QED
    BY <1>2

LEMMA WireStep ==
  ASSUME Inv, Next
  PROVE  WireInv'
  <1> DEFINE m == Now + 1
  <1>1. /\ wire \in [source : Seq(Nat), target : Seq(Nat)]
        /\ wire.source \in Sent(Now) /\ wire.target \in Closed(Now)
        /\ wire = [source |-> wire.source, target |-> wire.target]
    BY DEF Inv, TypeOK, MarketInv, Sent, Closed
  <1>2. Now \in Nat /\ Now' \in Nat /\ Now <= Now'
    BY ClockStep
  <1>3. wire.source \in Sent(Now') /\ wire.target \in Closed(Now')
    BY <1>1, <1>2, SentStays
  <1>4. ASSUME NEW s \in Sent(Now'), NEW t \in Closed(Now'), wire' = [source |-> s, target |-> t]
        PROVE  WireInv'
    <2>1. wire' \in [source : Seq(Nat), target : Seq(Nat)]
      <3>1. 1 .. Now' \subseteq Nat /\ {k \in Nat : k * Interval <= Now'} \subseteq Nat
        OBVIOUS
      <3>2. s \in Seq(Nat) /\ t \in Seq(Nat)
        BY <3>1, MoreOf DEF Sent, Closed
      <3> QED
        BY <1>4, <3>2
    <2> QED
      BY <1>4, <2>1 DEF WireInv
  <1>5. CASE UNCHANGED wire
    BY <1>1, <1>3, <1>4, <1>5
  <1>6. ASSUME NEW p \in Prices, Minute(p)
        PROVE  WireInv'
    <2>1. CASE UNCHANGED wire
      BY <1>1, <1>3, <1>4, <2>1
    <2>2. CASE wire' = Push(wire, m)
      <3> DEFINE t == IF m % Interval = 0 THEN Append(wire.target, m \div Interval) ELSE wire.target
      <3>1. Now' = m /\ m \in Nat /\ m > 0
        <4>1. p \in Nat /\ closes' = Append(closes, p)
          BY <1>6, Constants DEF Minute
        <4>2. Later /\ TypeOK
          BY <4>1 DEF Later, Inv
        <4> QED
          BY <1>2, <4>2, LaterForm
      <3>2. Append(wire.source, m) \in Sent(Now')
        BY <1>3, <3>1, AppendProperties DEF Sent
      <3>3. (m \div Interval) \in Nat /\ (m \div Interval) * Interval <= m
        BY <3>1, Multiples
      <3>4. t \in Closed(Now')
        <4>1. (m \div Interval) \in {k \in Nat : k * Interval <= Now'}
          BY <3>1, <3>3
        <4> QED
          BY <1>3, <4>1, AppendProperties DEF Closed
      <3>5. wire' = [source |-> Append(wire.source, m), target |-> t]
        BY <1>1, <2>2 DEF Push
      <3> HIDE DEF t
      <3> QED
        BY <1>4, <3>2, <3>4, <3>5
    <2> QED
      BY <1>6, <2>1, <2>2 DEF Minute
  <1>7. ASSUME NEW again \in BOOLEAN, Reconnect(again)
        PROVE  WireInv'
    <2>1. CASE UNCHANGED wire
      BY <1>1, <1>3, <1>4, <2>1
    <2>2. CASE wire' = [wire EXCEPT !.source = Append(@, Now)]
      <3>1. Now' = Now /\ Now > 0
        BY <1>7 DEF Reconnect, Now
      <3>2. Append(wire.source, Now) \in Sent(Now')
        BY <1>2, <1>3, <3>1, AppendProperties DEF Sent
      <3>3. wire' = [source |-> Append(wire.source, Now), target |-> wire.target]
        BY <1>1, <2>2
      <3> QED
        BY <1>3, <1>4, <3>2, <3>3
    <2> QED
      BY <1>7, <2>1, <2>2 DEF Reconnect
  <1>8. CASE TargetBar
    <2>1. wire.target # <<>> /\ wire' = [wire EXCEPT !.target = Tail(@)]
      BY <1>8 DEF TargetBar
    <2>2. Tail(wire.target) \in Closed(Now')
      BY <1>3, <2>1, HeadTailProperties DEF Closed
    <2>3. wire' = [source |-> wire.source, target |-> Tail(wire.target)]
      BY <1>1, <2>1
    <2> QED
      BY <1>3, <1>4, <2>2, <2>3
  <1>9. ASSUME NEW quote \in Quotes, SourceBar(quote)
        PROVE  WireInv'
    <2>1. wire.source # <<>> /\ wire' = [wire EXCEPT !.source = Tail(@)]
      BY <1>9 DEF SourceBar
    <2>2. Tail(wire.source) \in Sent(Now')
      BY <1>3, <2>1, HeadTailProperties DEF Sent
    <2>3. wire' = [source |-> Tail(wire.source), target |-> wire.target]
      BY <1>1, <2>1
    <2> QED
      BY <1>3, <1>4, <2>2, <2>3
  <1>10. CASE Down
    <2>1. wire' = [source |-> <<>>, target |-> <<>>]
      BY <1>10 DEF Down
    <2>2. <<>> \in Sent(Now') /\ <<>> \in Closed(Now')
      BY EmptySeq DEF Sent, Closed
    <2> QED
      BY <1>4, <2>1, <2>2
  <1> QED
    BY <1>5, <1>6, <1>7, <1>8, <1>9, <1>10
    DEF Next, Disconnect, Start, HistoryComplete, HistoryRefused, TaskStep, TaskFails, RefuseFacts,
        Decide, RefuseRefreshed, Call, CallNot, Fill, NoFill, Resume, StopOrRelease, TakeOver

\* A history is not asked for what has not closed.
LEMMA AskedStep ==
  ASSUME Inv, Next
  PROVE  asked' \in Nat /\ asked' * Interval <= Now'
  <1>1. Now \in Nat /\ Now' \in Nat /\ Now <= Now'
    BY ClockStep
  <1>2. asked \in Nat /\ asked * Interval <= Now /\ asked * Interval \in Int
    BY Multiples DEF Inv, TypeOK, MarketInv
  <1>3. CASE UNCHANGED asked
    BY <1>1, <1>2, <1>3
  <1>4. CASE Start
    <2>1. asked' = Now \div Interval /\ Now' = Now
      BY <1>4 DEF Start, Requested, world, Now
    <2>2. (Now \div Interval) \in Nat /\ (Now \div Interval) * Interval <= Now
      BY <1>1, Multiples
    <2> QED
      BY <2>1, <2>2
  <1>5. CASE Down
    <2>1. asked' = 0
      BY <1>5 DEF Down
    <2>2. 0 * Interval = 0
      BY Constants
    <2> QED
      BY <1>1, <2>1, <2>2
  <1> QED
    BY <1>3, <1>4, <1>5
    DEF Next, Minute, Disconnect, Reconnect, HistoryComplete, HistoryRefused, TargetBar, SourceBar,
        TaskStep, TaskFails, RefuseFacts, Decide, RefuseRefreshed, Call, CallNot, Fill, NoFill,
        Resume, StopOrRelease, TakeOver

(***************************************************************************)
(* The evaluator: runs of bars.                                            *)
(***************************************************************************)

ChannelOf(c, n) ==
  /\ c \in Seq(Int) /\ Len(c) = Lookback
  /\ \A i \in 1 .. Lookback : c[i] = Last(c) - Lookback + i
  /\ Last(c) \in Nat /\ Last(c) * Interval <= n

WindowOf(w, s, n) ==
  /\ w \in Seq(Nat) /\ s \in Nat /\ s <= n
  /\ Len(w) <= Confirmations /\ Len(w) <= s
  /\ \A i \in 1 .. Len(w) : w[i] = s - Len(w) + i

LEMMA EndingForm ==
  ASSUME NEW n, NEW k \in Nat, k * Interval <= n
  PROVE  ChannelOf(Ending(k), n)
  <1>1. Lookback \in Nat \ {0}
    BY Constants
  <1> DEFINE c == [i \in 1 .. Lookback |-> k - Lookback + i]
  <1>2. c \in Seq(Int) /\ Len(c) = Lookback /\ \A i \in 1 .. Lookback : c[i] = k - Lookback + i
    <2>1. c \in [1 .. Lookback -> Int]
      BY <1>1
    <2>2. c \in Seq(Int)
      BY <1>1, <2>1, SeqDef
    <2> QED
      BY <1>1, <2>1, <2>2, LenProperties
  <1> HIDE DEF c
  <1>3. Last(c) = k
    BY <1>1, <1>2 DEF Last
  <1> QED
    BY <1>2, <1>3 DEF ChannelOf, Ending, c

LEMMA NextChannel ==
  ASSUME NEW n, NEW c, ChannelOf(c, n), NEW k \in Nat, k = Last(c) + 1, k * Interval <= n
  PROVE  ChannelOf(Append(Tail(c), k), n)
  <1>1. /\ Lookback \in Nat \ {0} /\ c \in Seq(Int) /\ Len(c) = Lookback
        /\ \A i \in 1 .. Lookback : c[i] = Last(c) - Lookback + i
    BY Constants DEF ChannelOf
  <1>2. c # <<>>
    BY <1>1, EmptySeq
  <1>3. /\ Tail(c) \in Seq(Int) /\ Len(Tail(c)) = Lookback - 1
        /\ \A i \in 1 .. Lookback - 1 : Tail(c)[i] = c[i + 1]
    BY <1>1, <1>2, HeadTailProperties
  <1> DEFINE d == Append(Tail(c), k)
  <1>4. /\ d \in Seq(Int) /\ Len(d) = Lookback
        /\ \A i \in 1 .. Lookback - 1 : d[i] = c[i + 1]
        /\ d[Lookback] = k
    <2>1. /\ d \in Seq(Int) /\ Len(d) = Len(Tail(c)) + 1
          /\ \A i \in 1 .. Len(Tail(c)) : d[i] = Tail(c)[i]
          /\ d[Len(Tail(c)) + 1] = k
      BY <1>3, AppendProperties
    <2> HIDE DEF d
    <2> QED
      BY <1>1, <1>3, <2>1
  <1> HIDE DEF d
  <1>5. Last(d) = k
    BY <1>4 DEF Last
  <1>6. Last(c) \in Nat
    BY DEF ChannelOf
  <1>7. \A i \in 1 .. Lookback : d[i] = k - Lookback + i
    <2> SUFFICES ASSUME NEW i \in 1 .. Lookback
                 PROVE  d[i] = k - Lookback + i
      OBVIOUS
    <2>1. CASE i = Lookback
      BY <1>1, <1>4, <2>1
    <2>2. CASE i # Lookback
      <3>1. i \in 1 .. Lookback - 1 /\ i + 1 \in 1 .. Lookback
        BY <1>1, <2>2
      <3>2. d[i] = Last(c) - Lookback + (i + 1)
        BY <1>1, <1>4, <3>1
      <3> QED
        BY <1>1, <1>6, <3>2
    <2> QED
      BY <2>1, <2>2
  <1> QED
    BY <1>4, <1>5, <1>7 DEF ChannelOf, d

LEMMA WindowForm ==
  ASSUME NEW n \in Nat, WindowOf(window, source, n), NEW m \in Nat, m > source, m <= n
  PROVE  WindowOf(Confirming(m), m, n) /\ Len(Confirming(m)) > 0
  <1>1. /\ window \in Seq(Nat) /\ source \in Nat /\ Len(window) \in Nat
        /\ Len(window) <= Confirmations /\ Len(window) <= source
        /\ \A i \in 1 .. Len(window) : window[i] = source - Len(window) + i
    BY LenProperties DEF WindowOf
  <1>2. Confirmations \in Nat \ {0}
    BY Constants
  <1>3. CASE source # 0 /\ m # source + 1
    <2>1. Confirming(m) = <<m>>
      BY <1>3 DEF Confirming
    <2>2. <<m>> \in Seq(Nat) /\ Len(<<m>>) = 1 /\ <<m>>[1] = m
      OBVIOUS
    <2>3. WindowOf(<<m>>, m, n)
      BY <1>1, <1>2, <2>2 DEF WindowOf
    <2> QED
      BY <2>1, <2>2, <2>3
  <1>4. CASE ~(source # 0 /\ m # source + 1)
    <2> DEFINE s == Append(window, m)
    <2>1. /\ s \in Seq(Nat) /\ Len(s) = Len(window) + 1
          /\ \A i \in 1 .. Len(window) : s[i] = window[i]
          /\ s[Len(window) + 1] = m
      BY <1>1, AppendProperties
    <2>2. Confirming(m) = Newest(s)
      BY <1>4 DEF Confirming
    <2> HIDE DEF s
    <2>3. Len(s) > 0 /\ Len(s) <= m /\ \A i \in 1 .. Len(s) : s[i] = m - Len(s) + i
      <3>1. m = source + 1 \/ Len(window) = 0
        BY <1>1, <1>4
      <3>2. Len(s) > 0 /\ Len(s) <= m
        BY <1>1, <2>1
      <3>3. ASSUME NEW i \in 1 .. Len(s)
            PROVE  s[i] = m - Len(s) + i
        <4>1. CASE i = Len(window) + 1
          BY <1>1, <2>1, <4>1
        <4>2. CASE i # Len(window) + 1
          <5>1. i \in 1 .. Len(window)
            BY <1>1, <2>1, <4>2
          <5>2. s[i] = source - Len(window) + i /\ m = source + 1
            BY <1>1, <2>1, <3>1, <5>1
          <5> QED
            BY <1>1, <2>1, <5>2
        <4> QED
          BY <4>1, <4>2
      <3> QED
        BY <3>2, <3>3
    <2>4. /\ Newest(s) \in Seq(Nat) /\ Len(Newest(s)) > 0
          /\ Len(Newest(s)) <= Confirmations /\ Len(Newest(s)) <= Len(s)
          /\ \A i \in 1 .. Len(Newest(s)) : Newest(s)[i] = m - Len(Newest(s)) + i
      BY <2>1, <2>3, NewestForm
    <2>5. Len(Newest(s)) \in Nat /\ Len(s) \in Nat
      BY <2>1, <2>4, LenProperties
    <2>6. WindowOf(Newest(s), m, n)
      BY <2>3, <2>4, <2>5 DEF WindowOf
    <2> QED
      BY <2>2, <2>4, <2>6
  <1> QED
    BY <1>3, <1>4

LEMMA EvaluatorForm ==
  ASSUME Inv
  PROVE  ChannelOf(channel, Now) /\ WindowOf(window, source, Now) /\ Now \in Nat
  BY CloseForm DEF Inv, TypeOK, EvaluatorInv, ChannelOf, WindowOf

LEMMA ChannelStep ==
  ASSUME Inv, Next
  PROVE  ChannelOf(channel', Now')
  <1>1. ChannelOf(channel, Now) /\ Now \in Nat /\ Now' \in Nat /\ Now <= Now'
    BY EvaluatorForm, ClockStep
  <1>2. ChannelOf(channel, Now')
    <2>1. Last(channel) * Interval \in Int
      BY <1>1, Multiples DEF ChannelOf
    <2> QED
      BY <1>1, <2>1 DEF ChannelOf
  <1>3. CASE UNCHANGED channel
    BY <1>2, <1>3
  <1>4. CASE HistoryComplete
    <2>1. asked \in Nat /\ asked * Interval \in Int /\ asked * Interval <= Now
      BY Multiples DEF Inv, TypeOK, MarketInv
    <2>2. asked * Interval <= Now' /\ channel' = Ending(asked)
      BY <1>1, <1>4, <2>1 DEF HistoryComplete
    <2> QED
      BY <2>1, <2>2, EndingForm
  <1>5. CASE TargetBar
    <2>1. CASE UNCHANGED channel
      BY <1>2, <2>1
    <2> DEFINE k == Head(wire.target)
    <2>2. CASE k = Last(channel) + 1 /\ channel' = Append(Tail(channel), k)
      <3>1. wire.target # <<>>
        BY <1>5 DEF TargetBar
      <3>2. wire.target \in Seq({j \in Nat : j * Interval <= Now})
        BY DEF Inv, MarketInv
      <3>3. k \in {j \in Nat : j * Interval <= Now}
        BY <3>1, <3>2, HeadTailProperties, SMTT(20)
      <3> HIDE DEF k
      <3>4. k \in Nat /\ k * Interval <= Now /\ k * Interval \in Int
        <4>1. k \in Nat /\ k * Interval <= Now
          BY <3>3, Zenon
        <4> QED
          BY <4>1, Multiples
      <3>5. k * Interval <= Now'
        BY <1>1, <3>4
      <3>6. ChannelOf(Append(Tail(channel), k), Now')
        BY <1>2, <2>2, <3>4, <3>5, NextChannel
      <3> QED
        BY <2>2, <3>6
    <2> QED
      BY <1>5, <2>1, <2>2 DEF TargetBar, AcceptTarget, evaluator
  <1>6. CASE Down
    <2>1. channel' = Ending(0)
      BY <1>6 DEF Down
    <2>2. 0 * Interval = 0
      BY Constants
    <2> QED
      BY <1>1, <2>1, <2>2, EndingForm
  <1> QED
    BY <1>3, <1>4, <1>5, <1>6
    DEF Next, Minute, Disconnect, Reconnect, Start, HistoryRefused, SourceBar, evaluator,
        TaskStep, TaskFails, RefuseFacts, Decide, RefuseRefreshed, Call, CallNot, Fill, NoFill,
        Resume, StopOrRelease, TakeOver

\* A minute that is accepted is new.
LEMMA SourceForm ==
  ASSUME Inv, NEW quote \in Quotes, SourceBar(quote)
  PROVE  /\ Head(wire.source) \in 1 .. Now /\ Head(wire.source) \in Nat
         /\ Now' = Now
         /\ \/ UNCHANGED <<source, window, tasks>>
            \/ Head(wire.source) > source /\ AcceptSource(Head(wire.source), quote)
  <1>1. wire.source # <<>> /\ Now' = Now
    BY DEF SourceBar, world, Now
  <1>2. wire.source \in Seq(1 .. Now) /\ source \in Nat /\ Now \in Nat
    BY CloseForm DEF Inv, MarketInv, TypeOK
  <1>3. Head(wire.source) \in 1 .. Now
    BY <1>1, <1>2, HeadTailProperties
  <1>4. \/ UNCHANGED <<source, window, tasks>>
        \/ ~(Head(wire.source) <= source) /\ AcceptSource(Head(wire.source), quote)
    BY DEF SourceBar
  <1> QED
    BY <1>1, <1>2, <1>3, <1>4

LEMMA WindowStep ==
  ASSUME Inv, Next
  PROVE  WindowOf(window', source', Now')
  <1>1. WindowOf(window, source, Now) /\ Now \in Nat /\ Now' \in Nat /\ Now <= Now'
    BY EvaluatorForm, ClockStep
  <1>2. WindowOf(window, source, Now')
    BY <1>1 DEF WindowOf
  <1>3. WindowOf(<<>>, source, Now') /\ WindowOf(<<>>, 0, Now')
    BY <1>1, <1>2, EmptySeq, Constants DEF WindowOf
  <1>4. CASE window' \in {window, <<>>} /\ UNCHANGED source
    BY <1>2, <1>3, <1>4
  <1>5. CASE window' = <<>> /\ source' = 0
    BY <1>3, <1>5
  <1>6. ASSUME NEW quote \in Quotes, SourceBar(quote)
        PROVE  WindowOf(window', source', Now')
    <2>1. CASE UNCHANGED <<source, window, tasks>>
      BY <1>2, <2>1
    <2> DEFINE m == Head(wire.source)
    <2>2. CASE m > source /\ AcceptSource(m, quote)
      <3>1. m \in Nat /\ m <= Now /\ Now' = Now
        BY <1>6, SourceForm
      <3>2. source' = m /\ window' = Confirming(m)
        BY <2>2 DEF AcceptSource
      <3> HIDE DEF m
      <3>3. WindowOf(Confirming(m), m, Now)
        BY <1>1, <2>2, <3>1, WindowForm
      <3> QED
        BY <3>1, <3>2, <3>3
    <2> QED
      BY <1>6, <2>1, <2>2, SourceForm
  <1> QED
    BY <1>4, <1>5, <1>6
    DEF Next, Minute, Disconnect, Reconnect, Start, HistoryComplete, HistoryRefused, TargetBar, AcceptTarget,
        evaluator, TaskStep, TaskFails, RefuseFacts, Decide, RefuseRefreshed, Call, CallNot, Fill, NoFill,
        Resume, StopOrRelease, TakeOver, Down

(***************************************************************************)
(* The signals.                                                            *)
(***************************************************************************)

\* The target bars of the channel are the last ones.
LEMMA ChannelRange ==
  ASSUME NEW n, ChannelOf(channel, n), NEW m
  PROVE  Range(channel) = Channel(<<Last(channel), m>>)
  <1>1. /\ Lookback \in Nat \ {0} /\ channel \in Seq(Int) /\ Len(channel) = Lookback
        /\ \A i \in 1 .. Lookback : channel[i] = Last(channel) - Lookback + i
        /\ Last(channel) \in Nat
    BY Constants DEF ChannelOf
  <1>2. DOMAIN channel = 1 .. Lookback
    BY <1>1, LenProperties
  <1> DEFINE k == Last(channel)
  <1>3. Channel(<<k, m>>) = {k - i : i \in 0 .. Lookback - 1}
    BY DEF Channel
  <1>4. ASSUME NEW x \in Range(channel)
        PROVE  x \in Channel(<<k, m>>)
    <2>1. PICK i \in 1 .. Lookback : x = channel[i]
      BY <1>2, <1>4 DEF Range
    <2>2. Lookback - i \in 0 .. Lookback - 1 /\ x = k - (Lookback - i)
      BY <1>1, <2>1
    <2> QED
      BY <1>3, <2>2
  <1>5. ASSUME NEW x \in Channel(<<k, m>>)
        PROVE  x \in Range(channel)
    <2>1. PICK i \in 0 .. Lookback - 1 : x = k - i
      BY <1>3, <1>5
    <2>2. Lookback - i \in 1 .. Lookback /\ channel[Lookback - i] = x
      BY <1>1, <2>1
    <2> QED
      BY <1>2, <2>2 DEF Range
  <1> QED
    BY <1>4, <1>5

\* What is proposed is a signal: a minute of the last target bar would not have
\* closed above that bar's own high.
LEMMA ProposalForm ==
  ASSUME TypeOK, MarketInv, ChannelOf(channel, Now), Now \in Nat, NEW m \in Nat, m <= Now,
         NEW w, WindowOf(w, m, Now), Len(w) = Confirmations,
         m > Last(channel) * Interval, Triggered(Range(channel), w)
  PROVE  Signal(<<Last(channel), m>>)
  <1> DEFINE k == Last(channel)
             id == <<k, m>>
  <1>1. /\ k \in Nat /\ k * Interval \in Int /\ k * Interval <= Now
        /\ (k - 1) * Interval = k * Interval - Interval
    <2>1. k \in Nat /\ k * Interval <= Now
      BY DEF ChannelOf
    <2> HIDE DEF k
    <2>2. k * Interval \in Int /\ (k - 1) * Interval = k * Interval - Interval
      BY <2>1, Multiples
    <2> QED
      BY <2>1, <2>2
  <1>2. /\ w \in Seq(Nat) /\ DOMAIN w = 1 .. Confirmations /\ Confirmations \in Nat \ {0}
        /\ \A i \in 1 .. Confirmations : w[i] = m - Confirmations + i
    BY Constants, LenProperties DEF WindowOf
  <1>3. w = Confirmation(id)
    <2>1. Confirmation(id) = [i \in 1 .. Confirmations |-> m - Confirmations + i]
      BY DEF Confirmation
    <2>2. w = [i \in DOMAIN w |-> w[i]]
      BY <1>2
    <2> QED
      BY <1>2, <2>1, <2>2
  <1>4. Range(channel) = Channel(id)
    BY ChannelRange
  <1>5. Confirmation(id)[1] > k * Interval
    <2> SUFFICES ASSUME ~(w[1] > k * Interval)
                 PROVE  FALSE
      BY <1>3
    <2>1. m - Confirmations + 1 <= k * Interval /\ k * Interval < m
      BY <1>1, <1>2
    <2> DEFINE i == k * Interval - m + Confirmations
    <2>2. i \in 1 .. Confirmations /\ w[i] = k * Interval
      BY <1>1, <1>2, <2>1
    <2>3. Close(k * Interval) > Upper(Range(channel))
      BY <1>2, <2>2 DEF Triggered
    <2>4. Channel(id) = {k - j : j \in 0 .. Lookback - 1} /\ Lookback \in Nat \ {0}
      BY Constants DEF Channel
    <2>5. Channel(id) \in SUBSET Int /\ k \in Channel(id)
      BY <1>1, <2>4
    <2>6. \A j \in Channel(id) : j * Interval <= Now
      <3> SUFFICES ASSUME NEW j \in Channel(id)
                   PROVE  j * Interval <= Now
        OBVIOUS
      <3>1. j \in Int /\ j <= k
        BY <1>1, <2>4
      <3>2. j * Interval <= k * Interval /\ j * Interval \in Int
        BY <1>1, <3>1, Multiples
      <3> QED
        BY <1>1, <3>2
    <2>7. Upper(Channel(id)) \in Nat /\ High(k) <= Upper(Channel(id))
      BY <2>5, <2>6, UpperForm
    <2>8. /\ High(k) \in Nat
          /\ \A j \in (k - 1) * Interval + 1 .. k * Interval : Close(j) <= High(k)
      BY <1>1, HighForm
    <2>9. k * Interval \in (k - 1) * Interval + 1 .. k * Interval
      BY <1>1, Constants
    <2>10. Close(k * Interval) <= High(k) /\ Close(k * Interval) \in Nat
      BY <1>1, <2>8, <2>9, CloseForm
    <2> QED
      BY <1>4, <2>3, <2>7, <2>8, <2>10
  <1>6. Triggered(Channel(id), Confirmation(id))
    BY <1>3, <1>4
  <1> QED
    BY <1>1, <1>5, <1>6 DEF Signal, Ids

LEMMA SignalStep ==
  ASSUME Inv, Next
  PROVE  SignalInv'
  <1>1. Later \/ UNCHANGED closes
    BY ClockStep
  <1>2. \A id \in DOMAIN tasks \cup DOMAIN action : Signal(id)'
    BY <1>1, SignalStays DEF Inv, SignalInv
  <1>3. ASSUME DOMAIN tasks' \subseteq DOMAIN tasks \cup DOMAIN action,
               DOMAIN action' \subseteq DOMAIN tasks \cup DOMAIN action
        PROVE  SignalInv'
    BY <1>2, <1>3 DEF SignalInv
  <1>4. ASSUME NEW quote \in Quotes, SourceBar(quote)
        PROVE  SignalInv'
    <2>1. UNCHANGED action /\ UNCHANGED channel /\ UNCHANGED closes
      BY <1>4 DEF SourceBar, records, world
    <2>2. CASE UNCHANGED tasks
      BY <1>3, <2>1, <2>2
    <2> DEFINE m == Head(wire.source)
               id == <<Last(channel), m>>
    <2>3. CASE m > source /\ AcceptSource(m, quote) /\ ~UNCHANGED tasks
      <3>1. /\ Decidable(m, Confirming(m)) /\ Triggered(Range(channel), Confirming(m))
            /\ Propose(id)
        BY <2>3 DEF AcceptSource
      <3>2. m \in Nat /\ m <= Now
        BY <1>4, SourceForm
      <3>3. ChannelOf(channel, Now) /\ WindowOf(window, source, Now) /\ Now \in Nat
        BY EvaluatorForm
      <3>4. Triggered(Range(channel), Confirming(m))
        BY <3>1
      <3>5. WindowOf(Confirming(m), m, Now)
        BY <2>3, <3>2, <3>3, WindowForm
      <3>6. Len(Confirming(m)) = Confirmations /\ m > Last(channel) * Interval
        BY <3>1 DEF Decidable
      <3>7. TypeOK /\ MarketInv
        BY DEF Inv
      <3>8. Signal(id)
        BY <3>2, <3>3, <3>4, <3>5, <3>6, <3>7, ProposalForm
      <3>9. PICK x : x = id
        OBVIOUS
      <3>10. DOMAIN tasks' \subseteq DOMAIN tasks \cup {x}
        BY <3>1, <3>9 DEF Propose, With
      <3> HIDE DEF id
      <3>11. Signal(x)'
        BY <1>1, <3>7, <3>8, <3>9, SignalStays
      <3> QED
        BY <1>2, <2>1, <3>10, <3>11 DEF SignalInv
    <2> QED
      BY <1>4, <2>2, <2>3, SourceForm
  <1>5. ASSUME NEW id \in DOMAIN tasks, TaskStep(id) \/ TaskFails(id)
        PROVE  /\ DOMAIN tasks' \subseteq DOMAIN tasks
               /\ DOMAIN action' \subseteq DOMAIN tasks \cup DOMAIN action
    <2>1. DOMAIN Without(tasks, id) \subseteq DOMAIN tasks
      BY DEF Without, Restrict
    <2>2. CASE Decide(id)
      BY <1>5, <2>1, <2>2 DEF Decide, Ready, With
    <2>3. CASE ~Decide(id)
      BY <1>5, <2>1, <2>3 DEF TaskStep, TaskFails, RefuseFacts, RefuseRefreshed, Call, CallNot, records
    <2> QED
      BY <2>2, <2>3
  <1>6. CASE \E id \in DOMAIN tasks : TaskStep(id) \/ TaskFails(id)
    BY <1>3, <1>5, <1>6
  <1>7. ASSUME NEW id \in DOMAIN action, Fill(id) \/ NoFill(id)
        PROVE  DOMAIN tasks' = DOMAIN tasks /\ DOMAIN action' = DOMAIN action
    BY <1>7 DEF Fill, NoFill
  <1>8. CASE \E id \in DOMAIN action : Fill(id) \/ NoFill(id)
    BY <1>3, <1>7, <1>8
  <1>9. CASE TakeOver
    BY <1>3, <1>9 DEF TakeOver
  <1>10. CASE Down
    <2>1. tasks' = <<>> /\ action' = action
      BY <1>10 DEF Down, records
    <2>2. DOMAIN tasks' = {}
      BY <2>1
    <2> QED
      BY <1>3, <2>1, <2>2
  <1>11. CASE UNCHANGED <<tasks, action>>
    BY <1>3, <1>11
  <1> QED
    BY <1>4, <1>6, <1>8, <1>9, <1>10, <1>11
    DEF Next, Minute, Disconnect, Reconnect, Start, HistoryComplete, HistoryRefused, TargetBar,
        Resume, StopOrRelease, records

(***************************************************************************)
(* The decisions.                                                          *)
(***************************************************************************)

Alive == {"READY", "CALLED", "HANDED_OVER"}

\* A step after which no other entry is pending than before.
NoneBegins ==
  /\ DOMAIN action' = DOMAIN action
  /\ \A x \in DOMAIN action : \/ action'[x] = action[x]
                              \/ action'[x] \notin Alive
                              \/ action[x] \in Alive /\ (action'[x] = "HANDED_OVER" => lifecycle' # "RUNNING")
  /\ lifecycle' = lifecycle \/ lifecycle' # "RUNNING"
  /\ filled' \subseteq Pending

LEMMA NoneBeginsStep ==
  ASSUME DecisionInv, NoneBegins, filled' # {} => consumed',
         \A id \in DOMAIN events' : events'[id] = "ACCEPTED" => id \in DOMAIN action
  PROVE  DecisionInv'
  <1>1. /\ DOMAIN action' = DOMAIN action
        /\ \A x \in DOMAIN action : \/ action'[x] = action[x]
                                    \/ action'[x] \notin Alive
                                    \/ action[x] \in Alive /\ (action'[x] = "HANDED_OVER" => lifecycle' # "RUNNING")
        /\ lifecycle' = lifecycle \/ lifecycle' # "RUNNING"
        /\ filled' \subseteq Pending
    BY DEF NoneBegins
  <1>2. /\ \A id \in DOMAIN action : action[id] = "HANDED_OVER" => lifecycle # "RUNNING"
        /\ \A a, b \in Pending : a = b
    BY DEF DecisionInv
  <1>3. \A id \in DOMAIN action' : action'[id] = "HANDED_OVER" => lifecycle' # "RUNNING"
    BY <1>1, <1>2 DEF Alive
  <1>4. Pending' \subseteq Pending
    <2>1. ASSUME NEW x \in DOMAIN action', action'[x] \in Alive
          PROVE  x \in DOMAIN action /\ action[x] \in Alive
      BY <1>1, <2>1
    <2>2. Pending = {x \in DOMAIN action : action[x] \in Alive} \cup filled
      BY DEF Pending, Alive
    <2>3. Pending' = {x \in DOMAIN action' : action'[x] \in Alive} \cup filled'
      BY DEF Pending, Alive
    <2> QED
      BY <1>1, <2>1, <2>2, <2>3
  <1>5. \A a, b \in Pending' : a = b
    BY <1>2, <1>4
  <1>6. \A id \in DOMAIN events' : events'[id] = "ACCEPTED" => id \in DOMAIN action'
    BY <1>1
  <1> QED
    BY <1>3, <1>5, <1>6, Zenon DEF DecisionInv

LEMMA DecideStep ==
  ASSUME Inv, NEW id, Decide(id)
  PROVE  DecisionInv'
  <1>1. /\ \A x \in DOMAIN action : action[x] = "HANDED_OVER" => lifecycle # "RUNNING"
        /\ \A a, b \in Pending : a = b
        /\ filled # {} => consumed
        /\ \A x \in DOMAIN events : events[x] = "ACCEPTED" => x \in DOMAIN action
    BY DEF Inv, DecisionInv
  <1>2. /\ events' = IF id \in DOMAIN events THEN events ELSE With(events, id, Verdict)
        /\ action' = Ready(id, events'[id])
        /\ UNCHANGED <<lifecycle, filled>> /\ UNCHANGED consumed
    BY DEF Decide, plan
  <1>3. filled' # {} => consumed'
    BY <1>1, <1>2, Zenon
  <1>4. CASE UNCHANGED action /\ \A x \in DOMAIN events' : events'[x] = "ACCEPTED" => x \in DOMAIN action
    <2>1. NoneBegins
      BY <1>2, <1>4 DEF NoneBegins, Pending
    <2> QED
      BY <1>3, <1>4, <2>1, NoneBeginsStep DEF Inv
  <1>5. CASE id \in DOMAIN events
    <2>1. UNCHANGED action /\ events' = events
      BY <1>1, <1>2, <1>5 DEF Ready
    <2> QED
      BY <1>1, <1>4, <2>1
  <1>6. CASE id \notin DOMAIN events
    <2>1. /\ DOMAIN events' = DOMAIN events \cup {id}
          /\ events'[id] = Verdict
          /\ \A x \in DOMAIN events : events'[x] = events[x]
      BY <1>2, <1>6 DEF With
    <2>2. CASE Verdict # "ACCEPTED" \/ id \in DOMAIN action
      <3>1. UNCHANGED action
        BY <1>2, <2>1, <2>2 DEF Ready
      <3>2. \A x \in DOMAIN events' : events'[x] = "ACCEPTED" => x \in DOMAIN action
        BY <1>1, <2>1, <2>2
      <3> QED
        BY <1>4, <3>1, <3>2
    <2>3. CASE Verdict = "ACCEPTED" /\ id \notin DOMAIN action
      <3>1. ~Blocks
        BY <2>3 DEF Verdict
      <3>2. lifecycle = "RUNNING" /\ Open = {}
        BY <3>1 DEF Blocks
      <3>3. filled = {}
        BY <1>1, <3>1, Zenon DEF Blocks
      <3>4. \A x \in DOMAIN action : action[x] \notin Alive
        BY <1>1, <3>2 DEF Open, Alive
      <3>5. action' = With(action, id, "READY")
        BY <1>2, <2>1, <2>3 DEF Ready
      <3>6. /\ DOMAIN action' = DOMAIN action \cup {id}
            /\ action'[id] = "READY"
            /\ \A x \in DOMAIN action : action'[x] = action[x]
        BY <2>3, <3>5 DEF With
      <3>7. Pending' = {x \in DOMAIN action' : action'[x] \in Alive} \cup filled'
        BY DEF Pending, Alive
      <3>8. \A a, b \in Pending' : a = b
        BY <1>2, <3>3, <3>4, <3>6, <3>7
      <3>9. \A x \in DOMAIN action' : action'[x] = "HANDED_OVER" => lifecycle' # "RUNNING"
        BY <3>4, <3>6 DEF Alive
      <3>10. \A x \in DOMAIN events' : events'[x] = "ACCEPTED" => x \in DOMAIN action'
        BY <1>1, <2>1, <3>6
      <3> QED
        BY <1>3, <3>8, <3>9, <3>10, Zenon DEF DecisionInv
    <2> QED
      BY <2>2, <2>3
  <1> QED
    BY <1>5, <1>6

LEMMA FillStep ==
  ASSUME Inv, NEW id \in DOMAIN action, Fill(id)
  PROVE  DecisionInv'
  <1>1. \A x \in DOMAIN events : events[x] = "ACCEPTED" => x \in DOMAIN action
    BY DEF Inv, DecisionInv
  <1>2. /\ action[id] \in {"CALLED", "HANDED_OVER"} /\ filled' = filled \cup {id}
        /\ action' = [action EXCEPT ![id] = IF @ = "CALLED" THEN "CLOSED" ELSE @]
        /\ UNCHANGED <<lifecycle, events>>
    BY DEF Fill
  <1>3. id \in Pending /\ filled \subseteq Pending
    BY <1>2 DEF Pending
  <1>4. \A x \in DOMAIN action : action'[x] = action[x] \/ action'[x] = "CLOSED"
    BY <1>2
  <1>5. NoneBegins
    BY <1>2, <1>3, <1>4 DEF NoneBegins, Alive
  <1>6. consumed'
    BY DEF Fill
  <1> QED
    BY <1>1, <1>2, <1>5, <1>6, NoneBeginsStep DEF Inv

LEMMA DecisionStep ==
  ASSUME Inv, Next
  PROVE  DecisionInv'
  <1>1. /\ \A x \in DOMAIN action : action[x] = "HANDED_OVER" => lifecycle # "RUNNING"
        /\ filled # {} => consumed
        /\ \A x \in DOMAIN events : events[x] = "ACCEPTED" => x \in DOMAIN action
        /\ filled \subseteq Pending
    BY DEF Inv, DecisionInv, Pending
  <1>2. ASSUME NoneBegins, UNCHANGED <<filled, events>>, UNCHANGED consumed
        PROVE  DecisionInv'
    <2>1. filled' # {} => consumed'
      BY <1>1, <1>2, Zenon
    <2> QED
      BY <1>1, <1>2, <2>1, NoneBeginsStep DEF Inv
  <1>3. CASE UNCHANGED <<lifecycle, action, filled, events>> /\ UNCHANGED consumed
    <2>1. NoneBegins
      BY <1>1, <1>3 DEF NoneBegins
    <2> QED
      BY <1>2, <1>3, <2>1
  <1>4. ASSUME NEW id \in DOMAIN tasks, TaskStep(id) \/ TaskFails(id)
        PROVE  DecisionInv'
    <2>1. CASE RefuseFacts(id)
      <3>1. /\ UNCHANGED <<lifecycle, action, filled>> /\ UNCHANGED consumed
            /\ events' = Unfit(id)
        BY <2>1 DEF RefuseFacts, plan
      <3>2. \A x \in DOMAIN events' : events'[x] = "ACCEPTED" => x \in DOMAIN action
        BY <1>1, <3>1 DEF Unfit, With
      <3>3. NoneBegins
        BY <1>1, <3>1 DEF NoneBegins
      <3>4. filled' # {} => consumed'
        BY <1>1, <3>1, Zenon
      <3> QED
        BY <3>2, <3>3, <3>4, NoneBeginsStep DEF Inv
    <2>2. CASE Decide(id)
      BY <2>2, DecideStep
    <2>3. CASE RefuseRefreshed(id)
      <3>1. /\ UNCHANGED <<lifecycle, filled, events>> /\ UNCHANGED consumed
            /\ action' = [action EXCEPT ![id] = IF @ = "READY" THEN "NOT_SUBMITTED" ELSE @]
        BY <2>3 DEF RefuseRefreshed, plan
      <3>2. NoneBegins
        BY <1>1, <3>1 DEF NoneBegins, Alive
      <3> QED
        BY <1>2, <3>1, <3>2
    <2>4. CASE Call(id)
      <3>1. /\ UNCHANGED <<lifecycle, filled, events>> /\ UNCHANGED consumed
            /\ action[id] = "READY" /\ action' = [action EXCEPT ![id] = "CALLED"]
        BY <2>4 DEF Call, plan
      <3>2. NoneBegins
        BY <1>1, <3>1 DEF NoneBegins, Alive
      <3> QED
        BY <1>2, <3>1, <3>2
    <2>5. CASE CallNot(id)
      <3>1. /\ UNCHANGED <<lifecycle, filled, events>> /\ UNCHANGED consumed
            /\ action' = [action EXCEPT ![id] = "NOT_SUBMITTED"] \/ UNCHANGED action
        BY <2>5 DEF CallNot, plan
      <3>2. NoneBegins
        BY <1>1, <3>1 DEF NoneBegins, Alive
      <3> QED
        BY <1>2, <3>1, <3>2
    <2>6. CASE TaskFails(id)
      BY <1>3, <2>6 DEF TaskFails, plan, records
    <2> QED
      BY <1>4, <2>1, <2>2, <2>3, <2>4, <2>5, <2>6 DEF TaskStep
  <1>5. ASSUME NEW id \in DOMAIN action, Fill(id) \/ NoFill(id)
        PROVE  DecisionInv'
    <2>1. CASE Fill(id)
      BY <2>1, FillStep
    <2>2. CASE NoFill(id)
      <3>1. /\ UNCHANGED <<lifecycle, filled, events>> /\ UNCHANGED consumed
            /\ action' = [action EXCEPT ![id] = "CLOSED"]
        BY <2>2 DEF NoFill, plan
      <3>2. NoneBegins
        BY <1>1, <3>1 DEF NoneBegins, Alive
      <3> QED
        BY <1>2, <3>1, <3>2
    <2> QED
      BY <1>5, <2>1, <2>2
  <1>6. CASE TakeOver
    <2>1. /\ UNCHANGED <<filled, events>> /\ UNCHANGED consumed /\ lifecycle' = "USER_TAKEOVER"
          /\ \E open \in SUBSET called :
               action' = [id \in DOMAIN action |->
                            IF id \in Open \ open THEN "HANDED_OVER" ELSE action[id]]
      BY <1>6 DEF TakeOver
    <2>2. NoneBegins
      <3>1. PICK open \in SUBSET called :
               action' = [id \in DOMAIN action |->
                            IF id \in Open \ open THEN "HANDED_OVER" ELSE action[id]]
        BY <2>1
      <3>2. \A x \in DOMAIN action : action'[x] = action[x] \/ action[x] \in Alive
        BY <3>1 DEF Open, Alive
      <3> QED
        BY <1>1, <2>1, <3>1, <3>2 DEF NoneBegins
    <2> QED
      BY <1>2, <2>1, <2>2
  <1>7. CASE \E id \in DOMAIN tasks : TaskStep(id) \/ TaskFails(id)
    BY <1>4, <1>7
  <1>8. CASE \E id \in DOMAIN action : Fill(id) \/ NoFill(id)
    BY <1>5, <1>8
  <1> QED
    BY <1>3, <1>6, <1>7, <1>8
    DEF Next, Minute, Disconnect, Reconnect, Start, HistoryComplete, HistoryRefused, TargetBar, SourceBar,
        Resume, StopOrRelease, Down, plan, records

(***************************************************************************)
(* The theorems.                                                           *)
(***************************************************************************)

LEMMA InitInv == Init => Inv
  <1> SUFFICES ASSUME Init
               PROVE  Inv
    OBVIOUS
  <1>1. /\ closes = <<>> /\ wire = [source |-> <<>>, target |-> <<>>] /\ asked = 0
        /\ channel = Ending(0) /\ source = 0 /\ window = <<>>
        /\ tasks = <<>> /\ events = <<>> /\ action = <<>> /\ filled = {}
    BY DEF Init
  <1>2. Now = 0 /\ 0 * Interval = 0
    BY <1>1, Constants, EmptySeq DEF Now
  <1>3. <<>> \in Seq(Nat) /\ \A S : <<>> \in Seq(S)
    BY EmptySeq
  <1>4. ChannelOf(channel, 0)
    BY <1>1, <1>2, EndingForm
  <1>5. TypeOK
    BY <1>1, <1>3, <1>4 DEF TypeOK, ChannelOf
  <1>6. MarketInv
    BY <1>1, <1>2, <1>3 DEF MarketInv
  <1>7. EvaluatorInv
    <2>1. Len(window) = 0
      BY <1>1, EmptySeq
    <2> QED
      BY <1>1, <1>2, <1>4, <2>1, Constants DEF EvaluatorInv, ChannelOf
  <1>8. DOMAIN tasks = {} /\ DOMAIN action = {} /\ DOMAIN events = {}
    BY <1>1
  <1>9. SignalInv /\ DecisionInv
    BY <1>1, <1>8 DEF SignalInv, DecisionInv, Pending
  <1> QED
    BY <1>5, <1>6, <1>7, <1>9 DEF Inv

LEMMA Step == Inv /\ [Next]_vars => Inv'
  <1> SUFFICES ASSUME Inv, [Next]_vars
               PROVE  Inv'
    OBVIOUS
  <1>1. CASE Next
    <2>1. ChannelOf(channel', Now') /\ WindowOf(window', source', Now')
      BY <1>1, ChannelStep, WindowStep
    <2>2. closes' \in Seq(Nat) /\ \E b \in Nat : \A m \in 1 .. Now' : closes'[m] <= b
      BY <1>1, ClockStep
    <2>3. asked' \in Nat /\ asked' * Interval <= Now'
      BY <1>1, AskedStep
    <2>4. WireInv'
      BY <1>1, WireStep
    <2>5. TypeOK'
      BY <2>1, <2>2, <2>3, <2>4 DEF TypeOK, ChannelOf, WindowOf, WireInv
    <2>6. MarketInv'
      BY <2>2, <2>3, <2>4 DEF MarketInv, WireInv, Sent, Closed
    <2>7. EvaluatorInv'
      BY <2>1 DEF EvaluatorInv, ChannelOf, WindowOf
    <2>8. SignalInv' /\ DecisionInv'
      BY <1>1, SignalStep, DecisionStep
    <2> QED
      BY <2>5, <2>6, <2>7, <2>8 DEF Inv
  <1>2. CASE UNCHANGED vars
    <2>1. UNCHANGED <<closes, wire, asked, channel, source, window, tasks, events, action, filled>>
      BY <1>2 DEF vars, world, evaluator, records
    <2>2. UNCHANGED lifecycle /\ UNCHANGED consumed
      BY <1>2 DEF vars, plan
    <2>3. TypeOK' /\ MarketInv'
      <3>1. Now' = Now
        BY <2>1 DEF Now
      <3> QED
        BY <2>1, <3>1 DEF Inv, TypeOK, MarketInv
    <2>4. EvaluatorInv'
      <3>1. Now' = Now /\ Last(channel)' = Last(channel)
        BY <2>1 DEF Now
      <3> QED
        BY <2>1, <3>1 DEF Inv, EvaluatorInv
    <2>5. SignalInv'
      BY <2>1, SignalStays DEF Inv, SignalInv
    <2>6. DecisionInv'
      BY <2>1, <2>2 DEF Inv, DecisionInv, Pending
    <2> QED
      BY <2>3, <2>4, <2>5, <2>6 DEF Inv
  <1> QED
    BY <1>1, <1>2

\* The invariant holds of every state.
THEOREM Invariance == Spec => []Inv
  BY InitInv, Step, PTL DEF Spec

\* At most one entry is open and at most one ever trades, however many
\* proposals wait at once and whatever ends the process.
THEOREM OneEntryOnly == Spec => []OneEntry
  <1>1. Inv => OneEntry
    <2> SUFFICES ASSUME Inv
                 PROVE  OneEntry
      OBVIOUS
    <2>1. \A a, b \in Pending : a = b
      BY DEF Inv, DecisionInv
    <2>2. ASSUME NEW S \in SUBSET Pending
          PROVE  Cardinality(S) <= 1
      <3>1. CASE S = {}
        BY <3>1, FS_EmptySet
      <3>2. CASE S # {}
        <4>1. PICK x \in S : TRUE
          BY <3>2
        <4>2. S = {x}
          BY <2>1, <4>1
        <4> QED
          BY <4>2, FS_Singleton
      <3> QED
        BY <3>1, <3>2
    <2>3. Open \subseteq Pending /\ filled \subseteq Pending
      BY DEF Open, Pending
    <2> QED
      BY <2>2, <2>3 DEF OneEntry
  <1> QED
    BY <1>1, Invariance, PTL

\* Every accepted entry rests on a channel and a confirmation that the venue's
\* bars really form, however many bars were lost or repeated.
THEOREM SignalsAreTrue == Spec => []SignalIsTrue
  <1>1. Inv => SignalIsTrue
    BY DEF Inv, SignalInv, Signal, Channel, Confirmation, SignalIsTrue
  <1> QED
    BY <1>1, Invariance, PTL

-----------------------------------------------------------------------------
(***************************************************************************)
(* The owner's chart of the same market.  Its proof stands here, beside    *)
(* the lemmas on sequences of bars.  The instance renames what is taken    *)
(* above.                                                                  *)
(*                                                                         *)
(* While no renewal is on its way the bars are whole: no bar in transit,   *)
(* on the socket or behind it in the queue, is more than one ahead of the  *)
(* chart without the bar before it being in front of it, and while the     *)
(* market route is up the last bar that closed has been sent.  Whatever    *)
(* breaks this begins a renewal, and a renewal ends only with a window     *)
(* that was just read.                                                     *)
(***************************************************************************)

CONSTANTS LastBar, Capacity, Buffer, MaxBreaks
VARIABLES now, route, notice, clients, live, server, queue, over, boundary, socket, cable, page,
          chart, breaks

Feed == INSTANCE MarketFeed WITH
  Horizon <- LastBar, Backlog <- Buffer, MaxFaults <- MaxBreaks, wire <- cable, faults <- breaks

\* The types of what is sent and of what the page and its chart keep.
States == {"", "CONNECTING", "LIVE", "RECONNECTING", "FAILED"}
Events == [kind : {"quote", "bar", "status"}, state : States, at : Nat]
Pages  == [status : States \cup {"STALE"}, awaiting : BOOLEAN, pending : BOOLEAN, bar : Int,
           seen : {"NONE", "FRESH", "OLD"}, timer : BOOLEAN]
Charts == [due : BOOLEAN, loading : BOOLEAN, top : Int, hole : BOOLEAN, failed : BOOLEAN]

\* Sequences of events.
LEMMA SeqForm ==
  ASSUME NEW s \in Seq(Events)
  PROVE  /\ Len(s) \in Nat /\ DOMAIN s = 1..Len(s)
         /\ \A i \in DOMAIN s : /\ s[i] \in Events
                              /\ s[i].at \in Nat /\ s[i].state \in States
  <1>1. /\ Len(s) \in Nat /\ DOMAIN s = 1..Len(s)
        /\ \A i \in DOMAIN s : s[i] \in Events
    OBVIOUS
  <1>2. \A e \in Events : e.at \in Nat /\ e.state \in States
    BY DEF Events
  <1> QED
    BY <1>1, <1>2

\* An event is appended.
LEMMA AppendForm ==
  ASSUME NEW s \in Seq(Events), NEW e \in Events
  PROVE  /\ Append(s, e) \in Seq(Events)
         /\ DOMAIN Append(s, e) = 1..(Len(s) + 1)
         /\ \A i \in 1..Len(s) : Append(s, e)[i] = s[i]
         /\ Append(s, e)[Len(s) + 1] = e
  BY AppendProperties

\* The first event is taken.
LEMMA TailForm ==
  ASSUME NEW s \in Seq(Events), s # <<>>
  PROVE  /\ Tail(s) \in Seq(Events) /\ Head(s) \in Events /\ Head(s) = s[1] /\ 1 \in DOMAIN s
         /\ DOMAIN Tail(s) = 1..(Len(s) - 1)
         /\ \A i \in 1..(Len(s) - 1) : Tail(s)[i] = s[i + 1]
  BY HeadTailProperties, EmptySeq

\* Two sequences of events, one behind the other.
LEMMA ConcatForm ==
  ASSUME NEW s \in Seq(Events), NEW t \in Seq(Events)
  PROVE  /\ s \o t \in Seq(Events)
         /\ DOMAIN (s \o t) = 1..(Len(s) + Len(t))
         /\ \A i \in 1..Len(s) : (s \o t)[i] = s[i]
         /\ \A i \in 1..Len(t) : (s \o t)[Len(s) + i] = t[i]
  BY ConcatProperties

\* What is sent is an event.
LEMMA EventForm ==
  /\ now \in Nat => Feed!Quote \in Events /\ Feed!Bar \in Events
  /\ \A s \in States : Feed!Status(s) \in Events
  BY DEF Events, States, Feed!Quote, Feed!Bar, Feed!Status

-----------------------------------------------------------------------------
(* The bars in transit: w on the socket, q behind them in the queue. *)

BarAt(s, j, n) == s[j].kind = "bar" /\ s[j].at = n

\* Every bar that is more than one ahead of bar b follows the bar before it.
Preceded(w, q, b) ==
  /\ \A i \in DOMAIN w : w[i].kind = "bar" /\ w[i].at > b + 1 =>
       \E j \in DOMAIN w : j < i /\ BarAt(w, j, w[i].at - 1)
  /\ \A i \in DOMAIN q : q[i].kind = "bar" /\ q[i].at > b + 1 =>
       \/ \E j \in DOMAIN w : BarAt(w, j, q[i].at - 1)
       \/ \E j \in DOMAIN q : j < i /\ BarAt(q, j, q[i].at - 1)

\* Bar n, or a later one, has been sent: b stands for the chart's.
Reached(w, q, b, n) ==
  \/ b >= n
  \/ \E j \in DOMAIN w : w[j].kind = "bar" /\ w[j].at >= n
  \/ \E j \in DOMAIN q : q[j].kind = "bar" /\ q[j].at >= n

\* No bar of s is ahead of bar n.
Within(s, n) == \A i \in DOMAIN s : s[i].kind = "bar" => s[i].at <= n

Notice == Feed!Status("RECONNECTING")

Told(w, q) ==
  (\E j \in DOMAIN w : w[j] = Notice) \/ (\E j \in DOMAIN q : q[j] = Notice)

\* The head of the queue moves to the end of the wire.
LEMMA Forwarded ==
  ASSUME NEW w \in Seq(Events), NEW q \in Seq(Events), q # <<>>, NEW b \in Int, NEW n \in Int
  PROVE  /\ Preceded(w, q, b) => Preceded(Append(w, Head(q)), Tail(q), b)
         /\ Reached(w, q, b, n) => Reached(Append(w, Head(q)), Tail(q), b, n)
         /\ Within(w, n) /\ Within(q, n) => Within(Append(w, Head(q)), n) /\ Within(Tail(q), n)
         /\ Told(w, q) <=> Told(Append(w, Head(q)), Tail(q))
  <1>1. PICK v \in Seq(Events) : v = Append(w, Head(q))
    BY TailForm, AppendForm
  <1>2. PICK r \in Seq(Events) : r = Tail(q)
    BY TailForm
  <1>3. /\ Len(w) \in Nat /\ DOMAIN w = 1..Len(w) /\ Len(q) \in Nat /\ DOMAIN q = 1..Len(q)
        /\ 1 \in DOMAIN q
    BY SeqForm, TailForm
  <1>4. /\ DOMAIN v = 1..(Len(w) + 1) /\ v[Len(w) + 1] = q[1]
        /\ \A i \in DOMAIN w : i \in DOMAIN v /\ v[i] = w[i]
    BY <1>1, <1>3, TailForm, AppendForm
  <1>5. \A i \in DOMAIN r : i + 1 \in DOMAIN q /\ i \in Nat /\ r[i] = q[i + 1]
    BY <1>2, <1>3, TailForm
  <1>6. \A i \in DOMAIN q : i = 1 \/ (i - 1 \in DOMAIN r /\ r[i - 1] = q[i])
    <2>1. DOMAIN r = 1..(Len(q) - 1)
      BY <1>2, TailForm
    <2>2. \A i \in DOMAIN q : i = 1 \/ (i - 1 \in DOMAIN r /\ (i - 1) + 1 = i)
      BY <1>3, <2>1
    <2> QED
      BY <1>5, <2>2
  <1>7. \A i \in DOMAIN v : i = Len(w) + 1 \/ i \in DOMAIN w
    BY <1>3, <1>4
  <1>8. Len(w) + 1 \in DOMAIN v
    BY <1>3, <1>4
  <1>9. \A j \in DOMAIN w : j < Len(w) + 1
    BY <1>3
  <1>10. Told(w, q) <=> Told(v, r)
    <2>1. ASSUME NEW j \in DOMAIN w, w[j] = Notice PROVE Told(v, r)
      BY <1>4, <2>1 DEF Told
    <2>2. ASSUME NEW j \in DOMAIN q, q[j] = Notice PROVE Told(v, r)
      <3>1. CASE j = 1
        BY <1>4, <1>8, <2>2, <3>1 DEF Told
      <3>2. CASE j # 1
        BY <1>6, <2>2, <3>2 DEF Told
      <3> QED
        BY <3>1, <3>2
    <2>3. ASSUME NEW j \in DOMAIN v, v[j] = Notice PROVE Told(w, q)
      <3>1. CASE j = Len(w) + 1
        BY <1>3, <1>4, <2>3, <3>1 DEF Told
      <3>2. CASE j \in DOMAIN w
        BY <1>4, <2>3, <3>2 DEF Told
      <3> QED
        BY <1>7, <2>3, <3>1, <3>2
    <2>4. ASSUME NEW j \in DOMAIN r, r[j] = Notice PROVE Told(w, q)
      BY <1>5, <2>4 DEF Told
    <2> QED
      BY <2>1, <2>2, <2>3, <2>4 DEF Told
  <1>11. Within(w, n) /\ Within(q, n) => Within(v, n) /\ Within(r, n)
    BY <1>3, <1>4, <1>5, <1>7 DEF Within
  <1>12. Reached(w, q, b, n) => Reached(v, r, b, n)
    BY <1>4, <1>6, <1>8 DEF Reached
  <1>13. ASSUME Preceded(w, q, b)
         PROVE  Preceded(v, r, b)
    <2>1. ASSUME NEW i \in DOMAIN v, v[i].kind = "bar", v[i].at > b + 1
          PROVE  \E j \in DOMAIN v : j < i /\ BarAt(v, j, v[i].at - 1)
      <3>1. CASE i \in DOMAIN w
        <4>1. PICK j \in DOMAIN w : j < i /\ BarAt(w, j, w[i].at - 1)
          BY <1>4, <1>13, <2>1, <3>1 DEF Preceded
        <4> QED
          BY <1>4, <3>1, <4>1 DEF BarAt
      <3>2. CASE i = Len(w) + 1
        <4>1. ~ \E j \in DOMAIN q : j < 1
          BY <1>3
        <4>2. PICK j \in DOMAIN w : BarAt(w, j, q[1].at - 1)
          BY <1>3, <1>4, <1>13, <2>1, <3>2, <4>1 DEF Preceded
        <4> QED
          BY <1>4, <1>9, <3>2, <4>2 DEF BarAt
      <3> QED
        BY <1>7, <3>1, <3>2
    <2>2. ASSUME NEW i \in DOMAIN r, r[i].kind = "bar", r[i].at > b + 1
          PROVE  \/ \E j \in DOMAIN v : BarAt(v, j, r[i].at - 1)
                 \/ \E j \in DOMAIN r : j < i /\ BarAt(r, j, r[i].at - 1)
      <3>1. i + 1 \in DOMAIN q /\ r[i] = q[i + 1] /\ i \in Nat
        BY <1>5
      <3>2. CASE \E j \in DOMAIN w : BarAt(w, j, q[i + 1].at - 1)
        BY <1>4, <3>1, <3>2 DEF BarAt
      <3>3. CASE \E j \in DOMAIN q : j < i + 1 /\ BarAt(q, j, q[i + 1].at - 1)
        <4>1. PICK j \in DOMAIN q : j < i + 1 /\ BarAt(q, j, q[i + 1].at - 1)
          BY <3>3
        <4>2. CASE j = 1
          BY <1>4, <1>8, <3>1, <4>1, <4>2 DEF BarAt
        <4>3. CASE j # 1
          <5>1. j - 1 \in DOMAIN r /\ r[j - 1] = q[j]
            BY <1>6, <4>3
          <5>2. j - 1 < i
            BY <1>3, <3>1, <4>1
          <5> QED
            BY <3>1, <4>1, <5>1, <5>2 DEF BarAt
        <4> QED
          BY <4>2, <4>3
      <3> QED
        BY <1>13, <2>2, <3>1, <3>2, <3>3 DEF Preceded
    <2> QED
      BY <2>1, <2>2 DEF Preceded
  <1> QED
    BY <1>1, <1>2, <1>10, <1>11, <1>12, <1>13

\* An event comes to the end of the queue: if a bar, then of the present, with the
\* one before it sent.
LEMMA Queued ==
  ASSUME NEW w \in Seq(Events), NEW q \in Seq(Events), NEW e \in Events, NEW b \in Int, NEW n \in Int
  PROVE  /\ /\ Preceded(w, q, b)
            /\ Within(w, n) /\ Within(q, n)
            /\ e.kind = "bar" => e.at = n /\ Reached(w, q, b, n - 1)
            => Preceded(w, Append(q, e), b)
         /\ \A k \in Int : Reached(w, q, b, k) => Reached(w, Append(q, e), b, k)
         /\ e.kind = "bar" => Reached(w, Append(q, e), b, e.at)
         /\ Within(q, n) /\ (e.kind = "bar" => e.at <= n) => Within(Append(q, e), n)
         /\ Told(w, q) \/ e = Notice <=> Told(w, Append(q, e))
  <1>1. PICK r \in Seq(Events) : r = Append(q, e)
    BY AppendForm
  <1>2. Len(q) \in Nat /\ DOMAIN q = 1..Len(q) /\ e.at \in Nat
    BY SeqForm DEF Events
  <1>3. PICK l \in Nat : l = Len(q) + 1
    BY <1>2
  <1>4. /\ l \in DOMAIN r /\ r[l] = e
        /\ \A i \in DOMAIN q : i \in DOMAIN r /\ r[i] = q[i] /\ i < l
        /\ \A i \in DOMAIN r : i = l \/ i \in DOMAIN q
    <2>1. DOMAIN r = 1..l /\ r[l] = e /\ \A i \in 1..Len(q) : r[i] = q[i]
      BY <1>1, <1>3, AppendForm
    <2> QED
      BY <1>2, <1>3, <2>1
  <1>5. Told(w, q) \/ e = Notice <=> Told(w, r)
    BY <1>4 DEF Told
  <1>6. Within(q, n) /\ (e.kind = "bar" => e.at <= n) => Within(r, n)
    BY <1>4 DEF Within
  <1>7. \A k \in Int : Reached(w, q, b, k) => Reached(w, r, b, k)
    BY <1>4 DEF Reached
  <1>8. e.kind = "bar" => Reached(w, r, b, e.at)
    BY <1>2, <1>4 DEF Reached
  <1>9. ASSUME Preceded(w, q, b), Within(w, n), Within(q, n),
               e.kind = "bar" => e.at = n /\ Reached(w, q, b, n - 1)
        PROVE  Preceded(w, r, b)
    <2>1. ASSUME NEW i \in DOMAIN r, r[i].kind = "bar", r[i].at > b + 1
          PROVE  \/ \E j \in DOMAIN w : BarAt(w, j, r[i].at - 1)
                 \/ \E j \in DOMAIN r : j < i /\ BarAt(r, j, r[i].at - 1)
      <3>1. CASE i \in DOMAIN q
        BY <1>4, <1>9, <2>1, <3>1 DEF Preceded, BarAt
      <3>2. CASE i = l
        <4>1. r[i] = e /\ e.kind = "bar" /\ e.at = n /\ n > b + 1
          BY <1>4, <1>9, <2>1, <3>2
        <4>2. ASSUME NEW j \in DOMAIN w, w[j].kind = "bar", w[j].at >= n - 1
              PROVE  \E m \in DOMAIN w : BarAt(w, m, n - 1)
          <5>1. w[j].at \in Nat /\ w[j].at <= n
            BY <1>9, <4>2, SeqForm DEF Within
          <5>2. CASE w[j].at = n - 1
            BY <4>2, <5>2 DEF BarAt
          <5>3. CASE w[j].at = n
            BY <1>9, <4>1, <4>2, <5>3 DEF Preceded
          <5> QED
            BY <4>2, <5>1, <5>2, <5>3
        <4>3. ASSUME NEW j \in DOMAIN q, q[j].kind = "bar", q[j].at >= n - 1
              PROVE  \/ \E m \in DOMAIN w : BarAt(w, m, n - 1)
                     \/ \E m \in DOMAIN q : BarAt(q, m, n - 1)
          <5>1. q[j].at \in Nat /\ q[j].at <= n
            BY <1>9, <4>3, SeqForm DEF Within
          <5>2. CASE q[j].at = n - 1
            BY <4>3, <5>2 DEF BarAt
          <5>3. CASE q[j].at = n
            BY <1>9, <4>1, <4>3, <5>3 DEF Preceded
          <5> QED
            BY <4>3, <5>1, <5>2, <5>3
        <4>4. \/ \E m \in DOMAIN w : BarAt(w, m, n - 1)
              \/ \E m \in DOMAIN q : BarAt(q, m, n - 1)
          <5>1. ~(b >= n - 1)
            BY <4>1
          <5> QED
            BY <1>9, <4>1, <4>2, <4>3, <5>1 DEF Reached
        <4> QED
          BY <1>4, <3>2, <4>1, <4>4 DEF BarAt
      <3> QED
        BY <1>4, <3>1, <3>2
    <2> QED
      BY <1>9, <2>1 DEF Preceded
  <1> QED
    BY <1>1, <1>5, <1>6, <1>7, <1>8, <1>9

\* The page takes the head of the wire: a bar follows the chart's.
LEMMA Taken ==
  ASSUME NEW w \in Seq(Events), w # <<>>, NEW q \in Seq(Events), NEW b \in Int, NEW n \in Int
  PROVE  /\ Told(w, q) => Head(w) = Notice \/ Told(Tail(w), q)
         /\ Within(w, n) => Within(Tail(w), n) /\ (Head(w).kind = "bar" => Head(w).at <= n)
         /\ Head(w).kind # "bar" =>
              /\ Preceded(w, q, b) => Preceded(Tail(w), q, b)
              /\ Reached(w, q, b, n) => Reached(Tail(w), q, b, n)
         /\ Head(w).kind = "bar" =>
              \A c \in Int : c >= b /\ c >= Head(w).at =>
                /\ Preceded(w, q, b) => Head(w).at <= b + 1 /\ Preceded(Tail(w), q, c)
                /\ Reached(w, q, b, n) => Reached(Tail(w), q, c, n)
  <1>1. PICK v \in Seq(Events) : v = Tail(w)
    BY TailForm
  <1>2. PICK h \in Events : h = Head(w) /\ h = w[1]
    BY TailForm
  <1>3. Len(w) \in Nat /\ DOMAIN w = 1..Len(w) /\ 1 \in DOMAIN w /\ h.at \in Nat
    BY SeqForm, TailForm DEF Events
  <1>4. \A i \in DOMAIN v : i + 1 \in DOMAIN w /\ i \in Nat /\ v[i] = w[i + 1]
    BY <1>1, <1>3, TailForm
  <1>5. \A i \in DOMAIN w : i = 1 \/ (i - 1 \in DOMAIN v /\ v[i - 1] = w[i])
    <2>1. DOMAIN v = 1..(Len(w) - 1)
      BY <1>1, TailForm
    <2>2. \A i \in DOMAIN w : i = 1 \/ (i - 1 \in DOMAIN v /\ (i - 1) + 1 = i)
      BY <1>3, <2>1
    <2> QED
      BY <1>4, <2>2
  <1>6. Told(w, q) => h = Notice \/ Told(v, q)
    BY <1>2, <1>5 DEF Told
  <1>7. Within(w, n) => Within(v, n) /\ (h.kind = "bar" => h.at <= n)
    BY <1>2, <1>3, <1>4 DEF Within
  \* What follows holds of c = b too, where the head is no bar.
  <1>8. ASSUME NEW c \in Int, c >= b, h.kind = "bar" => c >= h.at
        PROVE  /\ Preceded(w, q, b) => Preceded(v, q, c)
               /\ Reached(w, q, b, n) => Reached(v, q, c, n)
    <2>1. Reached(w, q, b, n) => Reached(v, q, c, n)
      <3>1. ASSUME NEW j \in DOMAIN w, w[j].kind = "bar", w[j].at >= n
            PROVE  Reached(v, q, c, n)
        <4>1. CASE j = 1
          <5>1. c >= n
            BY <1>2, <1>3, <1>8, <3>1, <4>1
          <5> QED
            BY <5>1 DEF Reached
        <4>2. CASE j # 1
          BY <1>5, <3>1, <4>2 DEF Reached
        <4> QED
          BY <4>1, <4>2
      <3>2. b >= n => c >= n
        BY <1>8
      <3> QED
        BY <3>1, <3>2 DEF Reached
    <2>2. ASSUME Preceded(w, q, b)
          PROVE  Preceded(v, q, c)
      <3>1. ASSUME NEW i \in DOMAIN v, v[i].kind = "bar", v[i].at > c + 1
            PROVE  \E j \in DOMAIN v : j < i /\ BarAt(v, j, v[i].at - 1)
        <4>1. i + 1 \in DOMAIN w /\ i \in Nat /\ v[i] = w[i + 1] /\ v[i].at \in Nat
          BY <1>4, SeqForm
        <4>2. v[i].at > b + 1
          BY <1>8, <3>1, <4>1
        <4>3. PICK j \in DOMAIN w : j < i + 1 /\ BarAt(w, j, v[i].at - 1)
          BY <2>2, <3>1, <4>1, <4>2 DEF Preceded
        <4>4. j # 1
          BY <1>2, <1>3, <1>8, <3>1, <4>1, <4>3 DEF BarAt
        <4>5. j - 1 \in DOMAIN v /\ v[j - 1] = w[j] /\ j - 1 < i
          BY <1>3, <1>5, <4>1, <4>3, <4>4
        <4> QED
          BY <4>3, <4>5 DEF BarAt
      <3>2. ASSUME NEW i \in DOMAIN q, q[i].kind = "bar", q[i].at > c + 1
            PROVE  \/ \E j \in DOMAIN v : BarAt(v, j, q[i].at - 1)
                   \/ \E j \in DOMAIN q : j < i /\ BarAt(q, j, q[i].at - 1)
        <4>1. q[i].at \in Nat
          BY SeqForm
        <4>2. q[i].at > b + 1
          BY <1>8, <3>2, <4>1
        <4>3. ASSUME NEW j \in DOMAIN w, BarAt(w, j, q[i].at - 1)
              PROVE  \E k \in DOMAIN v : BarAt(v, k, q[i].at - 1)
          <5>1. j # 1
            BY <1>2, <1>3, <1>8, <3>2, <4>1, <4>3 DEF BarAt
          <5> QED
            BY <1>5, <4>3, <5>1 DEF BarAt
        <4> QED
          BY <2>2, <3>2, <4>2, <4>3 DEF Preceded
      <3> QED
        BY <3>1, <3>2 DEF Preceded
    <2> QED
      BY <2>1, <2>2
  <1>9. ASSUME Preceded(w, q, b), h.kind = "bar"
        PROVE  h.at <= b + 1
    <2>1. ~ \E j \in DOMAIN w : j < 1
      BY <1>3
    <2>2. ~(h.at > b + 1)
      BY <1>2, <1>3, <1>9, <2>1 DEF Preceded
    <2> QED
      BY <1>3, <2>2
  <1>10. h.kind # "bar" => /\ Preceded(w, q, b) => Preceded(v, q, b)
                           /\ Reached(w, q, b, n) => Reached(v, q, b, n)
    BY <1>8
  <1> QED
    BY <1>1, <1>2, <1>6, <1>7, <1>8, <1>9, <1>10

-----------------------------------------------------------------------------
(* The inductive invariant. *)

Shapes ==
  /\ now \in Nat \ {0} /\ server \in States /\ route \subseteq Feed!Routes
  /\ queue \in Seq(Events) /\ cable \in Seq(Events)
  /\ Within(cable, now) /\ Within(queue, now)
  /\ over \in BOOLEAN /\ boundary \in BOOLEAN
  /\ page \in Pages /\ page.bar <= now
  /\ chart \in Charts

Renewing ==
  page.awaiting \/ chart.due \/ chart.loading \/ notice # {} \/ over \/ Told(cable, queue)

\* A page without an open socket has cleared what it shows.
Away == socket # "OPEN" => page.awaiting /\ ~page.pending

\* The overflow's notice is the newest event on the socket, or the page has it.
Bounded ==
  boundary => IF cable = <<>> THEN page.awaiting /\ ~page.pending ELSE cable[Len(cable)] = Notice

FreshChart == chart.loading => ~chart.hole /\ chart.top = Feed!None

Routed == route # {} => clients # "NONE"

\* Nothing is missing between the chart and the bars in transit, nor behind
\* them while the market route is up.
Whole ==
  /\ ~chart.hole
  /\ chart.top # Feed!None =>
       /\ Preceded(cable, queue, chart.top)
       /\ "market" \in route \/ clients = "STARTING" => Reached(cable, queue, chart.top, now - 1)

Unbroken == Renewing \/ Whole

FeedInv == Shapes /\ Away /\ Bounded /\ FreshChart /\ Routed /\ Unbroken

\* The types of single fields.
LEMMA ShapesForm ==
  ASSUME Shapes
  PROVE  /\ now \in Int /\ now - 1 \in Int /\ now + 1 \in Int /\ now > 0
         /\ chart.top \in Int /\ page.bar \in Int /\ Notice \in Events
         /\ chart.due \in BOOLEAN /\ chart.loading \in BOOLEAN /\ chart.hole \in BOOLEAN
         /\ chart.failed \in BOOLEAN
         /\ page.awaiting \in BOOLEAN /\ page.pending \in BOOLEAN
  <1>1. now \in Int /\ now - 1 \in Int /\ now + 1 \in Int /\ now > 0
    BY DEF Shapes
  <1>2. chart.top \in Int /\ page.bar \in Int
    BY DEF Shapes, Charts, Pages
  <1>3. /\ chart.due \in BOOLEAN /\ chart.loading \in BOOLEAN /\ chart.hole \in BOOLEAN
        /\ chart.failed \in BOOLEAN
        /\ page.awaiting \in BOOLEAN /\ page.pending \in BOOLEAN
    BY DEF Shapes, Charts, Pages
  <1>4. Notice \in Events
    BY EventForm DEF Notice, States
  <1> QED
    BY <1>1, <1>2, <1>3, <1>4

\* An event or two are published.
LEMMA PublishForm ==
  ASSUME queue \in Seq(Events), NEW d \in Events, NEW e \in Events,
         Feed!Publish(<<e>>) \/ Feed!Publish(<<d, e>>)
  PROVE  /\ boundary' = boundary
         /\ \/ socket = "NONE" /\ queue' = queue /\ over' = over
            \/ over' = TRUE /\ queue' = Append(<<>>, e)
            \/ ~over /\ over' = over /\ queue' \in {Append(queue, e), Append(Append(queue, d), e)}
  <1>1. Feed!Last(<<e>>) = e /\ <<e>> = Append(<<>>, e) /\ Feed!Last(<<d, e>>) = e
    BY DEF Feed!Last
  <1>2. queue \o <<e>> = Append(queue, e)
    OBVIOUS
  <1>3. queue \o <<d, e>> = Append(Append(queue, d), e)
    OBVIOUS
  <1> QED
    BY <1>1, <1>2, <1>3 DEF Feed!Publish, Feed!PutOverflow, Feed!Overflows, Feed!Subscribed

\* Two events are appended, a status and what follows it.
LEMMA AppendedTwo ==
  ASSUME NEW w \in Seq(Events), NEW q \in Seq(Events), NEW d \in Events, NEW e \in Events,
         NEW b \in Int, NEW n \in Int, d.kind = "status", e.kind = "bar" => e.at = n,
         Within(w, n), Within(q, n)
  PROVE  LET r == Append(Append(q, d), e)
         IN  /\ r \in Seq(Events) /\ Within(r, n)
             /\ Told(w, q) \/ d = Notice \/ e = Notice => Told(w, r)
             /\ Preceded(w, q, b) /\ (e.kind = "bar" => Reached(w, q, b, n - 1)) => Preceded(w, r, b)
             /\ \A k \in Int : Reached(w, q, b, k) => Reached(w, r, b, k)
             /\ e.kind = "bar" => Reached(w, r, b, n)
  <1>1. PICK p \in Seq(Events) : p = Append(q, d)
    BY AppendForm
  <1>2. PICK r \in Seq(Events) : r = Append(p, e)
    BY AppendForm
  <1>3. n - 1 \in Int /\ d.kind # "bar"
    OBVIOUS
  <1>4. /\ Within(p, n)
        /\ Told(w, q) \/ d = Notice => Told(w, p)
        /\ Preceded(w, q, b) => Preceded(w, p, b)
        /\ \A k \in Int : Reached(w, q, b, k) => Reached(w, p, b, k)
    BY <1>1, <1>3, Queued
  <1>5. e.kind = "bar" => e.at <= n
    <2>1. e.at \in Nat
      BY DEF Events
    <2> QED
      BY <2>1
  <1>6. /\ Within(r, n)
        /\ Told(w, p) \/ e = Notice => Told(w, r)
        /\ Preceded(w, p, b) /\ (e.kind = "bar" => Reached(w, p, b, n - 1)) => Preceded(w, r, b)
        /\ \A k \in Int : Reached(w, p, b, k) => Reached(w, r, b, k)
        /\ e.kind = "bar" => Reached(w, r, b, n)
    BY <1>2, <1>4, <1>5, Queued
  <1> QED
    BY <1>1, <1>2, <1>3, <1>4, <1>6

\* One event is appended.
LEMMA AppendedOne ==
  ASSUME NEW w \in Seq(Events), NEW q \in Seq(Events), NEW e \in Events,
         NEW b \in Int, NEW n \in Int, e.kind = "bar" => e.at = n,
         Within(w, n), Within(q, n)
  PROVE  LET r == Append(q, e)
         IN  /\ r \in Seq(Events) /\ Within(r, n)
             /\ Told(w, q) \/ e = Notice => Told(w, r)
             /\ Preceded(w, q, b) /\ (e.kind = "bar" => Reached(w, q, b, n - 1)) => Preceded(w, r, b)
             /\ \A k \in Int : Reached(w, q, b, k) => Reached(w, r, b, k)
             /\ e.kind = "bar" => Reached(w, r, b, n)
  <1>1. e.kind = "bar" => e.at <= n
    <2>1. e.at \in Nat
      BY DEF Events
    <2> QED
      BY <2>1
  <1>2. Append(q, e) \in Seq(Events)
    BY AppendForm
  <1> QED
    BY <1>1, <1>2, Queued

\* What a publication does to the subscriber's queue.
LEMMA Published ==
  ASSUME FeedInv, NEW d \in Events, NEW e \in Events, d.kind = "status",
         e.kind = "bar" => e.at = now, Feed!Publish(<<e>>) \/ Feed!Publish(<<d, e>>)
  PROVE  /\ boundary' = boundary /\ over' \in BOOLEAN
         /\ queue' \in Seq(Events) /\ Within(queue', now)
         /\ over => over'
         /\ Told(cable, queue) \/ e = Notice => Told(cable, queue') \/ over' \/ page.awaiting
         /\ over' \/ page.awaiting \/
              /\ Preceded(cable, queue, chart.top)
                   /\ (e.kind = "bar" => Reached(cable, queue, chart.top, now - 1))
                   => Preceded(cable, queue', chart.top)
              /\ \A k \in Int :
                   Reached(cable, queue, chart.top, k) => Reached(cable, queue', chart.top, k)
              /\ e.kind = "bar" => Reached(cable, queue', chart.top, now)
  <1>1. Shapes /\ Away
    BY DEF FeedInv
  <1>2. /\ queue \in Seq(Events) /\ cable \in Seq(Events) /\ over \in BOOLEAN /\ now \in Int
        /\ chart.top \in Int /\ Within(cable, now) /\ Within(queue, now)
    BY <1>1, ShapesForm DEF Shapes
  <1>3. PICK t \in Int : t = chart.top
    BY <1>2
  <1>4. PICK n \in Int : n = now
    BY <1>2
  <1>5. PICK w \in Seq(Events) : w = cable
    BY <1>2
  <1>6. /\ boundary' = boundary
        /\ \/ socket = "NONE" /\ queue' = queue /\ over' = over
           \/ over' = TRUE /\ queue' = Append(<<>>, e)
           \/ ~over /\ over' = over /\ queue' \in {Append(queue, e), Append(Append(queue, d), e)}
    BY <1>2, PublishForm
  <1>7. CASE socket = "NONE" /\ queue' = queue /\ over' = over
    <2>1. page.awaiting
      BY <1>1, <1>7 DEF Away
    <2> QED
      BY <1>2, <1>6, <1>7, <2>1
  <1>8. CASE over' = TRUE /\ queue' = Append(<<>>, e)
    <2>1. <<>> \in Seq(Events) /\ Within(<<>>, n)
      BY EmptySeq DEF Within
    <2>2. Append(<<>>, e) \in Seq(Events) /\ Within(Append(<<>>, e), n)
      BY <1>2, <1>3, <1>4, <1>5, <2>1, AppendedOne
    <2> QED
      BY <1>4, <1>6, <1>8, <2>2
  <1>9. CASE ~over /\ over' = over /\ queue' \in {Append(queue, e), Append(Append(queue, d), e)}
    <2>1. PICK r \in {Append(queue, e), Append(Append(queue, d), e)} : r = queue'
      BY <1>9
    <2>2. /\ r \in Seq(Events) /\ Within(r, n)
          /\ Told(w, queue) \/ e = Notice => Told(w, r)
          /\ Preceded(w, queue, t) /\ (e.kind = "bar" => Reached(w, queue, t, n - 1))
               => Preceded(w, r, t)
          /\ \A k \in Int : Reached(w, queue, t, k) => Reached(w, r, t, k)
          /\ e.kind = "bar" => Reached(w, r, t, n)
      <3>1. /\ e.kind = "bar" => e.at = n
            /\ Within(w, n) /\ Within(queue, n)
        BY <1>2, <1>4, <1>5
      <3>2. CASE r = Append(queue, e)
        BY <1>2, <3>1, <3>2, AppendedOne
      <3>3. CASE r = Append(Append(queue, d), e)
        BY <1>2, <3>1, <3>3, AppendedTwo
      <3> QED
        BY <2>1, <3>2, <3>3
    <2> QED
      BY <1>2, <1>3, <1>4, <1>5, <1>6, <1>9, <2>1, <2>2
  <1> QED
    BY <1>6, <1>7, <1>8, <1>9

\* A step that publishes and leaves the wire, the page and the chart alone.
LEMMA PublishingStep ==
  ASSUME FeedInv, NEW d \in Events, NEW e \in Events, d.kind = "status",
         Feed!Publish(<<e>>) \/ Feed!Publish(<<d, e>>),
         e.kind = "bar" => e.at = now /\ "market" \in route,
         now' = now \/ (now' = now + 1 /\ e.kind = "bar"),
         cable' = cable, page' = page, chart' = chart, socket' \in {socket, "OPEN"},
         server' \in States, route' \subseteq Feed!Routes, route' # {} => clients' # "NONE",
         notice # {} => notice' # {} \/ e = Notice,
         "market" \in route' \/ clients' = "STARTING" => "market" \in route \/ clients = "STARTING"
  PROVE  FeedInv'
  <1>1. Shapes /\ Away /\ Bounded /\ FreshChart /\ Unbroken
    BY DEF FeedInv
  <1>2. /\ now \in Int /\ now - 1 \in Int /\ now > 0 /\ chart.top \in Int
        /\ Within(cable, now) /\ page.bar <= now /\ page.bar \in Int
    BY <1>1, ShapesForm DEF Shapes
  <1>3. /\ boundary' = boundary /\ over' \in BOOLEAN
        /\ queue' \in Seq(Events) /\ Within(queue', now)
        /\ over => over'
        /\ Told(cable, queue) \/ e = Notice => Told(cable, queue') \/ over' \/ page.awaiting
        /\ over' \/ page.awaiting \/
             /\ Preceded(cable, queue, chart.top)
                  /\ (e.kind = "bar" => Reached(cable, queue, chart.top, now - 1))
                  => Preceded(cable, queue', chart.top)
             /\ \A k \in Int :
                  Reached(cable, queue, chart.top, k) => Reached(cable, queue', chart.top, k)
             /\ e.kind = "bar" => Reached(cable, queue', chart.top, now)
    BY <1>1, Published
  <1>4. Shapes'
    <2>1. ASSUME NEW s \in Seq(Events), Within(s, now)
          PROVE  Within(s, now')
      <3>1. ASSUME NEW i \in DOMAIN s, s[i].at <= now
            PROVE  s[i].at <= now'
        <4>1. s[i].at \in Nat
          BY SeqForm
        <4> QED
          BY <1>2, <3>1, <4>1
      <3> QED
        BY <2>1, <3>1 DEF Within
    <2>2. now' \in Nat \ {0} /\ page.bar <= now'
      BY <1>2
    <2>3. Within(cable', now') /\ Within(queue', now')
      BY <1>1, <1>2, <1>3, <2>1 DEF Shapes
    <2> QED
      BY <1>1, <1>3, <2>2, <2>3 DEF Shapes
  <1>5. Away'
    BY <1>1 DEF Away
  <1>6. Bounded'
    BY <1>1, <1>3 DEF Bounded, Notice, Feed!Status
  <1>7. FreshChart'
    BY <1>1 DEF FreshChart
  <1>8. Routed'
    BY DEF Routed
  <1>9. Renewing => Renewing'
    BY <1>3 DEF Renewing, Told, Notice, Feed!Status
  <1>10. ASSUME ~Renewing'
         PROVE  Whole'
    <2>1. Whole /\ ~over' /\ ~page.awaiting
      BY <1>1, <1>9, <1>10 DEF Unbroken, Renewing
    <2>2. ~chart'.hole
      BY <2>1 DEF Whole
    <2>3. ASSUME chart.top # Feed!None
          PROVE  /\ Preceded(cable, queue', chart.top)
                 /\ "market" \in route' \/ clients' = "STARTING" =>
                      Reached(cable, queue', chart.top, now' - 1)
      <3>1. /\ Preceded(cable, queue, chart.top)
            /\ "market" \in route \/ clients = "STARTING" => Reached(cable, queue, chart.top, now - 1)
        BY <2>1, <2>3 DEF Whole
      <3>2. Preceded(cable, queue', chart.top)
        BY <1>3, <2>1, <3>1
      <3>3. CASE now' = now
        BY <1>2, <1>3, <2>1, <3>1, <3>2, <3>3
      <3>4. CASE now' = now + 1 /\ e.kind = "bar"
        <4>1. now' - 1 = now
          BY <1>2, <3>4
        <4> QED
          BY <1>3, <2>1, <3>2, <3>4, <4>1
      <3> QED
        BY <3>3, <3>4
    <2> QED
      BY <2>2, <2>3 DEF Whole, Preceded, Reached, BarAt, Feed!None
  <1> QED
    BY <1>4, <1>5, <1>6, <1>7, <1>8, <1>10 DEF FeedInv, Unbroken

-----------------------------------------------------------------------------
(* The steps of the relay. *)

\* A status is an event and no bar.
LEMMA StatusForm ==
  ASSUME NEW s \in States
  PROVE  /\ Feed!Status(s) \in Events /\ Feed!Status(s).kind = "status"
         /\ s = "RECONNECTING" => Feed!Status(s) = Notice
  <1>1. Feed!Status(s).kind = "status" /\ (s = "RECONNECTING" => Feed!Status(s) = Notice)
    BY DEF Feed!Status, Notice
  <1> QED
    BY <1>1, EventForm

\* A message of a route, a bar's with the time that follows it.
LEMMA DecodeStep ==
  ASSUME FeedInv, NEW r \in Feed!Routes, NEW e \in {Feed!Quote, Feed!Bar}, Feed!Decode(r, e),
         e.kind = "bar" => r = "market",
         now' = now \/ (now' = now + 1 /\ e.kind = "bar")
  PROVE  FeedInv'
  <1>1. Shapes /\ Routed /\ now \in Nat
    BY DEF FeedInv, Shapes
  <1>2. e \in Events /\ (e.kind = "bar" => e.at = now)
    <2>1. e \in Events
      BY <1>1, EventForm
    <2>2. CASE e = Feed!Quote
      BY <2>1, <2>2 DEF Feed!Quote
    <2>3. CASE e = Feed!Bar
      BY <2>1, <2>3 DEF Feed!Bar
    <2> QED
      BY <2>2, <2>3
  <1>3. PICK d \in Events : d = Feed!Status("LIVE") /\ d.kind = "status"
    BY StatusForm DEF States
  <1>4. Feed!Publish(<<e>>) \/ Feed!Publish(<<d, e>>)
    <2>1. CASE live' = Feed!Routes /\ server # "LIVE"
      BY <1>3, <2>1 DEF Feed!Decode
    <2>2. CASE ~(live' = Feed!Routes /\ server # "LIVE")
      BY <2>2 DEF Feed!Decode
    <2> QED
      BY <2>1, <2>2
  <1>5. /\ cable' = cable /\ page' = page /\ chart' = chart /\ socket' = socket
        /\ route' = route /\ clients' = clients /\ notice' = notice /\ r \in route
    BY DEF Feed!Decode, Feed!line
  <1>6. server' \in States
    BY <1>1 DEF Feed!Decode, Shapes, States
  <1> QED
    BY <1>1, <1>2, <1>3, <1>4, <1>5, <1>6, PublishingStep DEF Shapes, Routed

\* A quote or a bar of a live route.
LEMMA SendStep ==
  ASSUME FeedInv, Feed!SendQuote \/ Feed!SendBar
  PROVE  FeedInv'
  <1>1. CASE Feed!SendQuote
    <2>1. Feed!Quote.kind # "bar" /\ "public" \in Feed!Routes
      BY DEF Feed!Quote, Feed!Routes
    <2> QED
      BY <1>1, <2>1, DecodeStep DEF Feed!SendQuote
  <1>2. CASE Feed!SendBar
    BY <1>2, DecodeStep DEF Feed!SendBar, Feed!Routes
  <1> QED
    BY <1>1, <1>2

\* The handler of a reconnection publishes the notice, or the subscriber overflows.
LEMMA ReconnectedStep ==
  ASSUME FeedInv, NEW r \in Feed!Routes, Feed!Reconnected(r)
  PROVE  FeedInv'
  <1>1. Shapes /\ Routed
    BY DEF FeedInv
  <1>2. PICK e \in Events : e = Feed!Status("RECONNECTING") /\ e.kind = "status" /\ e = Notice
    BY StatusForm DEF States
  <1>3. /\ Feed!Publish(<<e>>) /\ cable' = cable /\ page' = page /\ chart' = chart /\ socket' = socket
        /\ route' = route /\ clients' = clients /\ now' = now /\ server' \in States
    BY <1>2 DEF Feed!Reconnected, Feed!line, States
  <1> QED
    BY <1>1, <1>2, <1>3, PublishingStep DEF Shapes, Routed

\* Every route is up once the clients are started: no bar has passed meanwhile.
LEMMA StartedStep ==
  ASSUME FeedInv, Feed!Started
  PROVE  FeedInv'
  <1>1. PICK e \in Events : e = Feed!Status("LIVE") /\ e.kind = "status"
    BY StatusForm DEF States
  <1>2. /\ Feed!Publish(<<e>>) /\ cable' = cable /\ page' = page /\ chart' = chart
        /\ socket' \in {socket, "OPEN"} /\ clients = "STARTING" /\ clients' = "UP"
        /\ route' = Feed!Routes /\ notice' = notice /\ now' = now /\ server' \in States
    BY <1>1 DEF Feed!Started, States
  <1> QED
    BY <1>1, <1>2, PublishingStep

\* A lost route stops the bars, a subscription made again leaves a handler to run.
LEMMA LoseStep ==
  ASSUME FeedInv, NEW r \in Feed!Routes, Feed!Lose(r) \/ Feed!Resubscribe(r)
  PROVE  FeedInv'
  <1>1. Shapes /\ Away /\ Bounded /\ FreshChart /\ Routed /\ Unbroken
    BY DEF FeedInv
  <1>2. /\ UNCHANGED <<now, Feed!relay, Feed!sub, Feed!line, page, chart>>
        /\ route' \subseteq Feed!Routes /\ clients' # "NONE"
    BY <1>1 DEF Feed!Lose, Feed!Resubscribe, Feed!relay, Shapes
  <1>3. Shapes'
    BY <1>1, <1>2 DEF Shapes, Feed!relay, Feed!sub, Feed!line, Within
  <1>4. Away' /\ Bounded' /\ FreshChart' /\ Routed'
    BY <1>1, <1>2 DEF Away, Bounded, FreshChart, Routed,
        Feed!relay, Feed!sub, Feed!line, Notice, Feed!Status
  <1>5. CASE Feed!Lose(r)
    <2>1. notice' = notice /\ route' \subseteq route
      BY <1>5 DEF Feed!Lose
    <2>2. Renewing => Renewing'
      BY <1>2, <2>1 DEF Renewing, Told, Notice, Feed!Status, Feed!sub, Feed!line
    <2>3. Whole => Whole'
      BY <1>2, <2>1 DEF Whole, Preceded, Reached, BarAt, Feed!sub, Feed!line, Feed!relay, Feed!None
    <2> QED
      BY <1>1, <1>3, <1>4, <2>2, <2>3 DEF FeedInv, Unbroken
  <1>6. CASE Feed!Resubscribe(r)
    <2>1. notice' # {}
      BY <1>6 DEF Feed!Resubscribe
    <2> QED
      BY <1>3, <1>4, <2>1 DEF FeedInv, Unbroken, Renewing
  <1> QED
    BY <1>5, <1>6

\* A page that connects has cleared what it shows.
LEMMA ConnectStep ==
  ASSUME FeedInv, Feed!Connect
  PROVE  FeedInv'
  <1>1. Shapes /\ Away /\ FreshChart /\ Routed
    BY DEF FeedInv
  <1>2. page.awaiting /\ page' = page /\ chart' = chart /\ now' = now /\ ~page.pending
    BY <1>1 DEF Feed!Connect, Away
  <1>3. PICK s \in States : queue' = <<Feed!Status(s)>> /\ server' \in States
    BY <1>1 DEF Feed!Connect, Shapes, States, Feed!relay
  <1>4. queue' \in Seq(Events) /\ Within(queue', now)
    <2>1. PICK e \in Events : e = Feed!Status(s) /\ e.kind = "status"
      BY StatusForm
    <2>2. queue' = <<e>>
      BY <1>3, <2>1
    <2> QED
      BY <2>1, <2>2 DEF Within
  <1>5. /\ cable' = <<>> /\ over' = FALSE /\ boundary' = FALSE
        /\ cable' \in Seq(Events) /\ Within(cable', now)
    BY DEF Feed!Connect, Within
  <1>6. route' \subseteq Feed!Routes /\ Routed'
    BY <1>1 DEF Feed!Connect, Shapes, Routed, Feed!Routes, Feed!relay
  <1>7. Shapes'
    BY <1>1, <1>2, <1>3, <1>4, <1>5, <1>6 DEF Shapes
  <1>8. Away' /\ Bounded' /\ FreshChart' /\ Unbroken'
    BY <1>1, <1>2, <1>5 DEF Away, Bounded, FreshChart, Unbroken, Renewing
  <1> QED
    BY <1>6, <1>7, <1>8 DEF FeedInv

\* The head of the queue is sent, or the notice of an overflow.
LEMMA ForwardStep ==
  ASSUME FeedInv, Feed!Forward
  PROVE  FeedInv'
  <1>1. Shapes /\ Away /\ Bounded /\ FreshChart /\ Routed /\ Unbroken
    BY DEF FeedInv
  <1>2. /\ UNCHANGED <<Feed!venue, Feed!relay, over, socket, page, chart>> /\ queue # <<>> /\ ~boundary
        /\ socket = "OPEN" /\ page' = page
    BY DEF Feed!Forward
  <1>3. /\ queue \in Seq(Events) /\ cable \in Seq(Events) /\ Within(cable, now) /\ Within(queue, now)
        /\ now \in Int /\ now - 1 \in Int /\ chart.top \in Int /\ Notice \in Events
    BY <1>1, ShapesForm DEF Shapes
  <1>4. CASE over
    <2>1. cable' = Append(cable, Notice) /\ boundary' = TRUE /\ queue' = queue
      BY <1>4 DEF Feed!Forward, Notice
    <2>2. cable' \in Seq(Events) /\ Within(cable', now)
      <3>1. Notice.kind # "bar"
        BY DEF Notice, Feed!Status
      <3> QED
        BY <1>3, <2>1, <3>1, AppendedOne
    <2>3. Shapes'
      BY <1>1, <1>2, <2>1, <2>2 DEF Shapes, Feed!venue, Feed!relay
    <2>4. Bounded'
      <3>1. PICK v \in Seq(Events) : v = cable' /\ v = Append(cable, Notice)
        BY <2>1, <2>2
      <3>2. v # <<>> /\ v[Len(v)] = Notice
        BY <1>3, <3>1, AppendProperties
      <3>3. Notice' = Notice
        BY DEF Notice, Feed!Status
      <3> QED
        BY <3>1, <3>2, <3>3 DEF Bounded
    <2>5. Away' /\ FreshChart' /\ Routed' /\ Unbroken'
      BY <1>1, <1>2, <1>4 DEF Away, FreshChart, Routed, Unbroken, Renewing, Feed!venue, Feed!relay
    <2> QED
      BY <2>3, <2>4, <2>5 DEF FeedInv
  <1>5. CASE ~over
    <2>1. cable' = Append(cable, Head(queue)) /\ queue' = Tail(queue) /\ boundary' = boundary
      BY <1>5 DEF Feed!Forward
    <2>2. cable' \in Seq(Events) /\ queue' \in Seq(Events)
      BY <1>2, <1>3, <2>1, TailForm, AppendForm
    <2>3. ASSUME NEW b \in Int, NEW n \in Int
          PROVE  /\ Preceded(cable, queue, b) => Preceded(cable', queue', b)
                 /\ Reached(cable, queue, b, n) => Reached(cable', queue', b, n)
                 /\ Within(cable, n) /\ Within(queue, n) => Within(cable', n) /\ Within(queue', n)
                 /\ Told(cable, queue) => Told(cable', queue')
      BY <1>2, <1>3, <2>1, Forwarded
    <2>4. Shapes'
      BY <1>1, <1>2, <1>3, <2>1, <2>2, <2>3 DEF Shapes, Feed!venue, Feed!relay
    <2>5. Away' /\ FreshChart' /\ Routed' /\ Bounded'
      BY <1>1, <1>2, <2>1 DEF Away, FreshChart, Routed, Bounded, Feed!venue, Feed!relay
    <2>6. Renewing => Renewing'
      <3>1. Told(cable, queue) => Told(cable', queue')
        BY <1>3, <2>3
      <3>2. Told(cable, queue)' <=> Told(cable', queue')
        BY DEF Told, Notice, Feed!Status
      <3> QED
        BY <1>2, <3>1, <3>2 DEF Renewing, Feed!venue
    <2>7. Whole => Whole'
      <3>1. /\ Preceded(cable, queue, chart.top) => Preceded(cable', queue', chart.top)
            /\ Reached(cable, queue, chart.top, now - 1) => Reached(cable', queue', chart.top, now - 1)
        BY <1>3, <2>3
      <3>2. chart' = chart /\ now' = now /\ route' = route /\ clients' = clients
        BY <1>2 DEF Feed!venue, Feed!relay
      <3>3. /\ Preceded(cable, queue, chart.top)' <=> Preceded(cable', queue', chart.top)
            /\ Reached(cable, queue, chart.top, now - 1)' <=>
                 Reached(cable', queue', chart.top, now - 1)
        BY <3>2 DEF Preceded, Reached, BarAt
      <3> QED
        BY <3>1, <3>2, <3>3 DEF Whole, Feed!None
    <2> QED
      BY <1>1, <2>4, <2>5, <2>6, <2>7 DEF FeedInv, Unbroken
  <1> QED
    BY <1>1, <1>4, <1>5 DEF Shapes

\* The overflow is forgotten only when the page has been told or will be.
LEMMA ResumeStep ==
  ASSUME FeedInv, Feed!Resume
  PROVE  FeedInv'
  <1>1. Shapes /\ Away /\ Bounded /\ FreshChart /\ Routed /\ boundary
    BY DEF FeedInv, Feed!Resume
  <1>2. /\ UNCHANGED <<Feed!venue, Feed!relay, queue, Feed!line, page, chart>>
        /\ boundary' = FALSE /\ over' = FALSE /\ page' = page
    BY DEF Feed!Resume
  <1>3. Shapes'
    BY <1>1, <1>2 DEF Shapes, Feed!venue, Feed!relay, Feed!line, Within
  <1>4. Away' /\ Bounded' /\ FreshChart' /\ Routed'
    BY <1>1, <1>2 DEF Away, Bounded, FreshChart, Routed, Feed!venue, Feed!relay, Feed!line
  <1>5. page.awaiting \/ Told(cable, queue)
    <2>1. CASE cable = <<>>
      BY <1>1, <2>1 DEF Bounded
    <2>2. CASE cable # <<>>
      <3>1. cable[Len(cable)] = Notice
        BY <1>1, <2>2 DEF Bounded
      <3>2. Len(cable) \in DOMAIN cable
        BY <1>1, <2>2, TailForm, SeqForm DEF Shapes
      <3> QED
        BY <3>1, <3>2 DEF Told
    <2> QED
      BY <2>1, <2>2
  <1>6. Renewing'
    BY <1>2, <1>5 DEF Renewing, Told, Notice, Feed!Status, Feed!line
  <1> QED
    BY <1>3, <1>4, <1>6 DEF FeedInv, Unbroken

-----------------------------------------------------------------------------
(* The steps of the page. *)

\* What the page shows is not current.
LEMMA AwaitingForm ==
  ASSUME NEW p \in Pages, NEW s \in States \cup {"STALE"}, NEW seen \in {"NONE", "FRESH", "OLD"},
         NEW timer \in BOOLEAN
  PROVE  /\ Feed!Awaiting(p, s, seen, timer) \in Pages
         /\ Feed!Awaiting(p, s, seen, timer).awaiting /\ ~Feed!Awaiting(p, s, seen, timer).pending
         /\ Feed!Awaiting(p, s, seen, timer).bar = Feed!None
  <1>1. PICK S : S = States \cup {"STALE"}
    OBVIOUS
  <1>2. p \in [status : S, awaiting : BOOLEAN, pending : BOOLEAN, bar : Int,
               seen : {"NONE", "FRESH", "OLD"}, timer : BOOLEAN]
    BY <1>1 DEF Pages
  <1>3. PICK none \in Int : none = Feed!None
    BY DEF Feed!None
  <1>4. PICK q : q = [p EXCEPT !.status = s, !.awaiting = TRUE, !.pending = FALSE, !.bar = none,
                              !.seen = seen, !.timer = timer]
    OBVIOUS
  <1>5. /\ q \in [status : S, awaiting : BOOLEAN, pending : BOOLEAN, bar : Int,
                  seen : {"NONE", "FRESH", "OLD"}, timer : BOOLEAN]
    BY <1>1, <1>2, <1>4
  <1>6. q.awaiting /\ ~q.pending /\ q.bar = none
    BY <1>2, <1>4
  <1> QED
    BY <1>1, <1>3, <1>4, <1>5, <1>6 DEF Feed!Awaiting, Pages

\* A bar that is merged follows the last one, or leaves a hole.
LEMMA MergedForm ==
  ASSUME NEW c \in Charts, NEW bar \in Int, now \in Int
  PROVE  /\ Feed!Merged(c, bar) \in Charts
         /\ Feed!Merged(c, bar).due = c.due /\ Feed!Merged(c, bar).loading = c.loading
         /\ \/ /\ Feed!Merged(c, bar) = c
               /\ (c.loading \/ c.top = Feed!None \/ bar <= c.top \/ now > bar + 1)
            \/ /\ ~c.loading /\ c.top # Feed!None /\ bar > c.top
               /\ Feed!Merged(c, bar).top = bar
               /\ bar <= c.top + 1 /\ ~c.hole => ~Feed!Merged(c, bar).hole
  <1>1. CASE c.loading \/ c.top = Feed!None \/ bar <= c.top \/ now > bar + 1
    BY <1>1 DEF Feed!Merged
  <1>2. CASE ~(c.loading \/ c.top = Feed!None \/ bar <= c.top \/ now > bar + 1)
    <2>1. PICK hole \in BOOLEAN : hole = (c.hole \/ bar > c.top + 1)
      OBVIOUS
    <2>2. Feed!Merged(c, bar) = [c EXCEPT !.top = bar, !.hole = hole]
      BY <1>2, <2>1 DEF Feed!Merged
    <2>3. c.top \in Int /\ bar > c.top
      BY <1>2 DEF Charts
    <2>4. bar <= c.top + 1 => ~(bar > c.top + 1)
      BY <2>3
    <2>5. /\ Feed!Merged(c, bar) \in Charts /\ Feed!Merged(c, bar).top = bar
          /\ Feed!Merged(c, bar).hole = hole
          /\ Feed!Merged(c, bar).due = c.due /\ Feed!Merged(c, bar).loading = c.loading
      BY <2>2 DEF Charts
    <2> QED
      BY <1>2, <2>1, <2>3, <2>4, <2>5
  <1> QED
    BY <1>1, <1>2

\* A step of the page that takes nothing from the socket.
LEMMA PageStep ==
  ASSUME FeedInv, UNCHANGED <<Feed!venue, Feed!relay, Feed!sub, Feed!line>>,
         page' \in Pages, page'.bar <= now, chart' \in Charts,
         page.awaiting /\ ~page.pending => page'.awaiting /\ ~page'.pending,
         chart'.loading => ~chart'.hole /\ chart'.top = Feed!None,
         Renewing' \/ Whole'
  PROVE  FeedInv'
  <1>1. Shapes /\ Away /\ Bounded /\ FreshChart /\ Routed
    BY DEF FeedInv
  <1>2. Shapes'
    BY <1>1 DEF Shapes, Feed!venue, Feed!relay, Feed!sub, Feed!line, Within
  <1>3. Away' /\ Routed'
    BY <1>1 DEF Away, Routed, Feed!venue, Feed!relay, Feed!line
  <1>4. Bounded'
    <2>1. Notice' = Notice
      BY DEF Notice, Feed!Status
    <2> QED
      BY <1>1, <2>1 DEF Bounded, Feed!sub, Feed!line
  <1>5. FreshChart'
    BY DEF FreshChart, Feed!None
  <1> QED
    BY <1>2, <1>3, <1>4, <1>5 DEF FeedInv, Unbroken

\* The page drops its bars.
LEMMA LoadStep ==
  ASSUME FeedInv, Feed!Load
  PROVE  FeedInv'
  <1>1. Shapes
    BY DEF FeedInv
  <1>2. PICK c : /\ c = [due |-> FALSE, loading |-> TRUE, top |-> Feed!None, hole |-> FALSE,
                         failed |-> FALSE]
                 /\ chart' = c
    BY DEF Feed!Load
  <1>3. c \in Charts /\ c.loading /\ ~c.hole /\ c.top = Feed!None
    BY <1>2 DEF Charts, Feed!None
  <1>4. Renewing'
    BY <1>2, <1>3 DEF Renewing
  <1>5. UNCHANGED <<Feed!venue, Feed!relay, Feed!sub, Feed!line>> /\ page' = page
    BY DEF Feed!Load
  <1> QED
    BY <1>1, <1>2, <1>3, <1>4, <1>5, PageStep DEF Shapes

\* A window is whole: it ends with the last completed bar, and no bar in transit is later
\* than the one in progress.
LEMMA ShowStep ==
  ASSUME FeedInv, Feed!Show
  PROVE  FeedInv'
  <1>1. Shapes /\ FreshChart
    BY DEF FeedInv
  <1>2. /\ UNCHANGED <<Feed!venue, Feed!relay, Feed!sub, Feed!line>> /\ page' = page /\ now' = now
        /\ page \in Pages /\ page.bar <= now /\ chart \in Charts /\ ~chart.hole /\ chart.top = Feed!None
        /\ cable' = cable /\ queue' = queue
    BY <1>1 DEF Feed!Show, Shapes, FreshChart, Feed!venue, Feed!sub, Feed!line
  <1>3. /\ now \in Int /\ now - 1 \in Int /\ now > 0 /\ page.bar \in Int
    BY <1>1, ShapesForm
  <1>4. CASE chart' = [chart EXCEPT !.loading = FALSE, !.failed = TRUE]
    <2>1. chart' \in Charts /\ ~chart'.loading /\ ~chart'.hole /\ chart'.top = Feed!None
      BY <1>2, <1>4 DEF Charts
    <2>2. Whole'
      BY <2>1 DEF Whole, Feed!None
    <2> QED
      BY <1>2, <2>1, <2>2, PageStep
  <1>5. CASE chart' = IF page.bar = Feed!None THEN Feed!Window ELSE Feed!Merged(Feed!Window, page.bar)
    <2>1. /\ Feed!Window \in Charts /\ ~Feed!Window.loading /\ ~Feed!Window.hole
          /\ Feed!Window.top = now - 1
      BY <1>2, <1>3 DEF Feed!Window, Charts
    <2>2. PICK v \in Charts : v = Feed!Window /\ ~v.loading /\ ~v.hole /\ v.top = now - 1
      BY <2>1
    <2>3. PICK c \in Charts : c = chart' /\ ~c.loading /\ ~c.hole /\ c.top \in Int /\ c.top >= now - 1
      <3>1. CASE page.bar = Feed!None
        BY <1>3, <1>5, <2>2, <3>1
      <3>2. CASE page.bar # Feed!None
        <4>1. page.bar <= v.top + 1
          BY <1>2, <1>3, <2>2
        <4>2. v.top + 1 \in Int /\ v.top \in Int /\ v.top >= now - 1
          BY <1>3, <2>2
        <4>3. page.bar > v.top => page.bar >= now - 1
          BY <1>3, <2>2
        <4>4. chart' = Feed!Merged(v, page.bar)
          BY <1>5, <2>2, <3>2
        <4>5. /\ Feed!Merged(v, page.bar) \in Charts
              /\ Feed!Merged(v, page.bar).loading = v.loading
              /\ \/ Feed!Merged(v, page.bar) = v
                 \/ /\ page.bar > v.top /\ Feed!Merged(v, page.bar).top = page.bar
                    /\ page.bar <= v.top + 1 /\ ~v.hole => ~Feed!Merged(v, page.bar).hole
          BY <1>3, MergedForm
        <4>6. CASE Feed!Merged(v, page.bar) = v
          BY <2>2, <4>2, <4>4, <4>6
        <4>7. CASE Feed!Merged(v, page.bar) # v
          BY <1>3, <2>2, <4>1, <4>3, <4>4, <4>5, <4>7
        <4> QED
          BY <4>6, <4>7
      <3> QED
        BY <3>1, <3>2
    <2>4. Whole'
      <3>1. ASSUME NEW s \in Seq(Events), Within(s, now)
            PROVE  \A i \in DOMAIN s : ~(s[i].kind = "bar" /\ s[i].at > c.top + 1)
        <4>1. ASSUME NEW i \in DOMAIN s, s[i].at <= now
              PROVE  ~(s[i].at > c.top + 1)
          <5>1. s[i].at \in Nat
            BY SeqForm
          <5> QED
            BY <1>3, <2>3, <4>1, <5>1
        <4> QED
          BY <3>1, <4>1 DEF Within
      <3>2. Preceded(cable, queue, c.top)
        BY <1>1, <3>1 DEF Shapes, Preceded
      <3>3. Reached(cable, queue, c.top, now - 1)
        BY <2>3 DEF Reached
      <3>4. /\ Preceded(cable, queue, chart.top)' <=> Preceded(cable, queue, c.top)
            /\ Reached(cable, queue, chart.top, now - 1)' <=> Reached(cable, queue, c.top, now - 1)
        BY <1>2, <2>3 DEF Preceded, Reached, BarAt
      <3> QED
        BY <2>3, <3>2, <3>3, <3>4 DEF Whole
    <2> QED
      BY <1>2, <2>3, <2>4, PageStep
  <1> QED
    BY <1>4, <1>5 DEF Feed!Show

\* The bars are whole as long as nothing of them moves.
LEMMA WholeKept ==
  ASSUME Whole, UNCHANGED <<Feed!venue, Feed!relay, Feed!sub, Feed!line>>, chart'.hole = chart.hole,
         chart'.top = chart.top
  PROVE  Whole'
  BY DEF Whole, Preceded, Reached, BarAt, Feed!None, Feed!venue, Feed!relay, Feed!sub, Feed!line

\* A quote ends the waiting by a generation that is due.
LEMMA CommitStep ==
  ASSUME FeedInv, Feed!CommitPendingQuote
  PROVE  FeedInv'
  <1>1. Shapes /\ FreshChart /\ Unbroken
    BY DEF FeedInv
  <1>2. /\ UNCHANGED <<Feed!venue, Feed!relay, Feed!sub, Feed!line>> /\ page.pending
        /\ page \in Pages /\ page.bar <= now /\ chart \in Charts
    BY <1>1 DEF Feed!CommitPendingQuote, Shapes
  <1>3. PICK p \in Pages : p = page' /\ p.bar = page.bar
    <2>0. "LIVE" \in States \cup {"STALE"}
      BY DEF States
    <2>1. PICK S : S = States \cup {"STALE"} /\ "LIVE" \in S
      BY <2>0
    <2>2. page \in [status : S, awaiting : BOOLEAN, pending : BOOLEAN, bar : Int,
                    seen : {"NONE", "FRESH", "OLD"}, timer : BOOLEAN]
      BY <1>2, <2>1 DEF Pages
    <2>3. page' = [page EXCEPT !.pending = FALSE, !.awaiting = FALSE, !.status = "LIVE"]
      BY DEF Feed!CommitPendingQuote
    <2>4. /\ page' \in [status : S, awaiting : BOOLEAN, pending : BOOLEAN, bar : Int,
                        seen : {"NONE", "FRESH", "OLD"}, timer : BOOLEAN]
          /\ page'.bar = page.bar
      BY <2>1, <2>2, <2>3
    <2> QED
      BY <2>1, <2>4 DEF Pages
  <1>4. PICK due \in BOOLEAN : due = (chart.due \/ page.awaiting)
    BY <1>1, ShapesForm
  <1>5. chart' = [chart EXCEPT !.due = due]
    BY <1>4 DEF Feed!CommitPendingQuote
  <1>6. /\ chart' \in Charts /\ chart'.due = due /\ chart'.loading = chart.loading
        /\ chart'.hole = chart.hole /\ chart'.top = chart.top
    BY <1>2, <1>5 DEF Charts
  <1>7. Renewing => Renewing'
    <2>1. /\ notice' = notice /\ over' = over
          /\ Told(cable, queue)' <=> Told(cable, queue)
      BY <1>2 DEF Told, Notice, Feed!Status, Feed!venue, Feed!sub, Feed!line
    <2> QED
      BY <1>4, <1>6, <2>1 DEF Renewing
  <1>8. Whole => Whole'
    BY <1>2, <1>6, WholeKept
  <1>9. chart'.loading => ~chart'.hole /\ chart'.top = Feed!None
    BY <1>1, <1>6 DEF FreshChart
  <1>10. page' \in Pages /\ page'.bar <= now
    BY <1>2, <1>3
  <1>11. Renewing' \/ Whole'
    BY <1>1, <1>7, <1>8 DEF Unbroken
  <1> QED
    BY <1>2, <1>6, <1>9, <1>10, <1>11, PageStep

\* Old quotes begin a waiting.
LEMMA AgeStep ==
  ASSUME FeedInv, Feed!Age
  PROVE  FeedInv'
  <1>1. Shapes /\ FreshChart /\ Unbroken
    BY DEF FeedInv
  <1>2. /\ UNCHANGED <<Feed!venue, Feed!relay, Feed!sub, Feed!line>> /\ chart' = chart
        /\ page \in Pages /\ page.bar <= now /\ chart \in Charts /\ now \in Nat
    BY <1>1 DEF Feed!Age, Shapes
  <1>3. chart'.loading => ~chart'.hole /\ chart'.top = Feed!None
    BY <1>1, <1>2 DEF FreshChart
  <1>4. CASE page.timer
    <2>1. PICK seen \in {"NONE", "FRESH", "OLD"} :
            seen = IF page.seen = "FRESH" THEN "OLD" ELSE page.seen
      BY <1>2 DEF Pages
    <2>2. page' = [page EXCEPT !.status = "STALE", !.awaiting = TRUE, !.bar = Feed!None,
                               !.timer = FALSE, !.seen = seen]
      BY <1>4, <2>1 DEF Feed!Age
    <2>3. page' \in Pages /\ page'.awaiting /\ page'.pending = page.pending /\ page'.bar = Feed!None
      <3>1. PICK S : S = States \cup {"STALE"} /\ "STALE" \in S
        OBVIOUS
      <3>2. page \in [status : S, awaiting : BOOLEAN, pending : BOOLEAN, bar : Int,
                      seen : {"NONE", "FRESH", "OLD"}, timer : BOOLEAN]
        BY <1>2, <3>1 DEF Pages
      <3>3. PICK none \in Int : none = Feed!None
        BY DEF Feed!None
      <3>4. PICK p : p = page
        OBVIOUS
      <3>5. PICK q : q = [p EXCEPT !.status = "STALE", !.awaiting = TRUE, !.bar = none,
                                  !.timer = FALSE, !.seen = seen]
        OBVIOUS
      <3>6. q \in [status : S, awaiting : BOOLEAN, pending : BOOLEAN, bar : Int,
                   seen : {"NONE", "FRESH", "OLD"}, timer : BOOLEAN]
        BY <3>1, <3>2, <3>4, <3>5
      <3>7. q.awaiting /\ q.pending = p.pending /\ q.bar = none
        BY <3>2, <3>4, <3>5
      <3> QED
        BY <2>2, <3>1, <3>3, <3>4, <3>5, <3>6, <3>7 DEF Pages
    <2>4. page'.bar <= now
      BY <1>2, <2>3 DEF Feed!None
    <2>5. Renewing'
      BY <2>3 DEF Renewing
    <2>6. page.awaiting /\ ~page.pending => page'.awaiting /\ ~page'.pending
      BY <2>3
    <2> QED
      BY <1>2, <1>3, <2>3, <2>4, <2>5, <2>6, PageStep
  <1>5. CASE ~page.timer
    <2>1. page' = [page EXCEPT !.seen = "OLD"]
      BY <1>5 DEF Feed!Age
    <2>2. /\ page' \in Pages /\ page'.awaiting = page.awaiting /\ page'.pending = page.pending
          /\ page'.bar = page.bar
      BY <1>2, <2>1 DEF Pages
    <2>3. Renewing => Renewing'
      <3>1. /\ notice' = notice /\ over' = over
            /\ Told(cable, queue)' <=> Told(cable, queue)
        BY <1>2 DEF Told, Notice, Feed!Status, Feed!venue, Feed!sub, Feed!line
      <3> QED
        BY <1>2, <2>2, <3>1 DEF Renewing
    <2>4. Whole => Whole'
      BY <1>2, WholeKept
    <2>5. Renewing' \/ Whole'
      BY <1>1, <2>3, <2>4 DEF Unbroken
    <2>6. page.awaiting /\ ~page.pending => page'.awaiting /\ ~page'.pending
      BY <2>2
    <2> QED
      BY <1>2, <1>3, <2>2, <2>5, <2>6, PageStep
  <1> QED
    BY <1>4, <1>5

\* What the server says of itself: only LIVE leaves the page as it was.
LEMMA ApplyForm ==
  ASSUME NEW p \in Pages, NEW s \in States
  PROVE  /\ Feed!ApplyServerStatus(p, s) \in Pages
         /\ Feed!ApplyServerStatus(p, s).bar \in {p.bar, Feed!None}
         /\ s # "LIVE" => Feed!ApplyServerStatus(p, s).awaiting /\ ~Feed!ApplyServerStatus(p, s).pending
         /\ s = "LIVE" => /\ Feed!ApplyServerStatus(p, s).awaiting = p.awaiting
                          /\ Feed!ApplyServerStatus(p, s).pending = p.pending
  <1>1. CASE s # "LIVE"
    <2>1. PICK seen \in {"NONE", "FRESH", "OLD"} : seen = p.seen
      BY DEF Pages
    <2> QED
      BY <1>1, <2>1, AwaitingForm DEF Feed!ApplyServerStatus
  <1>2. CASE s = "LIVE"
    <2>1. PICK S : S = States \cup {"STALE"}
      OBVIOUS
    <2>2. p \in [status : S, awaiting : BOOLEAN, pending : BOOLEAN, bar : Int,
                 seen : {"NONE", "FRESH", "OLD"}, timer : BOOLEAN]
      BY <2>1 DEF Pages
    <2>3. PICK status \in S : status = IF p.seen # "FRESH" THEN "STALE" ELSE "LIVE"
      BY <1>2, <2>1
    <2>4. PICK bar \in Int :
            bar = (IF p.seen # "FRESH" THEN Feed!None ELSE p.bar) /\ bar \in {p.bar, Feed!None}
      BY <2>2 DEF Feed!None
    <2>5. PICK q : q = [p EXCEPT !.status = status, !.bar = bar, !.timer = TRUE]
      OBVIOUS
    <2>6. /\ q \in [status : S, awaiting : BOOLEAN, pending : BOOLEAN, bar : Int,
                    seen : {"NONE", "FRESH", "OLD"}, timer : BOOLEAN]
      BY <2>2, <2>5
    <2>7. q.bar = bar /\ q.awaiting = p.awaiting /\ q.pending = p.pending
      BY <2>2, <2>5
    <2>8. Feed!ApplyServerStatus(p, s) = q
      BY <1>2, <2>3, <2>4, <2>5 DEF Feed!ApplyServerStatus
    <2> QED
      BY <1>2, <2>1, <2>4, <2>6, <2>7, <2>8 DEF Pages
  <1> QED
    BY <1>1, <1>2

\* The page takes the head of the wire, be it usable or not.
LEMMA TakenStep ==
  ASSUME FeedInv, socket = "OPEN", cable # <<>>, cable' = Tail(cable),
         UNCHANGED <<Feed!venue, Feed!relay, Feed!sub, socket>>,
         page' \in Pages, page'.bar <= now, chart' \in Charts,
         Head(cable) = Notice => page'.awaiting /\ ~page'.pending,
         chart'.loading => ~chart'.hole /\ chart'.top = Feed!None,
         Renewing' \/ Whole'
  PROVE  FeedInv'
  <1>1. Shapes /\ Bounded /\ Routed
    BY DEF FeedInv
  <1>2. cable \in Seq(Events) /\ cable' \in Seq(Events) /\ now \in Int
    BY <1>1, TailForm DEF Shapes
  <1>3. Within(cable', now)
    BY <1>1, <1>2, Taken DEF Shapes
  <1>4. Shapes'
    BY <1>1, <1>2, <1>3 DEF Shapes, Feed!venue, Feed!relay, Feed!sub
  <1>5. Away' /\ Routed' /\ FreshChart'
    BY <1>1 DEF Away, Routed, FreshChart, Feed!venue, Feed!relay, Feed!None
  <1>6. Bounded'
    <2>1. Notice' = Notice /\ boundary' = boundary
      BY DEF Notice, Feed!Status, Feed!sub
    <2>2. PICK w \in Seq(Events) : w = cable
      BY <1>2
    <2>3. PICK v \in Seq(Events) : v = Tail(w) /\ v = cable'
      BY <1>2, <2>2
    <2>4. /\ DOMAIN v = 1..(Len(w) - 1) /\ Head(w) = w[1] /\ 1 \in DOMAIN w
          /\ \A i \in 1..(Len(w) - 1) : v[i] = w[i + 1]
          /\ Len(w) \in Nat /\ Len(v) \in Nat /\ DOMAIN v = 1..Len(v) /\ DOMAIN w = 1..Len(w)
      BY <2>2, <2>3, TailForm, SeqForm
    <2>5. Len(w) >= 1 /\ Len(v) = Len(w) - 1 /\ Len(w) \in Nat
      BY <2>3, <2>4, HeadTailProperties
    <2>6. ASSUME boundary
          PROVE  w[Len(w)] = Notice
      BY <1>1, <2>2, <2>6 DEF Bounded
    <2>7. CASE v = <<>>
      <3>0. Len(v) = 0
        BY <2>7
      <3>1. Len(w) = 1
        BY <2>5, <3>0
      <3> QED
        BY <2>1, <2>2, <2>3, <2>4, <2>6, <2>7, <3>1 DEF Bounded
    <2>8. CASE v # <<>>
      <3>1. Len(v) # 0
        BY <2>8, EmptySeq
      <3>2. v[Len(v)] = w[Len(w)]
        <4>1. Len(v) \in 1..(Len(w) - 1) /\ Len(v) + 1 = Len(w)
          BY <2>4, <2>5, <3>1
        <4> QED
          BY <2>4, <4>1
      <3> QED
        BY <2>1, <2>3, <2>6, <2>8, <3>2 DEF Bounded
    <2> QED
      BY <2>7, <2>8
  <1> QED
    BY <1>4, <1>5, <1>6 DEF FeedInv, Unbroken

\* A bar that a whole chart takes follows its last one.
LEMMA ReceiveStep ==
  ASSUME FeedInv, Feed!Receive
  PROVE  FeedInv'
  <1>1. Shapes /\ FreshChart /\ Unbroken
    BY DEF FeedInv
  <1>2. PICK h : h = Head(cable)
    OBVIOUS
  <1>3. /\ socket = "OPEN" /\ cable # <<>> /\ cable' = Tail(cable)
        /\ UNCHANGED <<Feed!venue, Feed!relay, Feed!sub, socket>>
        /\ now' = now /\ queue' = queue /\ notice' = notice /\ over' = over
        /\ route' = route /\ clients' = clients
        /\ \/ Feed!Timely(h) /\ Feed!ReceiveUsable(h)
           \/ Feed!Untimely(h) /\ Feed!ReceiveUntimely(h)
    BY <1>2 DEF Feed!Receive, Feed!venue, Feed!sub, Feed!relay
  <1>4. /\ cable \in Seq(Events) /\ queue \in Seq(Events) /\ page \in Pages /\ page.bar <= now
        /\ chart \in Charts /\ Within(cable, now)
    BY <1>1 DEF Shapes
  <1>5. /\ now \in Int /\ now - 1 \in Int /\ now > 0 /\ chart.top \in Int
    BY <1>1, ShapesForm
  <1>6. PICK v \in Seq(Events) : v = Tail(cable) /\ v = cable'
    BY <1>3, <1>4, TailForm
  <1>7. h \in Events /\ h.kind \in {"quote", "bar", "status"} /\ h.at \in Nat /\ h.state \in States
    <2>1. h \in Events
      BY <1>2, <1>3, <1>4, TailForm
    <2> QED
      BY <2>1 DEF Events
  <1>8. ASSUME NEW b \in Int, NEW n \in Int
        PROVE  /\ Told(cable, queue) => h = Notice \/ Told(v, queue)
               /\ Within(cable, n) => (h.kind = "bar" => h.at <= n)
               /\ h.kind # "bar" =>
                    /\ Preceded(cable, queue, b) => Preceded(v, queue, b)
                    /\ Reached(cable, queue, b, n) => Reached(v, queue, b, n)
               /\ h.kind = "bar" =>
                    \A c \in Int : c >= b /\ c >= h.at =>
                      /\ Preceded(cable, queue, b) => h.at <= b + 1 /\ Preceded(v, queue, c)
                      /\ Reached(cable, queue, b, n) => Reached(v, queue, c, n)
    BY <1>2, <1>3, <1>4, <1>6, Taken
  <1>9. /\ Told(cable, queue)' <=> Told(v, queue)
        /\ Notice.kind = "status" /\ Notice.state = "RECONNECTING"
    BY <1>3, <1>6 DEF Told, Notice, Feed!Status
  <1>10. ASSUME NEW c \in Charts, chart' = c, c.top # Feed!None =>
                  /\ Preceded(v, queue, c.top)
                  /\ "market" \in route \/ clients = "STARTING" => Reached(v, queue, c.top, now - 1),
                ~c.hole
         PROVE  Whole'
    <2>1. /\ Preceded(cable, queue, chart.top)' <=> Preceded(v, queue, c.top)
          /\ Reached(cable, queue, chart.top, now - 1)' <=> Reached(v, queue, c.top, now - 1)
      BY <1>3, <1>6, <1>10 DEF Preceded, Reached, BarAt
    <2> QED
      BY <1>3, <1>10, <2>1 DEF Whole, Feed!None
  <1>11. CASE Feed!Untimely(h) /\ Feed!ReceiveUntimely(h)
    <2>1. page' = Feed!Awaiting(page, "STALE", "NONE", FALSE) /\ chart' = chart
      BY <1>11 DEF Feed!ReceiveUntimely
    <2>2. page' \in Pages /\ page'.awaiting /\ ~page'.pending /\ page'.bar = Feed!None
      BY <1>4, <2>1, AwaitingForm
    <2>3. page'.bar <= now
      BY <1>5, <2>2 DEF Feed!None
    <2>4. Renewing'
      BY <2>2 DEF Renewing
    <2> QED
      BY <1>1, <1>3, <1>4, <2>1, <2>2, <2>3, <2>4, TakenStep DEF FreshChart
  <1>12. CASE Feed!ReceiveUsable(h) /\ h.kind = "status"
    <2>1. page' = Feed!ApplyServerStatus(page, h.state) /\ chart' = chart
      BY <1>12 DEF Feed!ReceiveUsable
    <2>2. /\ page' \in Pages /\ page'.bar \in {page.bar, Feed!None}
          /\ h.state # "LIVE" => page'.awaiting /\ ~page'.pending
          /\ h.state = "LIVE" => page'.awaiting = page.awaiting
      BY <1>4, <1>7, <2>1, ApplyForm
    <2>3. page'.bar <= now
      BY <1>4, <1>5, <2>2 DEF Feed!None
    <2>4. h = Notice => page'.awaiting /\ ~page'.pending
      BY <1>9, <2>2
    <2>5. Renewing' \/ Whole'
      <3>1. CASE h.state # "LIVE"
        BY <2>2, <3>1 DEF Renewing
      <3>2. CASE h.state = "LIVE"
        <4>1. h # Notice
          BY <1>9, <3>2
        <4>2. Told(cable, queue) => Told(v, queue)
          BY <1>5, <1>8, <4>1
        <4>3. Renewing => Renewing'
          BY <1>3, <1>9, <2>1, <2>2, <3>2, <4>2 DEF Renewing
        <4>4. Whole => Whole'
          BY <1>4, <1>5, <1>8, <1>10, <1>12, <2>1 DEF Whole
        <4> QED
          BY <1>1, <4>3, <4>4 DEF Unbroken
      <3> QED
        BY <3>1, <3>2
    <2> QED
      BY <1>1, <1>2, <1>3, <1>4, <2>1, <2>2, <2>3, <2>4, <2>5, TakenStep DEF FreshChart
  <1>13. CASE Feed!ReceiveUsable(h) /\ h.kind = "quote"
    <2>1. page' = [page EXCEPT !.seen = "FRESH", !.timer = TRUE, !.pending = TRUE] /\ chart' = chart
      BY <1>13 DEF Feed!ReceiveUsable
    <2>2. page' \in Pages /\ page'.bar = page.bar /\ page'.awaiting = page.awaiting
      <3>1. PICK S : S = States \cup {"STALE"}
        OBVIOUS
      <3>2. page \in [status : S, awaiting : BOOLEAN, pending : BOOLEAN, bar : Int,
                      seen : {"NONE", "FRESH", "OLD"}, timer : BOOLEAN]
        BY <1>4, <3>1 DEF Pages
      <3>3. PICK p : p = page
        OBVIOUS
      <3>4. PICK q : q = [p EXCEPT !.seen = "FRESH", !.timer = TRUE, !.pending = TRUE]
        OBVIOUS
      <3>5. q \in [status : S, awaiting : BOOLEAN, pending : BOOLEAN, bar : Int,
                   seen : {"NONE", "FRESH", "OLD"}, timer : BOOLEAN]
        BY <3>2, <3>3, <3>4
      <3>6. q.awaiting = p.awaiting /\ q.bar = p.bar
        BY <3>2, <3>3, <3>4
      <3> QED
        BY <2>1, <3>1, <3>3, <3>4, <3>5, <3>6 DEF Pages
    <2>3. h # Notice /\ h.kind # "bar"
      BY <1>9, <1>13
    <2>4. Told(cable, queue) => Told(v, queue)
      BY <1>5, <1>8, <2>3
    <2>5. Renewing => Renewing'
      BY <1>3, <1>9, <2>1, <2>2, <2>4 DEF Renewing
    <2>6. Whole => Whole'
      BY <1>4, <1>5, <1>8, <1>10, <2>1, <2>3 DEF Whole
    <2>7. Renewing' \/ Whole'
      BY <1>1, <2>5, <2>6 DEF Unbroken
    <2> QED
      BY <1>1, <1>2, <1>3, <1>4, <2>1, <2>2, <2>3, <2>7, TakenStep DEF FreshChart
  <1>14. CASE Feed!Timely(h) /\ Feed!ReceiveUsable(h) /\ h.kind = "bar"
    <2>1. page' = [page EXCEPT !.bar = h.at] /\ chart' = Feed!Merged(chart, h.at)
      BY <1>14 DEF Feed!ReceiveUsable
    <2>2. /\ page' \in Pages /\ page'.bar = h.at /\ page'.awaiting = page.awaiting
      <3>1. PICK n \in Int : n = h.at
        BY <1>7
      <3>2. page' = [page EXCEPT !.bar = n]
        BY <2>1, <3>1
      <3> QED
        BY <1>4, <3>1, <3>2 DEF Pages
    <2>3. page'.bar <= now
      BY <1>4, <1>5, <1>8, <1>14, <2>2
    <2>4. PICK n \in Int : n = h.at
      BY <1>7
    <2>5. PICK c \in Charts :
            /\ c = chart' /\ c.due = chart.due /\ c.loading = chart.loading
            /\ \/ c = chart /\ (chart.loading \/ chart.top = Feed!None \/ n <= chart.top \/ now > n + 1)
               \/ /\ ~chart.loading /\ chart.top # Feed!None /\ n > chart.top
                  /\ c.top = n
                  /\ n <= chart.top + 1 /\ ~chart.hole => ~c.hole
      BY <1>4, <1>5, <2>1, <2>4, MergedForm
    <2>6. h # Notice
      BY <1>9, <1>14
    <2>7. Told(cable, queue) => Told(v, queue)
      BY <1>5, <1>8, <2>6
    <2>8. Renewing => Renewing'
      BY <1>3, <1>9, <2>2, <2>5, <2>7 DEF Renewing
    <2>9. c.loading => ~c.hole /\ c.top = Feed!None
      BY <1>1, <2>5 DEF FreshChart
    <2>10. ASSUME Whole, ~Renewing
           PROVE  Whole'
      <3>1. CASE chart.top = Feed!None
        <4>1. c = chart
          BY <2>5, <3>1
        <4> QED
          BY <1>10, <2>5, <2>10, <3>1, <4>1 DEF Whole
      <3>2. CASE chart.top # Feed!None
        <4>1. /\ Preceded(cable, queue, chart.top) /\ ~chart.hole /\ ~chart.loading
              /\ "market" \in route \/ clients = "STARTING" => Reached(cable, queue, chart.top, now - 1)
          BY <2>10, <3>2 DEF Whole, Renewing
        <4>2. n <= chart.top + 1
          <5>1. PICK m \in Int : m >= chart.top /\ m >= n
            <6>1. chart.top >= n \/ n >= chart.top
              BY <1>5
            <6>2. chart.top >= chart.top /\ n >= n
              BY <1>5
            <6> QED
              BY <1>5, <6>1, <6>2
          <5> QED
            BY <1>5, <1>8, <1>14, <2>4, <4>1, <5>1
        <4>3. ~(now > n + 1)
          BY <1>5, <1>7, <1>14, <2>4 DEF Feed!Timely
        <4>4. c.top \in Int /\ c.top >= chart.top /\ c.top >= n /\ ~c.hole
          <5>1. CASE c = chart
            BY <1>5, <2>5, <3>2, <4>1, <4>3, <5>1
          <5>2. CASE c # chart
            BY <1>5, <2>5, <4>1, <4>2, <5>2
          <5> QED
            BY <5>1, <5>2
        <4>5. /\ Preceded(v, queue, c.top)
              /\ "market" \in route \/ clients = "STARTING" => Reached(v, queue, c.top, now - 1)
          BY <1>5, <1>8, <1>14, <2>4, <4>1, <4>4
        <4> QED
          BY <1>10, <2>5, <4>4, <4>5
      <3> QED
        BY <3>1, <3>2
    <2>11. Renewing' \/ Whole'
      BY <1>1, <2>8, <2>10 DEF Unbroken
    <2> QED
      BY <1>2, <1>3, <2>2, <2>3, <2>5, <2>6, <2>9, <2>11, TakenStep
  <1> QED
    BY <1>3, <1>7, <1>11, <1>12, <1>13, <1>14

\* A page that lost its socket, or the start of its clients, waits for quotes.
LEMMA DropStep ==
  ASSUME FeedInv, Feed!Drop \/ Feed!StartFails
  PROVE  FeedInv'
  <1>1. Shapes /\ FreshChart /\ Routed /\ page \in Pages /\ now \in Nat
    BY DEF FeedInv, Shapes
  <1>2. ASSUME Feed!Closed("RECONNECTING"), Feed!Unsubscribed, chart' = chart, now' = now,
               server' \in States, route' \subseteq Feed!Routes, route' # {} => clients' # "NONE"
        PROVE  FeedInv'
    <2>1. PICK seen \in {"NONE", "FRESH", "OLD"} : seen = page.seen
      BY <1>1 DEF Pages
    <2>2. page' = Feed!Awaiting(page, "RECONNECTING", seen, FALSE) /\ socket' = "NONE"
      BY <1>2, <2>1 DEF Feed!Closed
    <2>3. page' \in Pages /\ page'.awaiting /\ ~page'.pending /\ page'.bar = Feed!None
      BY <1>1, <2>2, AwaitingForm DEF States
    <2>4. page'.bar <= now
      BY <1>1, <2>3 DEF Feed!None
    <2>5. /\ queue' = <<>> /\ cable' = <<>> /\ over' = FALSE /\ boundary' = FALSE
          /\ queue' \in Seq(Events) /\ cable' \in Seq(Events)
          /\ Within(queue', now) /\ Within(cable', now)
      BY <1>2 DEF Feed!Unsubscribed, Within
    <2>6. Shapes'
      BY <1>1, <1>2, <2>3, <2>4, <2>5 DEF Shapes
    <2>7. Away' /\ Bounded' /\ FreshChart' /\ Routed' /\ Unbroken'
      BY <1>1, <1>2, <2>3, <2>5 DEF Away, Bounded, FreshChart, Routed, Unbroken, Renewing, Feed!None
    <2> QED
      BY <2>6, <2>7 DEF FeedInv
  <1>3. CASE Feed!Drop
    BY <1>1, <1>2, <1>3 DEF Feed!Drop, Feed!venue, Feed!relay, Shapes, Routed
  <1>4. CASE Feed!StartFails /\ socket = "WAITING"
    BY <1>1, <1>2, <1>4 DEF Feed!StartFails, States
  <1>5. CASE Feed!StartFails /\ socket # "WAITING"
    <2>1. PICK e \in Events : e = Feed!Status("FAILED") /\ e.kind = "status"
      BY StatusForm DEF States
    <2>2. /\ Feed!Publish(<<e>>) /\ cable' = cable /\ page' = page /\ chart' = chart /\ socket' = socket
          /\ route' = {} /\ clients' = "NONE" /\ now' = now /\ notice' = notice
          /\ server' = "FAILED"
      BY <1>5, <2>1 DEF Feed!StartFails, Feed!line
    <2> QED
      BY <2>1, <2>2, PublishingStep DEF States
  <1> QED
    BY <1>3, <1>4, <1>5

\* Time passes when the bar that closes has been sent, or its route is down.
LEMMA TickStep ==
  ASSUME FeedInv, Feed!Tick
  PROVE  FeedInv'
  <1>1. Shapes /\ Away /\ Bounded /\ FreshChart /\ Routed /\ Unbroken
    BY DEF FeedInv
  <1>2. now' = now + 1 /\ clients # "STARTING"
    BY DEF Feed!Tick
  <1>3. CASE "market" \in route /\ ~Feed!Contains(queue, Feed!Bar)
    <2>1. Feed!Decode("market", Feed!Bar)
      BY <1>3 DEF Feed!Tick
    <2>2. Feed!Bar.kind = "bar"
      BY DEF Feed!Bar
    <2> QED
      BY <1>2, <2>1, <2>2, DecodeStep DEF Feed!Routes
  <1>4. CASE ~("market" \in route /\ ~Feed!Contains(queue, Feed!Bar))
    <2>1. UNCHANGED <<route, notice, Feed!relay, Feed!sub, Feed!line, page, chart>>
      BY <1>4 DEF Feed!Tick
    <2>2. /\ queue \in Seq(Events) /\ cable \in Seq(Events) /\ now \in Int /\ now > 0
          /\ page.bar \in Int /\ page.bar <= now /\ Within(cable, now) /\ Within(queue, now)
      BY <1>1, ShapesForm DEF Shapes
    <2>3. Shapes'
      <3>1. ASSUME NEW s \in Seq(Events), Within(s, now)
            PROVE  Within(s, now')
        <4>1. ASSUME NEW i \in DOMAIN s, s[i].at <= now
              PROVE  s[i].at <= now'
          <5>1. s[i].at \in Nat
            BY SeqForm
          <5> QED
            BY <1>2, <2>2, <4>1, <5>1
        <4> QED
          BY <3>1, <4>1 DEF Within
      <3>2. Within(cable, now') /\ Within(queue, now')
        BY <2>2, <3>1
      <3>3. now' \in Nat \ {0} /\ page.bar <= now'
        BY <1>2, <2>2
      <3> QED
        BY <1>1, <2>1, <3>2, <3>3 DEF Shapes, Feed!relay, Feed!sub, Feed!line
    <2>4. Away' /\ Bounded' /\ FreshChart' /\ Routed'
      BY <1>1, <2>1 DEF Away, Bounded, FreshChart, Routed,
        Feed!relay, Feed!sub, Feed!line, Notice, Feed!Status, Feed!None
    <2>5. Renewing => Renewing'
      BY <2>1 DEF Renewing, Told, Notice, Feed!Status, Feed!sub, Feed!line
    <2>6. Whole => Whole'
      <3>1. ASSUME "market" \in route
            PROVE  Reached(cable, queue, chart.top, now)
        <4>1. PICK i \in 1..Len(queue) : queue[i] = Feed!Bar
          BY <1>4, <3>1 DEF Feed!Contains
        <4>2. Feed!Bar.kind = "bar" /\ Feed!Bar.at = now
          BY DEF Feed!Bar
        <4>3. i \in DOMAIN queue /\ now >= now
          BY <2>2, SeqForm
        <4> QED
          BY <4>1, <4>2, <4>3 DEF Reached
      <3>2. now' - 1 = now /\ clients' # "STARTING" /\ chart' = chart /\ route' = route
            /\ cable' = cable /\ queue' = queue
        BY <1>2, <2>1, <2>2 DEF Feed!relay, Feed!sub, Feed!line
      <3>3. /\ Preceded(cable, queue, chart.top)' <=> Preceded(cable, queue, chart.top)
            /\ Reached(cable, queue, chart.top, now - 1)' <=> Reached(cable, queue, chart.top, now)
        BY <3>2 DEF Preceded, Reached, BarAt
      <3> QED
        BY <3>1, <3>2, <3>3 DEF Whole, Feed!None
    <2> QED
      BY <1>1, <2>3, <2>4, <2>5, <2>6 DEF FeedInv, Unbroken
  <1> QED
    BY <1>3, <1>4

\* The page begins by loading.
LEMMA FeedInit ==
  ASSUME Feed!Init
  PROVE  FeedInv
  <1>1. page \in Pages /\ page.bar = Feed!None /\ page.awaiting /\ ~page.pending
    BY DEF Feed!Init, Pages, States, Feed!None
  <1>2. chart \in Charts /\ ~chart.hole /\ chart.loading /\ chart.top = Feed!None
    BY DEF Feed!Init, Charts, Feed!None
  <1>3. /\ now = 1 /\ queue = <<>> /\ cable = <<>> /\ over = FALSE /\ boundary = FALSE
        /\ server = "CONNECTING" /\ route = {}
    BY DEF Feed!Init
  <1>4. /\ queue \in Seq(Events) /\ cable \in Seq(Events)
        /\ Within(queue, now) /\ Within(cable, now)
    BY <1>3 DEF Within
  <1>5. now \in Nat \ {0} /\ page.bar <= now
    BY <1>1, <1>3 DEF Feed!None
  <1>6. Shapes
    BY <1>1, <1>2, <1>3, <1>4, <1>5 DEF Shapes, States
  <1>7. Away /\ Bounded /\ FreshChart /\ Routed /\ Unbroken
    BY <1>1, <1>2, <1>3 DEF Away, Bounded, FreshChart, Routed, Unbroken, Renewing
  <1> QED
    BY <1>6, <1>7 DEF FeedInv

\* Every step keeps the invariant.
LEMMA FeedStep ==
  ASSUME FeedInv, [Feed!Next]_(Feed!vars)
  PROVE  FeedInv'
  <1>1. CASE Feed!SendQuote \/ Feed!SendBar
    BY <1>1, SendStep
  <1>2. CASE \E r \in Feed!Routes : Feed!Lose(r) \/ Feed!Resubscribe(r)
    BY <1>2, LoseStep
  <1>3. CASE Feed!Relay
    BY <1>3, ForwardStep, ResumeStep, StartedStep, DropStep, ReconnectedStep DEF Feed!Relay
  <1>4. CASE Feed!Connect
    BY <1>4, ConnectStep
  <1>5. CASE Feed!Drop
    BY <1>5, DropStep
  <1>6. CASE Feed!Receive
    BY <1>6, ReceiveStep
  <1>7. CASE Feed!CommitPendingQuote
    BY <1>7, CommitStep
  <1>8. CASE Feed!Age
    BY <1>8, AgeStep
  <1>9. CASE Feed!Load
    BY <1>9, LoadStep
  <1>10. CASE Feed!Show
    BY <1>10, ShowStep
  <1>11. CASE Feed!Tick
    BY <1>11, TickStep
  <1>12. CASE UNCHANGED Feed!vars
    <2>1. UNCHANGED <<Feed!venue, Feed!relay, Feed!sub, Feed!line, page, chart>>
      BY <1>12 DEF Feed!vars
    <2>2. Shapes /\ FreshChart /\ Unbroken
      BY DEF FeedInv
    <2>3. chart'.loading => ~chart'.hole /\ chart'.top = Feed!None
      BY <2>1, <2>2 DEF FreshChart
    <2>4. Renewing => Renewing'
      BY <2>1 DEF Renewing, Told, Notice, Feed!Status, Feed!venue, Feed!sub, Feed!line
    <2>5. Whole => Whole'
      BY <2>1, WholeKept
    <2>6. Renewing' \/ Whole'
      BY <2>2, <2>4, <2>5 DEF Unbroken
    <2> QED
      BY <2>1, <2>2, <2>3, <2>6, PageStep DEF Shapes
  <1> QED
    BY <1>1, <1>2, <1>3, <1>4, <1>5, <1>6, <1>7, <1>8, <1>9, <1>10, <1>11, <1>12 DEF Feed!Next

\* The invariant holds in every reachable state, for any capacity of the queue and any
\* number of faults.
THEOREM FeedInvariance == Feed!Spec => []FeedInv
  <1>1. Feed!Init => FeedInv
    BY FeedInit
  <1>2. FeedInv /\ [Feed!Next]_(Feed!vars) => FeedInv'
    BY FeedStep
  <1> QED
    BY <1>1, <1>2, PTL DEF Feed!Spec

\* NoSilentHole: a bar missing in the middle of the chart is never taken for the market. The
\* page waits for quotes, has a new window due or loading, or the notice that sends it there
\* is on its way (marketStream.ts, public_market_stream.py _put).
THEOREM HolesAreAnnounced == Feed!Spec => []Feed!NoSilentHole
  <1>1. FeedInv => Feed!NoSilentHole
    <2>1. ASSUME FeedInv, chart.hole, ~page.awaiting, ~chart.due, ~chart.loading, notice = {}, ~over
          PROVE  Feed!Contains(queue \o cable, Feed!Status("RECONNECTING"))
      <3>1. Shapes /\ Told(cable, queue)
        BY <2>1 DEF FeedInv, Unbroken, Renewing, Whole
      <3>2. queue \in Seq(Events) /\ cable \in Seq(Events)
        BY <3>1 DEF Shapes
      <3>3. PICK s \in Seq(Events) : s = queue \o cable
        BY <3>2, ConcatForm
      <3>4. /\ DOMAIN s = 1..(Len(queue) + Len(cable)) /\ DOMAIN s = 1..Len(s)
            /\ \A i \in 1..Len(queue) : s[i] = queue[i]
            /\ \A i \in 1..Len(cable) : s[Len(queue) + i] = cable[i]
            /\ Len(queue) \in Nat /\ Len(cable) \in Nat
            /\ DOMAIN queue = 1..Len(queue) /\ DOMAIN cable = 1..Len(cable)
        BY <3>2, <3>3, ConcatForm, SeqForm
      <3>5. CASE \E j \in DOMAIN cable : cable[j] = Notice
        <4>1. PICK j \in 1..Len(cable) : cable[j] = Notice
          BY <3>4, <3>5
        <4>2. Len(queue) + j \in 1..Len(s) /\ s[Len(queue) + j] = Notice
          BY <3>4, <4>1
        <4> QED
          BY <3>3, <4>2 DEF Feed!Contains, Notice
      <3>6. CASE \E j \in DOMAIN queue : queue[j] = Notice
        <4>1. PICK j \in 1..Len(queue) : queue[j] = Notice
          BY <3>4, <3>6
        <4>2. j \in 1..Len(s) /\ s[j] = Notice
          BY <3>4, <4>1
        <4> QED
          BY <3>3, <4>2 DEF Feed!Contains, Notice
      <3> QED
        BY <3>1, <3>5, <3>6 DEF Told
    <2> QED
      BY <2>1 DEF Feed!NoSilentHole
  <1> QED
    BY <1>1, FeedInvariance, PTL

================================================================================
