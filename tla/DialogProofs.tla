---------------------------- MODULE DialogProofs ----------------------------
(***************************************************************************)
(* Theorems about what the pages tell of a purchase under way.             *)
(*                                                                         *)
(* RunConsole: what the dialog of a run says of money is what was charged, *)
(* or will be.  Its messages are read late, and one by one, so the         *)
(* invariant speaks of every reading that the messages on their way will   *)
(* make of it, and ties the last of them to how far the task has come.     *)
(*                                                                         *)
(* IncidentView, in the second half: no lane contradicts another or the    *)
(* incident, and what is told of an order's money is what became of it.    *)
(***************************************************************************)
EXTENDS RunConsole, IncidentView, Totals

-----------------------------------------------------------------------------
\* Steps of a stream.
Kinds == {"discovered", "quote", "no_provider", "unavailable", "over_budget", "authorization",
          "authorization_failed", "selected", "payment_required", "paying", "denied", "refused",
          "settled", "result", "service_failed", "payment_failed", "audited", "audit_pending",
          "done", "error"}

\* Those that show money moved, those that promise none did, and those after
\* which no stage of paying and delivering may be shown as done.
PaidKinds == {"settled", "result", "audited"}
FreeKinds == {"no_provider", "unavailable", "over_budget", "denied", "refused", "service_failed"}
LostKinds == FreeKinds \cup {"payment_failed"}

\* What the dialog has made of the stream: what it has seen, and whom it
\* shows as chosen.
Somebody == Providers \cup {NoOne}
Readings == [seen : SUBSET Kinds, who : Somebody]
Frames == [step : Kinds, provider : Somebody]

Now == [seen |-> run, who |-> chosen]

After(r, f) ==
  [seen |-> Reduce(r.seen, f.step), who |-> IF f.step = "selected" THEN f.provider ELSE r.who]

\* Who has been charged for good, and nobody else ever will be.
Payee == {p \in Providers : BillShown = {p} /\ (mine = "current" => step = "bought")}

\* Readings that show nothing false about money or stages, if it is one of
\* payees who was paid.
Sound(payees) ==
  {r \in Readings :
    /\ r.seen \cap PaidKinds # {} => r.who \in payees
    /\ "audited" \in r.seen => "result" \in r.seen
    /\ r.seen \cap LostKinds # {} => r.seen \cap PaidKinds = {}
    /\ "no_provider" \in r.seen => r.seen \cap {"quote", "selected"} = {}
    /\ r.seen \cap {"over_budget", "unavailable"} # {} => "selected" \notin r.seen}

\* p is the one whose paying request is out; those before it failed.
OnlyTry(p) ==
  /\ p \in Providers
  /\ Quote(p) \in sent
  /\ \A other \in Providers \ {p} :
       Quote(other) \in sent => phase[Quote(other)] = "forfeited" /\ other \notin offers

\* The reading the whole stream comes to, next to how far the task is.
Told(r) ==
  /\ r.seen \cap FreeKinds # {} => BillShown = {}
  /\ mine = "current" =>
       /\ step = "trying" => r.seen \cap LostKinds \subseteq {"service_failed"}
       /\ step \in {"paying", "bought"} => r.seen \cap LostKinds = {} /\ OnlyTry(r.who)
       /\ step = "bought" => "result" \in r.seen

FlowInv ==
  /\ busy = "run" => order = 1 /\ step \in {"trying", "paying", "bought", "stopped"}
  /\ busy # "run" => order = 0 /\ step = "none" /\ sent = {} /\ answered = {}

PurchaseInv ==
  /\ sent \subseteq {Quote(p) : p \in Providers}
  /\ \A p \in Providers : p \in offers \/ Quote(p) \in sent => Price[p] <= budget
  /\ step = "trying" =>
       /\ answered = {}
       /\ \A p \in Providers :
            Quote(p) \in sent => phase[Quote(p)] = "forfeited" /\ p \notin offers
  /\ step \in {"paying", "bought"} => answered = {} /\ \E p \in Providers : OnlyTry(p)
  /\ step = "bought" =>
       \E p \in Providers : OnlyTry(p) /\ phase[Quote(p)] = "charged"

DialogInv ==
  /\ running <=> link = "open"
  /\ link # "open" => frames = <<>>
  /\ link = "none" <=> mine = "none"
  /\ link = "ended" => mine = "over"
  /\ mine = "current" => busy = "run" /\ budget <= asked
  /\ mine = "over" => busy # "run"
  /\ mine # "over" => owed = {}
  /\ \A p \in owed : Price[p] <= asked

\* Each message changes what was made of those before it; all that is made
\* of said, from start to last, is in S.
Heard(start, said, S, last) ==
  \E f \in [0..Len(said) -> S] :
    /\ f[0] = start
    /\ f[Len(said)] = last
    /\ \A i \in 1..Len(said) : f[i] = After(f[i - 1], said[i])

StreamInv ==
  /\ link = "lost" => Now \in Sound(Payee)
  /\ link # "lost" =>
       \E last \in Readings : Heard(Now, frames, Sound(Payee), last) /\ Told(last)

TypeInv ==
  /\ PurchaseTypeOK
  /\ failures \in BOOLEAN
  /\ answered \subseteq Quotes
  /\ frames \in Seq(Frames)
  /\ Now \in Readings
  /\ cap \in Nat /\ asked \in Nat
  /\ owed \subseteq Providers
  /\ mine \in {"none", "current", "over"}
  /\ link \in {"none", "open", "lost", "ended"}

Inv == TypeInv /\ FlowInv /\ PurchaseInv /\ DialogInv /\ StreamInv

-----------------------------------------------------------------------------
(***************************************************************************)
(* What is heard.  Messages are added at one end of the stream and read at *)
(* the other.                                                              *)
(***************************************************************************)

LEMMA HeardNothing ==
  ASSUME NEW S, NEW r \in S
  PROVE  Heard(r, <<>>, S, r)
<1> DEFINE f == [i \in 0..0 |-> r]
<1>1. f \in [0..0 -> S] /\ f[0] = r
  OBVIOUS
<1> HIDE DEF f
<1>2. f \in [0..Len(<<>>) -> S] /\ f[Len(<<>>)] = r
  BY <1>1, Len(<<>>) = 0
<1> QED
  BY <1>1, <1>2, \A i \in 1..Len(<<>>) : FALSE DEF Heard

LEMMA HeardAll ==
  ASSUME NEW S, NEW r, NEW last, Heard(r, <<>>, S, last)
  PROVE  last = r
BY Len(<<>>) = 0 DEF Heard

LEMMA HeardFirst ==
  ASSUME NEW S, NEW r, NEW last, NEW said \in Seq(Frames), Heard(r, said, S, last)
  PROVE  r \in S /\ last \in S
BY Len(said) \in Nat DEF Heard

LEMMA HeardMore ==
  ASSUME NEW S, NEW T, S \subseteq T,
         NEW r, NEW last, NEW said \in Seq(Frames), Heard(r, said, S, last)
  PROVE  Heard(r, said, T, last)
<1>1. PICK f \in [0..Len(said) -> S] :
        /\ f[0] = r
        /\ f[Len(said)] = last
        /\ \A i \in 1..Len(said) : f[i] = After(f[i - 1], said[i])
  BY DEF Heard
<1>2. f \in [0..Len(said) -> T]
  OBVIOUS
<1> QED
  BY <1>1, <1>2 DEF Heard

(* The oldest message is read.                                             *)
LEMMA HeardHead ==
  ASSUME NEW S, NEW r, NEW last, NEW said \in Seq(Frames), said # <<>>,
         Heard(r, said, S, last)
  PROVE  Heard(After(r, Head(said)), Tail(said), S, last)
<1>1. PICK f \in [0..Len(said) -> S] :
        /\ f[0] = r
        /\ f[Len(said)] = last
        /\ \A i \in 1..Len(said) : f[i] = After(f[i - 1], said[i])
  BY DEF Heard
<1> DEFINE n == Len(said)
           g == [i \in 0..(n - 1) |-> f[i + 1]]
<1>2. n \in Nat /\ n > 0 /\ Len(Tail(said)) = n - 1 /\ Head(said) = said[1]
      /\ \A i \in 1..(n - 1) : Tail(said)[i] = said[i + 1]
  OBVIOUS
<1>3. g \in [0..(n - 1) -> S]
  BY <1>2
<1>4. g[0] = After(r, Head(said))
  BY <1>1, <1>2
<1>5. g[n - 1] = last
  BY <1>1, <1>2
<1>6. \A i \in 1..(n - 1) : g[i] = After(g[i - 1], Tail(said)[i])
  BY <1>1, <1>2
<1> HIDE DEF g, n
<1> QED
  BY <1>2, <1>3, <1>4, <1>5, <1>6 DEF Heard

(* More is said.                                                           *)
LEMMA HeardOn ==
  ASSUME NEW S, NEW a, NEW b, NEW c,
         NEW s \in Seq(Frames), NEW t \in Seq(Frames),
         Heard(a, s, S, b), Heard(b, t, S, c)
  PROVE  Heard(a, s \o t, S, c)
<1>1. PICK f \in [0..Len(s) -> S] :
        /\ f[0] = a
        /\ f[Len(s)] = b
        /\ \A i \in 1..Len(s) : f[i] = After(f[i - 1], s[i])
  BY DEF Heard
<1>2. PICK g \in [0..Len(t) -> S] :
        /\ g[0] = b
        /\ g[Len(t)] = c
        /\ \A i \in 1..Len(t) : g[i] = After(g[i - 1], t[i])
  BY DEF Heard
<1> DEFINE m == Len(s)
           n == Len(t)
           h == [i \in 0..(m + n) |-> IF i <= m THEN f[i] ELSE g[i - m]]
<1>3. /\ m \in Nat /\ n \in Nat /\ Len(s \o t) = m + n
      /\ \A i \in 1..m : (s \o t)[i] = s[i]
      /\ \A i \in (m + 1)..(m + n) : (s \o t)[i] = t[i - m]
  OBVIOUS
<1>4. h \in [0..(m + n) -> S]
  BY <1>3
<1>5. h[0] = a
  BY <1>1, <1>3
<1>6. h[m + n] = c
  <2>1. CASE n = 0
    <3>1. h[m + n] = f[m] /\ c = b
      BY <1>2, <1>3, <2>1
    <3> QED
      BY <1>1, <3>1
  <2>2. CASE n # 0
    BY <1>2, <1>3, <2>2
  <2> QED
    BY <2>1, <2>2
<1>7. ASSUME NEW i \in 1..(m + n) PROVE h[i] = After(h[i - 1], (s \o t)[i])
  <2>1. CASE i <= m
    <3>1. /\ h[i - 1] = f[i - 1] /\ h[i] = f[i] /\ (s \o t)[i] = s[i] /\ i \in 1..m
      BY <1>3, <2>1
    <3> QED
      BY <1>1, <3>1
  <2>2. CASE i = m + 1
    <3>1. h[i - 1] = b /\ h[i] = g[1] /\ (s \o t)[i] = t[1] /\ 1 \in 1..n
      BY <1>1, <1>3, <2>2
    <3>2. g[1] = After(g[0], t[1])
      BY <1>2, <3>1
    <3> QED
      BY <1>2, <3>1, <3>2
  <2>3. CASE i > m + 1
    <3> DEFINE j == i - m
    <3>1. /\ j \in 1..Len(t) /\ h[i - 1] = g[j - 1] /\ h[i] = g[j]
          /\ (s \o t)[i] = t[j]
      BY <1>3, <2>3
    <3> HIDE DEF h, m, n, j
    <3>2. g[j] = After(g[j - 1], t[j])
      BY <1>2, <3>1
    <3> QED
      BY <3>1, <3>2
  <2>4. i <= m \/ i = m + 1 \/ i > m + 1
    BY <1>3
  <2> HIDE DEF h, m, n
  <2> QED
    BY <2>1, <2>2, <2>3, <2>4
<1> HIDE DEF h, m, n
<1> QED
  BY <1>3, <1>4, <1>5, <1>6, <1>7 DEF Heard

(* One message, and up to four.                                            *)
LEMMA HeardOne ==
  ASSUME NEW S, NEW r0 \in S, NEW t \in Seq(Frames), Len(t) = 1,
         After(r0, t[1]) \in S
  PROVE  Heard(r0, t, S, After(r0, t[1]))
<1> DEFINE f == [i \in 0..1 |-> IF i = 0 THEN r0 ELSE After(r0, t[1])]
<1>1. f \in [0..1 -> S] /\ f[0] = r0 /\ f[1] = After(r0, t[1])
  OBVIOUS
<1> HIDE DEF f
<1> QED
  BY <1>1 DEF Heard

LEMMA HeardTwo ==
  ASSUME NEW S, NEW r0 \in S, NEW r1 \in S, NEW r2 \in S,
         NEW t \in Seq(Frames), Len(t) = 2,
         r1 = After(r0, t[1]), r2 = After(r1, t[2])
  PROVE  Heard(r0, t, S, r2)
<1> DEFINE f == [i \in 0..2 |-> IF i = 0 THEN r0 ELSE IF i = 1 THEN r1 ELSE r2]
<1>1. f \in [0..2 -> S] /\ f[0] = r0 /\ f[1] = r1 /\ f[2] = r2
  OBVIOUS
<1> HIDE DEF f
<1> QED
  BY <1>1 DEF Heard

LEMMA HeardThree ==
  ASSUME NEW S, NEW r0 \in S, NEW r1 \in S, NEW r2 \in S, NEW r3 \in S,
         NEW t \in Seq(Frames), Len(t) = 3,
         r1 = After(r0, t[1]), r2 = After(r1, t[2]), r3 = After(r2, t[3])
  PROVE  Heard(r0, t, S, r3)
<1> DEFINE f == [i \in 0..3 |-> IF i = 0 THEN r0 ELSE IF i = 1 THEN r1
                                ELSE IF i = 2 THEN r2 ELSE r3]
<1>1. f \in [0..3 -> S] /\ f[0] = r0 /\ f[1] = r1 /\ f[2] = r2 /\ f[3] = r3
  OBVIOUS
<1> HIDE DEF f
<1> QED
  BY <1>1 DEF Heard

LEMMA HeardFour ==
  ASSUME NEW S, NEW r0 \in S, NEW r1 \in S, NEW r2 \in S, NEW r3 \in S, NEW r4 \in S,
         NEW t \in Seq(Frames), Len(t) = 4,
         r1 = After(r0, t[1]), r2 = After(r1, t[2]), r3 = After(r2, t[3]),
         r4 = After(r3, t[4])
  PROVE  Heard(r0, t, S, r4)
<1> DEFINE f == [i \in 0..4 |-> IF i = 0 THEN r0 ELSE IF i = 1 THEN r1
                                ELSE IF i = 2 THEN r2 ELSE IF i = 3 THEN r3 ELSE r4]
<1>1. f \in [0..4 -> S] /\ f[0] = r0 /\ f[1] = r1 /\ f[2] = r2 /\ f[3] = r3 /\ f[4] = r4
  OBVIOUS
<1> HIDE DEF f
<1> QED
  BY <1>1 DEF Heard

-----------------------------------------------------------------------------
(***************************************************************************)
(* What a message makes of a reading.                                      *)
(***************************************************************************)

Neutral == {"discovered", "authorization", "authorization_failed", "payment_required",
            "paying", "audit_pending", "done", "error"}

LEMMA AfterType ==
  ASSUME NEW r \in Readings, NEW f \in Frames
  PROVE  /\ After(r, f) \in Readings
         /\ f.step # "selected" => After(r, f) = [seen |-> r.seen \cup {f.step}, who |-> r.who]
BY DEF After, Reduce, Readings, Frames

(* A neutral one says nothing of money, of who is chosen, or of failure.   *)
LEMMA AfterNeutral ==
  ASSUME NEW P, NEW r \in Sound(P), NEW f \in Frames, f.step \in Neutral
  PROVE  /\ After(r, f) \in Sound(P)
         /\ After(r, f).who = r.who
         /\ After(r, f).seen \cap LostKinds = r.seen \cap LostKinds
         /\ After(r, f).seen \cap PaidKinds = r.seen \cap PaidKinds
         /\ After(r, f).seen \cap FreeKinds = r.seen \cap FreeKinds
         /\ "result" \in r.seen => "result" \in After(r, f).seen
<1> DEFINE s == r.seen \cup {f.step}
<1>1. r \in Readings /\ f.step # "selected"
  BY DEF Sound, Neutral
<1>2. After(r, f) \in Readings /\ After(r, f) = [seen |-> s, who |-> r.who]
  BY <1>1, AfterType
<1>3. f.step \notin LostKinds /\ f.step \notin PaidKinds /\ f.step \notin {"quote", "selected"}
      /\ f.step \notin {"audited", "no_provider", "over_budget", "unavailable"}
  BY DEF Neutral, LostKinds, FreeKinds, PaidKinds
<1>4. /\ s \cap LostKinds = r.seen \cap LostKinds
      /\ s \cap PaidKinds = r.seen \cap PaidKinds
      /\ s \cap FreeKinds = r.seen \cap FreeKinds
      /\ s \cap {"quote", "selected"} = r.seen \cap {"quote", "selected"}
      /\ s \cap {"over_budget", "unavailable"} = r.seen \cap {"over_budget", "unavailable"}
      /\ "selected" \in s <=> "selected" \in r.seen
      /\ "audited" \in s <=> "audited" \in r.seen
      /\ "no_provider" \in s <=> "no_provider" \in r.seen
  BY <1>3 DEF LostKinds
<1> HIDE DEF s
<1>5. After(r, f) \in Sound(P)
  <2>1. "result" \in r.seen => "result" \in s
    BY DEF s
  <2> QED
    BY <1>2, <1>4, <2>1 DEF Sound
<1> QED
  BY <1>2, <1>4, <1>5 DEF s

(* A selection drops the failure it follows.                               *)
LEMMA AfterSelected ==
  ASSUME NEW P, NEW r \in Sound(P), NEW p \in Providers,
         r.seen \cap PaidKinds = {},
         r.seen \cap LostKinds \subseteq {"service_failed"}
  PROVE  /\ After(r, Frame("selected", p)) \in Sound(P)
         /\ After(r, Frame("selected", p)).who = p
         /\ After(r, Frame("selected", p)).seen \cap LostKinds = {}
         /\ After(r, Frame("selected", p)).seen \cap PaidKinds = {}
<1> DEFINE s == {"selected"} \cup (r.seen \ {"service_failed", "payment_required", "paying"})
<1>1. Frame("selected", p) \in Frames /\ r \in Readings
  BY DEF Frame, Frames, Kinds, Somebody, Sound
<1>2. After(r, Frame("selected", p)) \in Readings
      /\ After(r, Frame("selected", p)) = [seen |-> s, who |-> p]
  BY <1>1, AfterType DEF After, Reduce, Frame
<1>3. s \cap LostKinds = {} /\ s \cap PaidKinds = {}
  BY DEF LostKinds, FreeKinds, PaidKinds
<1>4. {"audited"} \subseteq PaidKinds /\ {"no_provider", "over_budget", "unavailable"} \subseteq LostKinds
  BY DEF LostKinds, FreeKinds, PaidKinds
<1>5. "audited" \notin s /\ "no_provider" \notin s /\ s \cap {"over_budget", "unavailable"} = {}
  BY <1>3, <1>4
<1> HIDE DEF s
<1> QED
  BY <1>2, <1>3, <1>5 DEF Sound

(* A failure is added where nothing was shown as paid.                     *)
LEMMA AfterLost ==
  ASSUME NEW P, NEW r \in Sound(P), NEW f \in Frames,
         f.step \in {"denied", "refused", "service_failed", "payment_failed"},
         r.seen \cap PaidKinds = {}
  PROVE  /\ After(r, f) \in Sound(P)
         /\ After(r, f).seen = r.seen \cup {f.step}
<1> DEFINE s == r.seen \cup {f.step}
<1>1. r \in Readings /\ f.step # "selected"
  BY DEF Sound
<1>2. After(r, f) \in Readings /\ After(r, f) = [seen |-> s, who |-> r.who]
  BY <1>1, AfterType
<1>3. /\ s \cap PaidKinds = {}
      /\ s \cap {"quote", "selected"} = r.seen \cap {"quote", "selected"}
      /\ s \cap {"over_budget", "unavailable"} = r.seen \cap {"over_budget", "unavailable"}
      /\ "selected" \in s <=> "selected" \in r.seen
      /\ "audited" \in s <=> "audited" \in r.seen
      /\ "no_provider" \in s <=> "no_provider" \in r.seen
      /\ "result" \in r.seen => "result" \in s
  BY DEF PaidKinds
<1> HIDE DEF s
<1>4. After(r, f) \in Sound(P)
  BY <1>2, <1>3 DEF Sound
<1> QED
  BY <1>2, <1>4 DEF s

(* A payment is added where nothing was shown as failed, and the chosen    *)
(* provider is the one that was paid.                                      *)
LEMMA AfterPaid ==
  ASSUME NEW P, NEW r \in Sound(P), NEW f \in Frames,
         f.step \in PaidKinds, f.step = "audited" => "result" \in r.seen,
         r.who \in P, r.seen \cap LostKinds = {}
  PROVE  /\ After(r, f) \in Sound(P)
         /\ After(r, f).seen = r.seen \cup {f.step}
         /\ After(r, f).who = r.who
         /\ After(r, f).seen \cap LostKinds = {}
<1> DEFINE s == r.seen \cup {f.step}
<1>1. r \in Readings /\ f.step # "selected"
  BY DEF Sound, PaidKinds
<1>2. After(r, f) \in Readings /\ After(r, f) = [seen |-> s, who |-> r.who]
  BY <1>1, AfterType
<1>3. s \cap LostKinds = {}
  BY DEF PaidKinds, LostKinds, FreeKinds
<1>4. "no_provider" \notin s /\ s \cap {"over_budget", "unavailable"} = {}
  BY <1>3 DEF LostKinds, FreeKinds
<1>5. "audited" \in s => "result" \in s
  <2>1. CASE f.step = "audited"
    BY <2>1 DEF s
  <2>2. CASE f.step # "audited"
    BY <2>2 DEF Sound
  <2> QED
    BY <2>1, <2>2
<1> HIDE DEF s
<1>6. After(r, f) \in Sound(P)
  BY <1>2, <1>3, <1>4, <1>5 DEF Sound
<1> QED
  BY <1>2, <1>3, <1>6 DEF s

LEMMA SoundGrows ==
  ASSUME NEW P, NEW T, P \subseteq T
  PROVE  Sound(P) \subseteq Sound(T)
BY DEF Sound

(* What the task says without naming a provider.                           *)
LEMMA PlainType ==
  ASSUME NEW kinds \in Seq(Kinds)
  PROVE  /\ Plain(kinds) \in Seq(Frames)
         /\ Len(Plain(kinds)) = Len(kinds)
         /\ \A i \in 1..Len(kinds) :
              Plain(kinds)[i] = Frame(kinds[i], NoOne) /\ Plain(kinds)[i].step = kinds[i]
<1>1. \A k \in Kinds : Frame(k, NoOne) \in Frames /\ Frame(k, NoOne).step = k
  BY DEF Frame, Frames, Somebody
<1>2. DOMAIN kinds = 1..Len(kinds) /\ Len(kinds) \in Nat /\ \A i \in 1..Len(kinds) : kinds[i] \in Kinds
  OBVIOUS
<1>3. Plain(kinds) \in [1..Len(kinds) -> Frames]
  BY <1>1, <1>2 DEF Plain
<1> QED
  BY <1>1, <1>2, <1>3 DEF Plain

-----------------------------------------------------------------------------
(***************************************************************************)
(* The purchase itself, whoever is looking on.                             *)
(***************************************************************************)

\* Whom the order under way has charged, or may charge.
Owing == {p \in Providers :
            /\ Quote(p) \in sent
            /\ phase[Quote(p)] \notin {"forfeited", "lapsed"}
            /\ Quote(p) \notin answered}

PurchaseTypes == PurchaseTypeOK /\ failures \in BOOLEAN /\ answered \subseteq Quotes

(* There is one order at a time.                                           *)
LEMMA BillIsOwing ==
  ASSUME PurchaseTypes, PurchaseInv
  PROVE  Bill = Owing
<1>1. \A n \in Orders, p \in Providers : <<n, p>> \in sent => n = order
  BY DEF PurchaseInv, Quote
<1>2. \A p \in Providers : Quote(p) \in sent => order \in Orders
  BY DEF PurchaseTypes, PurchaseTypeOK, Quotes, Quote
<1>3. Bill \subseteq Owing
  BY <1>1 DEF Bill, BillOf, MayCharge, Owing, Quote
<1>4. Owing \subseteq Bill
  <2>1. ASSUME NEW p \in Owing PROVE p \in Bill
    <3>1. order \in Orders
      BY <1>2 DEF Owing
    <3>2. p \in BillOf(order)
      BY DEF Owing, BillOf, MayCharge, Quote
    <3> QED
      BY <3>1, <3>2 DEF Bill
  <2> QED
    BY <2>1
<1> QED
  BY <1>3, <1>4

(* The cap the runner goes by is never above the one that was typed.       *)
LEMMA GrantedFits ==
  ASSUME cap \in Nat, cap <= MaxAtomic
  PROVE  Granted = cap
<1>1. MaxAtomic \in Nat
  BY PurchaseAssumption
<1>2. ASSUME NEW x \in {cap, MaxAtomic}, \A y \in {cap, MaxAtomic} : x <= y
      PROVE  x = cap
  BY <1>1, <1>2
<1>3. cap \in {cap, MaxAtomic} /\ \A y \in {cap, MaxAtomic} : cap <= y
  BY <1>1
<1> DEFINE least == CHOOSE x \in {cap, MaxAtomic} : \A y \in {cap, MaxAtomic} : x <= y
<1>4. least \in {cap, MaxAtomic} /\ \A y \in {cap, MaxAtomic} : least <= y
  BY <1>3
<1> QED
  BY <1>2, <1>4 DEF Granted, Min

(* A new run starts with nothing sent and offers within its limit.         *)
LEMMA StartFlow ==
  ASSUME TypeInv, FlowInv, PurchaseInv, Start
  PROVE  /\ PurchaseTypes' /\ FlowInv' /\ PurchaseInv'
         /\ sent' = {} /\ step' \in {"trying", "stopped"}
         /\ step' = "trying" <=> offers' # {}
         /\ budget' = cap
<1>1. /\ busy = "free" /\ busy' = "run" /\ UNCHANGED <<queued, phase, sent, failures, answered>>
      /\ order' = order + 1 /\ budget' = Granted
      /\ cap \in Nat /\ cap <= MaxAtomic
  BY DEF Start, TryLock, Begin, CanRun, taskVars, TypeInv
<1>2. PICK quoted \in SUBSET Sellers["inference"] : Consider(Affordable(quoted, Granted))
  BY DEF Start, Begin
<1>3. quoted \subseteq Providers
  BY PurchaseAssumption DEF Services
<1>4. Granted = cap /\ cap \in 0..MaxAtomic
  BY <1>1, GrantedFits, PurchaseAssumption
<1>5. order = 0 /\ sent = {} /\ answered = {}
  BY <1>1 DEF FlowInv
<1>6. /\ offers' \subseteq Providers /\ \A p \in offers' : Price[p] <= Granted
      /\ step' \in {"trying", "stopped"} /\ (step' = "trying" <=> offers' # {})
  BY <1>2, <1>3 DEF Consider, Affordable
<1>7. order' = 1 /\ 1 \in Orders
  BY <1>1, <1>5, PurchaseAssumption DEF Orders
<1>8. PurchaseTypes'
  BY <1>1, <1>4, <1>5, <1>6, <1>7 DEF TypeInv, PurchaseTypes, PurchaseTypeOK
<1>9. FlowInv'
  BY <1>1, <1>6, <1>7 DEF FlowInv
<1>10. PurchaseInv'
  BY <1>1, <1>4, <1>5, <1>6 DEF PurchaseInv
<1> QED
  BY <1>1, <1>4, <1>5, <1>6, <1>8, <1>9, <1>10

(* An offer's turn: every quote sent before it is dead.                    *)
LEMMA TryFlow ==
  ASSUME PurchaseTypes, FlowInv, PurchaseInv, NEW p \in Providers, Try(p), UNCHANGED taskVars
  PROVE  /\ PurchaseTypes' /\ FlowInv' /\ PurchaseInv'
         /\ Owing = {}
         /\ step' \in {"trying", "stopped"} => Owing' = {}
         /\ step' = "paying" => OnlyTry(p)'
         /\ step' \in {"trying", "paying", "stopped"}
<1>1. /\ step = "trying" /\ p \in offers /\ UNCHANGED <<phase, order, budget, busy, queued>>
      /\ UNCHANGED <<failures, answered>>
  BY DEF Try, Cheapest, lockVars, taskVars
<1>2. /\ busy = "run" /\ order = 1 /\ answered = {}
      /\ \A o \in Providers : Quote(o) \in sent => phase[Quote(o)] = "forfeited" /\ o \notin offers
  BY <1>1 DEF FlowInv, PurchaseInv
<1>3. Quote(p) \in Quotes /\ UNCHANGED Quote(p)
  BY <1>1, <1>2, PurchaseAssumption DEF Quote, Quotes, Orders
<1>4. \A o \in Providers : Quote(o)' = Quote(o)
  BY <1>1 DEF Quote
<1>5. \A o1, o2 \in Providers : Quote(o1) = Quote(o2) => o1 = o2
  BY DEF Quote
<1>6. \/ Consider(offers \ {p}) /\ UNCHANGED sent
      \/ step' = "paying" /\ sent' = sent \cup {Quote(p)} /\ UNCHANGED offers
      \/ step' = "stopped" /\ UNCHANGED <<sent, offers>>
  BY DEF Try
<1>7. PurchaseTypes' /\ FlowInv' /\ step' \in {"trying", "paying", "stopped"}
  BY <1>1, <1>2, <1>3, <1>6 DEF Consider, PurchaseTypes, PurchaseTypeOK, FlowInv
<1>8. Owing = {}
  BY <1>2 DEF Owing
<1>9. CASE Consider(offers \ {p}) /\ UNCHANGED sent
  BY <1>1, <1>2, <1>4, <1>7, <1>8, <1>9 DEF Consider, PurchaseInv, Owing
<1>10. CASE step' = "paying" /\ sent' = sent \cup {Quote(p)} /\ UNCHANGED offers
  <2>1. OnlyTry(p)'
    BY <1>1, <1>2, <1>4, <1>5, <1>10 DEF OnlyTry
  <2>2. PurchaseInv'
    BY <1>1, <1>2, <1>4, <1>5, <1>10, <2>1 DEF PurchaseInv
  <2> QED
    BY <1>7, <1>8, <1>10, <2>1, <2>2
<1>11. CASE step' = "stopped" /\ UNCHANGED <<sent, offers>>
  BY <1>1, <1>2, <1>4, <1>7, <1>8, <1>11 DEF PurchaseInv, Owing
<1> QED
  BY <1>6, <1>9, <1>10, <1>11

(* The paying request's answer: only its own quote is alive.               *)
LEMMA PayFlow ==
  ASSUME PurchaseTypes, FlowInv, PurchaseInv, NEW p \in Providers, NEW said,
         Pay(p), Paid(p, said)
  PROVE  /\ PurchaseTypes' /\ FlowInv' /\ PurchaseInv'
         /\ OnlyTry(p)
         /\ \A o \in Providers : OnlyTry(o) => o = p
         /\ \/ /\ said \in {<<"result">>, <<"settled", "result">>}
               /\ step' = "bought" /\ Owing' = {p} /\ OnlyTry(p)'
               /\ phase'[Quote(p)'] = "charged"
            \/ /\ said = <<"service_failed">>
               /\ step' \in {"trying", "stopped"} /\ Owing' = {}
            \/ said = <<"payment_failed">> /\ step' = "stopped"
            \/ said = <<"refused">> /\ step' = "stopped" /\ Owing' = {}
<1>1. /\ step = "paying" /\ p \in offers /\ Quote(p) \in sent
      /\ UNCHANGED <<phase, order, budget, sent, busy, queued>>
  BY DEF Pay, lockVars
<1>2. /\ busy = "run" /\ order = 1 /\ answered = {}
  BY <1>1 DEF FlowInv, PurchaseInv
<1>3. \A o \in Providers : OnlyTry(o) => o = p
  BY <1>1 DEF OnlyTry
<1>4. OnlyTry(p)
  BY <1>1, <1>3 DEF PurchaseInv
<1>5. \A o \in Providers : Quote(o)' = Quote(o)
  BY <1>1 DEF Quote
<1>6. \A o1, o2 \in Providers : Quote(o1) = Quote(o2) => o1 = o2
  BY DEF Quote
<1>7. \/ phase[Quote(p)] = "charged" /\ step' = "bought" /\ UNCHANGED offers
      \/ phase[Quote(p)] = "forfeited" /\ Consider(offers \ {p})
      \/ step' = "stopped" /\ UNCHANGED offers
  BY DEF Pay
<1>8. Quote(p) \in Quotes
  BY <1>1 DEF PurchaseTypes, PurchaseTypeOK
<1>9. \/ /\ step' = "bought" /\ said \in {<<"result">>, <<"settled", "result">>}
         /\ UNCHANGED <<failures, answered>>
      \/ /\ offers' # offers /\ said = <<"service_failed">> /\ failures' = TRUE
         /\ UNCHANGED answered
      \/ /\ step' = "stopped" /\ offers' = offers /\ said = <<"payment_failed">>
         /\ UNCHANGED <<failures, answered>>
      \/ /\ step' = "stopped" /\ offers' = offers /\ said = <<"refused">>
         /\ answered' = answered \cup {Quote(p)} /\ UNCHANGED failures
  BY DEF Paid, taskVars
<1>10. CASE step' = "bought"
  <2>1. /\ phase[Quote(p)] = "charged" /\ UNCHANGED <<offers, failures, answered>>
        /\ said \in {<<"result">>, <<"settled", "result">>}
    BY <1>7, <1>9, <1>10 DEF Consider
  <2>2. PurchaseTypes' /\ FlowInv'
    BY <1>1, <1>2, <1>10, <2>1 DEF PurchaseTypes, PurchaseTypeOK, FlowInv
  <2>3. OnlyTry(p)' /\ phase'[Quote(p)'] = "charged"
    BY <1>1, <1>4, <1>5, <2>1 DEF OnlyTry
  <2>4. PurchaseInv'
    BY <1>1, <1>2, <1>5, <1>10, <2>1, <2>3 DEF PurchaseInv
  <2>5. Owing' = {p}
    BY <1>2, <2>1, <2>3 DEF Owing, OnlyTry
  <2> QED
    BY <1>3, <1>4, <1>10, <2>1, <2>2, <2>3, <2>4, <2>5
<1>11. CASE offers' # offers /\ step' # "bought"
  <2>1. /\ phase[Quote(p)] = "forfeited" /\ offers' = offers \ {p} /\ UNCHANGED answered
        /\ said = <<"service_failed">> /\ failures' = TRUE /\ step' \in {"trying", "stopped"}
    BY <1>7, <1>9, <1>11 DEF Consider
  <2>2. PurchaseTypes' /\ FlowInv'
    BY <1>1, <1>2, <2>1 DEF PurchaseTypes, PurchaseTypeOK, FlowInv
  <2>3. \A o \in Providers : Quote(o)' \in sent' => phase'[Quote(o)'] = "forfeited" /\ o \notin offers'
    BY <1>1, <1>4, <1>5, <2>1 DEF OnlyTry
  <2>4. PurchaseInv'
    BY <1>1, <1>2, <1>5, <2>1, <2>3 DEF PurchaseInv
  <2>5. Owing' = {}
    BY <2>3 DEF Owing
  <2> QED
    BY <1>3, <1>4, <2>1, <2>2, <2>4, <2>5
<1>12. CASE step' = "stopped" /\ offers' = offers
  <2>1. <<"payment_failed">> # <<"refused">>
    BY <<"payment_failed">>[1] = "payment_failed", <<"refused">>[1] = "refused"
  <2>2. /\ said \in {<<"payment_failed">>, <<"refused">>}
        /\ answered' \subseteq answered \cup {Quote(p)} /\ failures' \in {failures, TRUE}
        /\ said = <<"refused">> => answered' = {Quote(p)}
    <3> DEFINE lost == <<"payment_failed">>
               refused == <<"refused">>
    <3>1. \/ said = lost /\ UNCHANGED <<failures, answered>>
          \/ said = refused /\ answered' = answered \cup {Quote(p)} /\ UNCHANGED failures
      BY <1>9, <1>12
    <3>2. lost # refused
      BY <2>1
    <3> HIDE DEF lost, refused
    <3>3. /\ said \in {lost, refused}
          /\ answered' \subseteq answered \cup {Quote(p)} /\ failures' \in {failures, TRUE}
          /\ said = refused => answered' = {Quote(p)}
      BY <1>2, <3>1, <3>2
    <3> QED
      BY <3>3 DEF lost, refused
  <2>3. PurchaseTypes' /\ FlowInv'
    BY <1>1, <1>2, <1>8, <1>12, <2>2 DEF PurchaseTypes, PurchaseTypeOK, FlowInv
  <2>4. PurchaseInv'
    BY <1>1, <1>5, <1>12 DEF PurchaseInv
  <2>5. said = <<"refused">> => Owing' = {}
    <3>1. SUFFICES ASSUME answered' = {Quote(p)} PROVE Owing' = {}
      BY <2>2
    <3>2. ASSUME NEW o \in Owing' PROVE FALSE
      <4>1. /\ o \in Providers /\ Quote(o) \in sent /\ phase[Quote(o)] # "forfeited"
            /\ Quote(o) # Quote(p)
        BY <1>1, <1>5, <3>1, <3>2 DEF Owing
      <4> QED
        BY <1>4, <4>1 DEF OnlyTry
    <3> QED
      BY <3>2
  <2> QED
    BY <1>3, <1>4, <1>12, <2>2, <2>3, <2>4, <2>5
<1> QED
  BY <1>1, <1>7, <1>10, <1>11, <1>12 DEF Consider

(* A gateway deals with what was sent to it: nothing dead comes to life,   *)
(* and a charge stands.                                                    *)
LEMMA ServeFlow ==
  ASSUME PurchaseTypes, FlowInv, PurchaseInv, ServeSent, UNCHANGED taskVars
  PROVE  /\ PurchaseTypes' /\ FlowInv' /\ PurchaseInv'
         /\ Owing' \subseteq Owing
         /\ \A p \in Providers : OnlyTry(p) => OnlyTry(p)'
         /\ step = "bought" => Owing' = Owing
<1>1. PICK q \in Quotes \ answered : Serve(q)
  BY DEF ServeSent
<1>2. /\ q \in sent /\ UNCHANGED <<order, step, offers, budget, sent, busy, queued, failures, answered>>
  BY <1>1 DEF Serve, orderVars, lockVars, taskVars
<1>3. /\ phase[q] \in {"open", "running", "settling"} /\ phase[q] # phase'[q]
      /\ phase'[q] \in {"lapsed", "running", "forfeited", "settling", "charged"}
      /\ phase' = [phase EXCEPT ![q] = phase'[q]]
  BY <1>1 DEF Serve, Contract!Lapse, Contract!Run, Contract!Forfeit, Contract!Settle,
              Contract!Charge, Contract!Refuse, Contract!Move, PurchaseTypes, PurchaseTypeOK
<1>4. \A o \in Providers : Quote(o)' = Quote(o)
  BY <1>2 DEF Quote
<1>5. \A r \in Quotes : phase[r] \in {"forfeited", "lapsed", "charged"} => phase'[r] = phase[r]
  BY <1>3 DEF PurchaseTypes, PurchaseTypeOK
<1>6. \A p \in Providers : Quote(p) \in sent => Quote(p) \in Quotes
  BY DEF PurchaseTypes, PurchaseTypeOK
<1>7. PurchaseTypes' /\ FlowInv'
  BY <1>2, <1>3 DEF PurchaseTypes, PurchaseTypeOK, FlowInv, Contract!Phases
<1>8. \A p \in Providers : OnlyTry(p) => OnlyTry(p)'
  BY <1>2, <1>4, <1>5, <1>6 DEF OnlyTry
<1>9. \A p \in Providers : OnlyTry(p) /\ phase[Quote(p)] = "charged" => phase'[Quote(p)'] = "charged"
  BY <1>4, <1>5, <1>6 DEF OnlyTry
<1>10. step = "trying" => (\A p \in Providers : Quote(p)' \in sent' => phase'[Quote(p)'] = "forfeited" /\ p \notin offers')
  BY <1>2, <1>4, <1>5, <1>6 DEF PurchaseInv
<1>11. PurchaseInv'
  BY <1>2, <1>4, <1>8, <1>9, <1>10 DEF PurchaseInv
<1>12. Owing' \subseteq Owing
  BY <1>2, <1>4, <1>5, <1>6 DEF Owing
<1>13. step = "bought" => Owing' = Owing
  <2> SUFFICES ASSUME step = "bought", NEW p \in Owing PROVE p \in Owing'
    BY <1>12
  <2>1. PICK o \in Providers : OnlyTry(o) /\ phase[Quote(o)] = "charged"
    BY DEF PurchaseInv
  <2>2. p = o
    BY <2>1 DEF Owing, OnlyTry
  <2> QED
    BY <1>2, <1>4, <1>9, <2>1, <2>2 DEF Owing
<1> QED
  BY <1>7, <1>8, <1>11, <1>12, <1>13

(* The lock is given back, and the order with it.                          *)
LEMMA UnlockFlow ==
  ASSUME PurchaseTypes, Unlock, answered' = {}, failures' \in BOOLEAN
  PROVE  PurchaseTypes' /\ FlowInv' /\ PurchaseInv' /\ busy' # "run"
<1>1. /\ busy' \in {"free", "response"} /\ queued' = FALSE /\ order' = 0 /\ step' = "none"
      /\ offers' = {} /\ budget' = 0 /\ sent' = {} /\ phase' = [q \in Quotes |-> "open"]
  BY DEF Unlock, Idle
<1>2. 0 \in 0..MaxAtomic
  BY PurchaseAssumption
<1>3. PurchaseTypes'
  BY <1>1, <1>2 DEF PurchaseTypes, PurchaseTypeOK, Contract!Phases
<1> QED
  BY <1>1, <1>3 DEF FlowInv, PurchaseInv

-----------------------------------------------------------------------------
(***************************************************************************)
(* The dialog, next to the purchase.                                       *)
(***************************************************************************)

LEMMA BillOfCurrent ==
  ASSUME TypeInv, PurchaseInv, mine = "current"
  PROVE  BillShown = Owing
BY BillIsOwing DEF BillShown, TypeInv, PurchaseTypes

(* In a sound reading, nothing is shown as paid while nobody is.           *)
LEMMA NothingShownAsPaid ==
  ASSUME NEW r \in Sound({})
  PROVE  r \in Readings /\ r.seen \cap PaidKinds = {}
BY DEF Sound

(* The stream is left alone, and what was true of it stays true.           *)
LEMMA StreamStill ==
  ASSUME TypeInv, StreamInv, UNCHANGED <<frames, run, chosen>>,
         link' = "lost" <=> link = "lost",
         Payee \subseteq Payee',
         \A r \in Readings : Told(r) => Told(r)'
  PROVE  StreamInv'
<1>1. Now' = Now /\ frames \in Seq(Frames)
  BY DEF Now, TypeInv
<1>2. Sound(Payee) \subseteq Sound(Payee')
  BY SoundGrows
<1>3. CASE link = "lost"
  BY <1>1, <1>2, <1>3 DEF StreamInv
<1>4. CASE link # "lost"
  <2>1. PICK last \in Readings : Heard(Now, frames, Sound(Payee), last) /\ Told(last)
    BY <1>4 DEF StreamInv
  <2>2. Heard(Now, frames, Sound(Payee'), last)
    BY <1>1, <1>2, <2>1, HeardMore
  <2>3. Heard(Now', frames', Sound(Payee'), last) /\ Told(last)'
    BY <1>1, <2>1, <2>2
  <2> QED
    BY <1>4, <2>3 DEF StreamInv
<1> QED
  BY <1>3, <1>4

(* Nobody reads any more.                                                  *)
LEMMA StreamLost ==
  ASSUME StreamInv, UNCHANGED <<run, chosen>>, link = "lost", link' = "lost",
         Payee \subseteq Payee'
  PROVE  StreamInv'
<1>1. Now' = Now
  BY DEF Now
<1>2. Sound(Payee) \subseteq Sound(Payee')
  BY SoundGrows
<1> QED
  BY <1>1, <1>2 DEF StreamInv

(* More is said to a reader.                                               *)
LEMMA StreamOn ==
  ASSUME TypeInv, StreamInv, UNCHANGED <<run, chosen>>, link # "lost", link' # "lost",
         Payee \subseteq Payee',
         NEW said \in Seq(Frames), frames' = frames \o said,
         \A r \in Sound(Payee') :
            Told(r) => \E last \in Readings : Heard(r, said, Sound(Payee'), last) /\ Told(last)'
  PROVE  StreamInv'
<1>1. Now' = Now /\ frames \in Seq(Frames)
  BY DEF Now, TypeInv
<1>2. Sound(Payee) \subseteq Sound(Payee')
  BY SoundGrows
<1>3. PICK r \in Readings : Heard(Now, frames, Sound(Payee), r) /\ Told(r)
  BY DEF StreamInv
<1>4. Heard(Now, frames, Sound(Payee'), r)
  BY <1>1, <1>2, <1>3, HeardMore
<1>5. r \in Sound(Payee')
  BY <1>1, <1>4, HeardFirst
<1>6. PICK last \in Readings : Heard(r, said, Sound(Payee'), last) /\ Told(last)'
  BY <1>3, <1>5
<1>7. Heard(Now', frames', Sound(Payee'), last)
  BY <1>1, <1>4, <1>6, HeardOn
<1> QED
  BY <1>6, <1>7 DEF StreamInv

(* The task shown is over, or there is none: what goes on elsewhere does   *)
(* not change what is shown.                                               *)
LEMMA StreamBystander ==
  ASSUME TypeInv, StreamInv, mine # "current",
         UNCHANGED <<frames, run, chosen, link, mine, owed>>
  PROVE  StreamInv'
<1>1. BillShown = owed /\ BillShown' = owed
  BY DEF BillShown
<1>2. Payee' = Payee
  BY <1>1 DEF Payee
<1>3. \A r \in Readings : Told(r) => Told(r)'
  BY <1>1 DEF Told
<1> QED
  BY <1>2, <1>3, StreamStill

(* The dialog is not touched, apart from its stream.                       *)
LEMMA DialogStill ==
  ASSUME DialogInv, UNCHANGED <<running, link, mine, owed, asked, budget, busy>>,
         link # "open" => frames' = frames
  PROVE  DialogInv'
BY DEF DialogInv

-----------------------------------------------------------------------------
(* An offer's turn. *)

Spoken(said, p) ==
  [i \in DOMAIN said |-> Frame(said[i], IF said[i] = "selected" THEN p ELSE NoOne)]

LEMMA SpokenType ==
  ASSUME NEW p \in Providers, NEW said \in Seq(Kinds)
  PROVE  /\ Spoken(said, p) \in Seq(Frames)
         /\ Len(Spoken(said, p)) = Len(said)
         /\ \A i \in 1..Len(said) :
              /\ Spoken(said, p)[i].step = said[i]
              /\ said[i] = "selected" => Spoken(said, p)[i] = Frame("selected", p)
<1> DEFINE F(i) == Frame(said[i], IF said[i] = "selected" THEN p ELSE NoOne)
<1>1. DOMAIN said = 1..Len(said) /\ Len(said) \in Nat /\ \A i \in 1..Len(said) : said[i] \in Kinds
  OBVIOUS
<1>2. \A i \in 1..Len(said) : F(i) \in Frames /\ F(i).step = said[i]
  BY <1>1 DEF Frame, Frames, Somebody
<1>3. Spoken(said, p) = [i \in 1..Len(said) |-> F(i)]
  BY <1>1 DEF Spoken
<1>4. Spoken(said, p) \in [1..Len(said) -> Frames]
  BY <1>2, <1>3
<1> QED
  BY <1>1, <1>2, <1>3, <1>4

LEMMA Joined ==
  ASSUME NEW s \in Seq(Frames), NEW t \in Seq(Frames)
  PROVE  /\ s \o t \in Seq(Frames) /\ Len(s \o t) = Len(s) + Len(t)
         /\ \A i \in 1..Len(s) : (s \o t)[i] = s[i]
         /\ \A i \in 1..Len(t) : (s \o t)[Len(s) + i] = t[i]
OBVIOUS

(* Every way an offer's turn is told.                                      *)
LEMMA TryWords ==
  ASSUME NEW p \in Providers, NEW said \in Tried
  PROVE  LET t == Spoken(said, p)
                  \o Plain(IF said = <<"authorization", "selected">> THEN <<"error">> ELSE <<>>)
         IN /\ t \in Seq(Frames)
            /\ \/ /\ offers' # offers
                  /\ t[1].step \in {"authorization", "authorization_failed"}
                  /\ (Len(t) = 1 \/ (Len(t) = 2 /\ t[2].step = "denied" /\ offers' = {}))
               \/ /\ offers' = offers
                  /\ t[1].step = "authorization" /\ t[2] = Frame("selected", p)
                  /\ \/ /\ step' = "paying" /\ Len(t) = 4
                        /\ t[3].step = "payment_required" /\ t[4].step = "paying"
                     \/ /\ step' # "paying" /\ Len(t) = 3
                        /\ t[3].step \in {"refused", "error"}
<1> DEFINE both == <<"authorization", "selected">>
           tail == IF said = both THEN <<"error">> ELSE <<>>
           t == Spoken(said, p) \o Plain(tail)
<1>1. both \in Seq(Kinds) /\ Len(both) = 2 /\ both[1] = "authorization" /\ both[2] = "selected"
  BY DEF Kinds
<1>2. /\ tail \in Seq(Kinds)
      /\ said # both => Len(tail) = 0
      /\ said = both => Len(tail) = 1 /\ tail[1] = "error"
  BY DEF Kinds
<1>3. ASSUME said \in Seq(Kinds)
      PROVE  /\ t \in Seq(Frames) /\ Len(t) = Len(said) + Len(tail)
             /\ \A i \in 1..Len(said) :
                  /\ t[i].step = said[i]
                  /\ said[i] = "selected" => t[i] = Frame("selected", p)
             /\ said = both => t[3].step = "error"
  <2>1. /\ Spoken(said, p) \in Seq(Frames) /\ Len(Spoken(said, p)) = Len(said)
        /\ \A i \in 1..Len(said) :
             /\ Spoken(said, p)[i].step = said[i]
             /\ said[i] = "selected" => Spoken(said, p)[i] = Frame("selected", p)
    BY <1>3, SpokenType
  <2>2. /\ Plain(tail) \in Seq(Frames) /\ Len(Plain(tail)) = Len(tail)
        /\ \A i \in 1..Len(tail) : Plain(tail)[i].step = tail[i]
    BY <1>2, PlainType
  <2> DEFINE a == Spoken(said, p)
             b == Plain(tail)
  <2>3. a \in Seq(Frames) /\ b \in Seq(Frames) /\ Len(a) = Len(said) /\ Len(b) = Len(tail) /\ t = a \o b
    BY <2>1, <2>2
  <2> HIDE DEF tail, both, a, b, t
  <2>4. /\ t \in Seq(Frames) /\ Len(t) = Len(said) + Len(tail)
        /\ \A i \in 1..Len(said) : t[i] = a[i]
        /\ \A i \in 1..Len(tail) : t[Len(said) + i] = b[i]
    <3>1. /\ a \o b \in Seq(Frames) /\ Len(a \o b) = Len(a) + Len(b)
          /\ \A i \in 1..Len(a) : (a \o b)[i] = a[i]
          /\ \A i \in 1..Len(b) : (a \o b)[Len(a) + i] = b[i]
      BY <2>3, Joined
    <3> QED
      BY <3>1, <2>3
  <2>5. said = both => t[3].step = "error"
    <3>1. SUFFICES ASSUME said = both PROVE t[3].step = "error"
      OBVIOUS
    <3>2. Len(said) = 2 /\ Len(tail) = 1 /\ tail[1] = "error"
      BY <1>1, <1>2, <3>1
    <3>3. 1 \in 1..Len(tail) /\ Len(said) + 1 = 3
      BY <3>2
    <3>4. t[Len(said) + 1] = Plain(tail)[1] /\ Plain(tail)[1].step = "error"
      BY <2>2, <2>4, <3>2, <3>3 DEF b
    <3> QED
      BY <3>3, <3>4
  <2> QED
    BY <2>1, <2>4, <2>5 DEF a
<1>4. CASE offers' # offers
  <2>1. PICK k \in {"authorization", "authorization_failed"} :
          said = <<k>> \o (IF offers' = {} /\ ~failures THEN <<"denied">> ELSE <<>>)
    BY <1>4 DEF Tried
  <2>2. /\ said \in Seq(Kinds) /\ said[1] = k
        /\ (Len(said) = 1 \/ (Len(said) = 2 /\ said[2] = "denied" /\ offers' = {}))
    <3>1. CASE offers' = {} /\ ~failures
      <4>1. said = <<k>> \o <<"denied">>
        BY <2>1, <3>1
      <4> QED
        BY <2>1, <3>1, <4>1 DEF Kinds
    <3>2. CASE ~(offers' = {} /\ ~failures)
      <4>1. said = <<k>> \o <<>>
        BY <2>1, <3>2
      <4>2. k \in Kinds
        BY <2>1 DEF Kinds
      <4>3. said = <<k>>
        BY <4>1, <4>2
      <4> QED
        BY <4>2, <4>3
    <3> QED
      BY <3>1, <3>2
  <2>3. said # both
    BY <1>1, <2>2
  <2> HIDE DEF t, tail, both
  <2>4. t \in Seq(Frames) /\ Len(t) = Len(said)
        /\ \A i \in 1..Len(said) : t[i].step = said[i]
    BY <1>2, <1>3, <2>2, <2>3
  <2>5. 1 \in 1..Len(said) /\ (Len(said) = 2 => 2 \in 1..Len(said))
    BY <2>2
  <2>6. t[1].step = said[1] /\ (Len(said) = 2 => t[2].step = said[2])
    BY <2>4, <2>5
  <2>7. /\ t \in Seq(Frames) /\ t[1].step = k
        /\ (Len(t) = 1 \/ (Len(t) = 2 /\ t[2].step = "denied" /\ offers' = {}))
    BY <2>2, <2>4, <2>6
  <2> QED
    BY <1>4, <2>1, <2>7 DEF t, tail, both
<1>5. CASE offers' = offers /\ step' = "paying"
  <2>1. said = both \o <<"payment_required", "paying">>
    BY <1>5 DEF Tried
  <2>2. /\ said \in Seq(Kinds) /\ Len(said) = 4 /\ said[1] = "authorization" /\ said[2] = "selected"
        /\ said[3] = "payment_required" /\ said[4] = "paying"
    BY <2>1 DEF Kinds
  <2>3. said # both
    BY <1>1, <2>2
  <2> HIDE DEF t, tail, both
  <2>4. /\ t \in Seq(Frames) /\ t[1].step = "authorization" /\ t[2] = Frame("selected", p)
        /\ Len(t) = 4 /\ t[3].step = "payment_required" /\ t[4].step = "paying"
    BY <1>2, <1>3, <2>2, <2>3
  <2> QED
    BY <1>5, <2>4 DEF t, tail, both
<1>6. CASE offers' = offers /\ step' # "paying"
  <2>1. PICK last \in {<<"refused">>, <<>>} : said = both \o last
    BY <1>6 DEF Tried
  <2>2. /\ said \in Seq(Kinds) /\ said[1] = "authorization" /\ said[2] = "selected"
        /\ (Len(said) = 2 \/ (Len(said) = 3 /\ said[3] = "refused"))
        /\ Len(said) = 2 => said = both
    <3>1. CASE last = <<"refused">>
      BY <2>1, <3>1 DEF Kinds
    <3>2. CASE last = <<>>
      <4>1. said = both
        BY <1>1, <2>1, <3>2
      <4> HIDE DEF both
      <4> QED
        BY <1>1, <4>1
    <3> QED
      BY <2>1, <3>1, <3>2
  <2>3. Len(said) = 3 => said # both
    BY <1>1
  <2> HIDE DEF t, tail, both
  <2>5. CASE Len(said) = 2
    BY <1>1, <1>2, <1>3, <1>6, <2>2, <2>5 DEF t, tail, both
  <2>6. CASE Len(said) = 3
    <3>1. /\ t \in Seq(Frames) /\ t[1].step = "authorization" /\ t[2] = Frame("selected", p)
          /\ Len(t) = 3 /\ t[3].step = "refused"
      BY <1>2, <1>3, <2>2, <2>3, <2>6
    <3> QED
      BY <1>6, <3>1 DEF t, tail, both
  <2> QED
    BY <2>2, <2>5, <2>6
<1> QED
  BY <1>4, <1>5, <1>6

(* The answer of an offer whose turn came is told as it is.                *)
LEMMA TryTold ==
  ASSUME Inv, NEW p \in Providers, NEW said \in Tried, Try(p), UNCHANGED <<taskVars, mine>>,
         PurchaseInv', TypeInv',
         mine = "current",
         NEW r \in Sound({}), Told(r)
  PROVE  LET t == Spoken(said, p)
                  \o Plain(IF said = <<"authorization", "selected">> THEN <<"error">> ELSE <<>>)
         IN \E last \in Readings : Heard(r, t, Sound({}), last) /\ Told(last)'
<1> DEFINE t == Spoken(said, p)
                \o Plain(IF said = <<"authorization", "selected">> THEN <<"error">> ELSE <<>>)
<1>1. /\ t \in Seq(Frames)
      /\ \/ /\ offers' # offers
            /\ t[1].step \in {"authorization", "authorization_failed"}
            /\ (Len(t) = 1 \/ (Len(t) = 2 /\ t[2].step = "denied" /\ offers' = {}))
         \/ /\ offers' = offers
            /\ t[1].step = "authorization" /\ t[2] = Frame("selected", p)
            /\ \/ /\ step' = "paying" /\ Len(t) = 4
                  /\ t[3].step = "payment_required" /\ t[4].step = "paying"
               \/ /\ step' # "paying" /\ Len(t) = 3
                  /\ t[3].step \in {"refused", "error"}
  BY TryWords
<1> HIDE DEF t
<1>2. \A i \in 1..Len(t) : t[i] \in Frames
  BY <1>1
<1>3. /\ Owing = {}
      /\ step' \in {"trying", "stopped"} => Owing' = {}
      /\ step' = "paying" => OnlyTry(p)'
      /\ step' \in {"trying", "paying", "stopped"}
  BY TryFlow DEF Inv, TypeInv, PurchaseTypes
<1>4. BillShown' = Owing' /\ mine' = "current"
  <2>1. (TypeInv /\ PurchaseInv /\ mine = "current" => BillShown = Owing)'
    BY BillOfCurrent, PTL
  <2> QED
    BY <2>1
<1>5. step = "trying" /\ p \in offers
  BY DEF Try, Cheapest
<1>6. r.seen \cap PaidKinds = {} /\ r.seen \cap LostKinds \subseteq {"service_failed"}
  BY <1>5, NothingShownAsPaid DEF Told
<1> DEFINE r1 == After(r, t[1])
<1>7. Len(t) >= 1 /\ t[1] \in Frames /\ t[1].step \in Neutral
  <2>1. Len(t) >= 1 /\ t[1].step \in Neutral
    BY <1>1 DEF Neutral
  <2> QED
    BY <1>2, <2>1
<1>8. /\ r1 \in Sound({}) /\ r1.who = r.who
      /\ r1.seen \cap PaidKinds = {} /\ r1.seen \cap LostKinds \subseteq {"service_failed"}
  BY <1>6, <1>7, AfterNeutral
<1> HIDE DEF r1
<1>9. CASE offers' # offers
  <2>1. step' \in {"trying", "stopped"} /\ BillShown' = {} /\ (step' = "trying" => offers' # {})
    BY <1>3, <1>4, <1>5, <1>9 DEF Try, Consider
  <2>2. CASE Len(t) = 1
    <3>1. Heard(r, t, Sound({}), r1)
      BY <1>1, <1>8, <2>2, HeardOne DEF r1
    <3>2. Told(r1)'
      BY <1>8, <2>1 DEF Told
    <3> QED
      BY <1>8, <3>1, <3>2, NothingShownAsPaid DEF t
  <2>3. CASE Len(t) = 2
    <3> DEFINE r2 == After(r1, t[2])
    <3>1. t[2] \in Frames /\ t[2].step = "denied" /\ offers' = {}
      BY <1>1, <1>2, <1>9, <2>3
    <3>2. r2 \in Sound({})
      BY <1>8, <3>1, AfterLost
    <3> HIDE DEF r2
    <3>3. Heard(r, t, Sound({}), r2)
      BY <1>1, <1>8, <2>3, <3>2, HeardTwo DEF r1, r2
    <3>4. Told(r2)'
      BY <2>1, <3>1 DEF Told
    <3> QED
      BY <3>2, <3>3, <3>4, NothingShownAsPaid DEF t
  <2> QED
    BY <1>1, <1>9, <2>2, <2>3
<1>10. CASE offers' = offers
  <2> DEFINE r2 == After(r1, t[2])
             r3 == After(r2, t[3])
  <2>1. /\ t[2] = Frame("selected", p) /\ t[3] \in Frames
        /\ \/ step' = "paying" /\ Len(t) = 4 /\ t[3].step = "payment_required" /\ t[4].step = "paying"
           \/ step' # "paying" /\ Len(t) = 3 /\ t[3].step \in {"refused", "error"}
    BY <1>1, <1>2, <1>10
  <2>2. /\ r2 \in Sound({}) /\ r2.who = p
        /\ r2.seen \cap LostKinds = {} /\ r2.seen \cap PaidKinds = {}
    BY <1>8, <2>1, AfterSelected
  <2>3. CASE step' = "paying"
    <3> DEFINE r4 == After(r3, t[4])
    <3> HIDE DEF r2, r3, r4
    <3>1. Len(t) = 4 /\ t[3].step = "payment_required" /\ t[4].step = "paying"
      BY <2>1, <2>3
    <3>2. t[4] \in Frames /\ Len(t) = 4 /\ t[3].step \in Neutral /\ t[4].step \in Neutral
      BY <1>2, <3>1 DEF Neutral
    <3>3. r3 \in Sound({}) /\ r3.who = p /\ r3.seen \cap LostKinds = {}
      BY <2>1, <2>2, <3>2, AfterNeutral DEF r3
    <3>4. r4 \in Sound({}) /\ r4.who = p /\ r4.seen \cap LostKinds = {}
      BY <3>2, <3>3, AfterNeutral DEF r4
    <3>5. Heard(r, t, Sound({}), r4)
      BY <1>1, <1>8, <2>2, <3>2, <3>3, <3>4, HeardFour DEF r1, r2, r3, r4
    <3>6. Told(r4)'
      <4>1. r4.seen \cap FreeKinds = {}
        BY <3>4 DEF LostKinds
      <4> QED
        BY <1>3, <2>3, <3>4, <4>1 DEF Told
    <3> QED
      BY <3>4, <3>5, <3>6, NothingShownAsPaid DEF t
  <2>4. CASE step' # "paying"
    <3>1. step' = "stopped" /\ BillShown' = {}
      BY <1>3, <1>4, <1>5, <1>10, <2>4 DEF Try, Consider
    <3> HIDE DEF r2
    <3>2. r3 \in Sound({})
      <4>1. CASE t[3].step = "refused"
        BY <2>1, <2>2, <4>1, AfterLost
      <4>2. CASE t[3].step = "error"
        BY <2>1, <2>2, <4>2, AfterNeutral DEF Neutral
      <4> QED
        BY <2>1, <2>4, <4>1, <4>2
    <3> HIDE DEF r3
    <3>3. Heard(r, t, Sound({}), r3)
      BY <1>1, <1>8, <2>1, <2>2, <2>4, <3>2, HeardThree DEF r1, r2, r3
    <3>4. Told(r3)'
      BY <3>1 DEF Told
    <3> QED
      BY <3>2, <3>3, <3>4, NothingShownAsPaid DEF t
  <2> QED
    BY <2>3, <2>4
<1> QED
  BY <1>9, <1>10

LEMMA TryStep ==
  ASSUME Inv, NEW p \in Providers, TryNext(p)
  PROVE  Inv'
<1>1. /\ Try(p) /\ UNCHANGED <<failures, answered, cap, known, run, chosen, running, link>>
      /\ UNCHANGED <<mine, asked, owed, taskVars, budget, busy, phase>>
  BY DEF TryNext, Try, lockVars, taskVars, consoleVars, formVars, historyVars
<1>2. PICK said \in Tried :
        Say([i \in DOMAIN said |-> Frame(said[i], IF said[i] = "selected" THEN p ELSE NoOne)]
            \o Plain(IF said = <<"authorization", "selected">> THEN <<"error">> ELSE <<>>))
  BY DEF TryNext
<1> DEFINE t == Spoken(said, p)
                \o Plain(IF said = <<"authorization", "selected">> THEN <<"error">> ELSE <<>>)
<1>3. t \in Seq(Frames)
  BY TryWords
<1>4. frames' = IF link = "open" THEN frames \o t ELSE frames
  BY <1>2 DEF Say, Spoken
<1>5. PurchaseTypes' /\ FlowInv' /\ PurchaseInv'
  BY <1>1, TryFlow DEF Inv, TypeInv, PurchaseTypes
<1> HIDE DEF t
<1>6. frames' \in Seq(Frames)
  BY <1>3, <1>4 DEF Inv, TypeInv
<1>7. TypeInv'
  BY <1>1, <1>5, <1>6 DEF Inv, TypeInv, PurchaseTypes, Now
<1>8. DialogInv'
  BY <1>1, <1>4, DialogStill DEF Inv
<1>9. StreamInv'
  <2>1. busy = "run" /\ step = "trying" /\ step' # "bought"
    BY <1>1 DEF Inv, FlowInv, Try, Consider
  <2>2. mine # "over" /\ (link = "open" => mine = "current")
    BY <2>1 DEF Inv, DialogInv, TypeInv
  <2>3. CASE mine # "current"
    <3>1. frames' = frames
      BY <1>4, <2>2, <2>3
    <3> QED
      BY <1>1, <2>3, <3>1, StreamBystander DEF Inv
  <2>4. CASE mine = "current"
    <3>1. Payee = {} /\ Payee' = {}
      BY <1>1, <2>1, <2>4 DEF Payee
    <3>2. CASE link = "lost"
      BY <1>1, <3>1, <3>2, StreamLost DEF Inv
    <3>3. CASE link = "open"
      <4>1. frames' = frames \o t /\ link' = "open"
        BY <1>1, <1>4, <3>3
      <4>2. \A r \in Sound({}) :
              Told(r) => \E last \in Readings : Heard(r, t, Sound({}), last) /\ Told(last)'
        BY <1>1, <1>5, <1>7, <2>4, TryTold DEF t
      <4> QED
        BY <1>1, <1>3, <3>1, <3>3, <4>1, <4>2, StreamOn DEF Inv
    <3> QED
      BY <2>4, <3>2, <3>3 DEF Inv, TypeInv, DialogInv, FlowInv
  <2> QED
    BY <2>3, <2>4
<1> QED
  BY <1>5, <1>7, <1>8, <1>9 DEF Inv

(* The paying request's answer. *)

LEMMA PayStep ==
  ASSUME Inv, NEW p \in Providers, PayNext(p)
  PROVE  Inv'
<1>1. /\ Pay(p) /\ UNCHANGED <<cap, known, run, chosen, running, link>>
      /\ UNCHANGED <<mine, asked, owed, budget, busy, phase>>
  BY DEF PayNext, Pay, lockVars, consoleVars, formVars, historyVars
<1>2. PICK said \in PaidSteps : Paid(p, said) /\ Say(Plain(said))
  BY DEF PayNext
<1>3. /\ PurchaseTypes' /\ FlowInv' /\ PurchaseInv'
      /\ OnlyTry(p)
      /\ \A o \in Providers : OnlyTry(o) => o = p
      /\ \/ /\ said \in {<<"result">>, <<"settled", "result">>}
            /\ step' = "bought" /\ Owing' = {p} /\ OnlyTry(p)'
            /\ phase'[Quote(p)'] = "charged"
         \/ /\ said = <<"service_failed">>
            /\ step' \in {"trying", "stopped"} /\ Owing' = {}
         \/ said = <<"payment_failed">> /\ step' = "stopped"
         \/ said = <<"refused">> /\ step' = "stopped" /\ Owing' = {}
  BY <1>1, <1>2, PayFlow DEF Inv, TypeInv, PurchaseTypes
<1> DEFINE t == Plain(said)
<1>4. said \in Seq(Kinds)
  <2>1. \/ said = <<"settled", "result">>
        \/ \E k \in {"result", "service_failed", "payment_failed", "refused"} : said = <<k>>
    BY <1>2 DEF PaidSteps
  <2>2. CASE said = <<"settled", "result">>
    BY <2>2 DEF Kinds
  <2>3. ASSUME NEW k \in {"result", "service_failed", "payment_failed", "refused"}, said = <<k>>
        PROVE  said \in Seq(Kinds)
    BY <2>3 DEF Kinds
  <2> QED
    BY <2>1, <2>2, <2>3
<1>5. t \in Seq(Frames) /\ Len(t) = Len(said) /\ \A i \in 1..Len(said) : t[i].step = said[i]
  BY <1>4, PlainType
<1>6. \A i \in 1..Len(t) : t[i] \in Frames
  BY <1>5
<1>7. frames' = IF link = "open" THEN frames \o t ELSE frames
  BY <1>2 DEF Say
<1> HIDE DEF t
<1>8. TypeInv'
  <2>1. frames' \in Seq(Frames)
    BY <1>5, <1>7 DEF Inv, TypeInv
  <2> QED
    BY <1>1, <1>3, <2>1 DEF Inv, TypeInv, PurchaseTypes, Now
<1>9. DialogInv'
  BY <1>1, <1>7, DialogStill DEF Inv
<1>10. StreamInv'
  <2>1. busy = "run" /\ step = "paying"
    BY <1>1 DEF Inv, FlowInv, Pay
  <2>2. mine # "over" /\ (link = "open" => mine = "current")
    BY <2>1 DEF Inv, DialogInv, TypeInv
  <2>3. CASE mine # "current"
    <3>1. frames' = frames
      BY <1>7, <2>2, <2>3
    <3> QED
      BY <1>1, <2>3, <3>1, StreamBystander DEF Inv
  <2>4. CASE mine = "current"
    <3>1. Payee = {}
      BY <2>1, <2>4 DEF Payee
    <3>2. CASE link = "lost"
      BY <1>1, <3>1, <3>2, StreamLost DEF Inv
    <3>3. CASE link = "open"
      <4>1. frames' = frames \o t /\ link' = "open"
        BY <1>1, <1>7, <3>3
      <4>2. BillShown' = Owing' /\ mine' = "current"
        <5>1. (TypeInv /\ PurchaseInv /\ mine = "current" => BillShown = Owing)'
          BY BillOfCurrent, PTL
        <5> QED
          BY <1>1, <1>3, <1>8, <2>4, <5>1
      <4>3. ASSUME NEW r \in Sound(Payee'), Told(r)
            PROVE  \E last \in Readings : Heard(r, t, Sound(Payee'), last) /\ Told(last)'
        <5>1. r.seen \cap LostKinds = {} /\ r.who = p /\ r \in Readings
          BY <1>3, <2>1, <2>4, <4>3 DEF Told, Sound, OnlyTry
        <5>2. r.seen \cap FreeKinds = {}
          BY <5>1 DEF LostKinds
        <5>3. CASE step' = "bought"
          <6>1. /\ said \in {<<"result">>, <<"settled", "result">>}
                /\ Owing' = {p} /\ OnlyTry(p)'
            BY <1>3, <5>3
          <6>2. p \in Payee'
            BY <4>2, <5>3, <6>1 DEF Payee
          <6>3. ASSUME NEW last, last \in Sound(Payee'), last.seen \cap LostKinds = {},
                       last.who = p, "result" \in last.seen
                PROVE  last \in Readings /\ Told(last)'
            <7>1. last.seen \cap FreeKinds = {}
              BY <6>3 DEF LostKinds
            <7> QED
              BY <5>3, <6>1, <6>3, <7>1 DEF Told, Sound
          <6> DEFINE r1 == After(r, t[1])
                     r2 == After(r1, t[2])
          <6>4. CASE said = <<"result">>
            <7>1. Len(t) = 1 /\ t[1] \in Frames /\ t[1].step = "result"
              BY <1>5, <1>6, <6>4
            <7>2. /\ r1 \in Sound(Payee') /\ r1.seen = r.seen \cup {"result"} /\ r1.who = p
                  /\ r1.seen \cap LostKinds = {}
              BY <5>1, <6>2, <7>1, AfterPaid DEF PaidKinds
            <7>3. Heard(r, t, Sound(Payee'), r1)
              BY <1>5, <7>1, <7>2, HeardOne
            <7> HIDE DEF r1
            <7> QED
              BY <6>3, <7>2, <7>3
          <6>5. CASE said = <<"settled", "result">>
            <7>1. /\ Len(t) = 2 /\ t[1] \in Frames /\ t[1].step = "settled"
                  /\ t[2] \in Frames /\ t[2].step = "result"
              BY <1>5, <1>6, <6>5
            <7>2. /\ r1 \in Sound(Payee') /\ r1.who = p /\ r1.seen \cap LostKinds = {}
              BY <5>1, <6>2, <7>1, AfterPaid DEF PaidKinds
            <7> HIDE DEF r1
            <7>3. /\ r2 \in Sound(Payee') /\ r2.seen = r1.seen \cup {"result"} /\ r2.who = p
                  /\ r2.seen \cap LostKinds = {}
              BY <6>2, <7>1, <7>2, AfterPaid DEF PaidKinds
            <7> HIDE DEF r2
            <7>4. Heard(r, t, Sound(Payee'), r2)
              BY <1>5, <7>1, <7>2, <7>3, HeardTwo DEF r1, r2
            <7> QED
              BY <6>3, <7>3, <7>4
          <6> QED
            BY <6>1, <6>4, <6>5
        <5>4. CASE step' # "bought"
          <6>1. Payee' = {} /\ r.seen \cap PaidKinds = {}
            <7>1. Payee' = {}
              BY <4>2, <5>4 DEF Payee
            <7> QED
              BY <4>3, <7>1, NothingShownAsPaid
          <6>2. \E k \in {"service_failed", "payment_failed", "refused"} :
                  /\ said = <<k>>
                  /\ k # "payment_failed" => Owing' = {}
                  /\ step' = "trying" => k = "service_failed"
                  /\ step' \in {"trying", "stopped"}
            BY <1>3, <5>4
          <6>3. PICK k \in {"service_failed", "payment_failed", "refused"} :
                  /\ said = <<k>>
                  /\ k # "payment_failed" => Owing' = {}
                  /\ step' = "trying" => k = "service_failed"
                  /\ step' \in {"trying", "stopped"}
            BY <6>2
          <6> DEFINE r1 == After(r, t[1])
          <6>4. Len(t) = 1 /\ t[1] \in Frames /\ t[1].step = k
            BY <1>5, <1>6, <6>3
          <6>5. r1 \in Sound(Payee') /\ r1.seen = r.seen \cup {k}
            BY <6>1, <6>4, AfterLost
          <6>6. Heard(r, t, Sound(Payee'), r1)
            BY <1>5, <6>4, <6>5, HeardOne
          <6> HIDE DEF r1
          <6>7. k = "payment_failed" => r1.seen \cap FreeKinds = {}
            BY <5>2, <6>5 DEF FreeKinds
          <6>8. k = "service_failed" => r1.seen \cap LostKinds \subseteq {"service_failed"}
            BY <5>1, <6>5
          <6>9. Told(r1)'
            BY <4>2, <6>3, <6>7, <6>8 DEF Told
          <6> QED
            BY <6>5, <6>6, <6>9 DEF Sound
        <5> QED
          BY <5>3, <5>4
      <4> QED
        BY <1>1, <1>5, <3>1, <3>3, <4>1, <4>3, StreamOn DEF Inv
    <3> QED
      BY <2>1, <2>4, <3>2, <3>3 DEF Inv, TypeInv, DialogInv
  <2> QED
    BY <2>3, <2>4
<1> QED
  BY <1>3, <1>8, <1>9, <1>10 DEF Inv

(* A gateway deals with a paying request. *)

LEMMA ServeStep ==
  ASSUME Inv, Gateways
  PROVE  Inv'
<1>1. /\ ServeSent /\ UNCHANGED taskVars /\ UNCHANGED frames
      /\ UNCHANGED <<cap, known, run, chosen, running, link, mine, asked, owed>>
  BY DEF Gateways, consoleVars, formVars, historyVars
<1>2. UNCHANGED <<step, budget, busy>>
  BY <1>1 DEF ServeSent, Serve, orderVars, lockVars
<1>3. /\ PurchaseTypes' /\ FlowInv' /\ PurchaseInv'
      /\ Owing' \subseteq Owing
      /\ \A p \in Providers : OnlyTry(p) => OnlyTry(p)'
      /\ step = "bought" => Owing' = Owing
  BY <1>1, ServeFlow DEF Inv, TypeInv, PurchaseTypes
<1>4. TypeInv'
  BY <1>1, <1>3 DEF Inv, TypeInv, PurchaseTypes, Now
<1>5. DialogInv'
  BY <1>1, <1>2, DialogStill DEF Inv
<1>6. StreamInv'
  <2>1. CASE mine # "current"
    BY <1>1, <2>1, StreamBystander DEF Inv
  <2>2. CASE mine = "current"
    <3>1. BillShown = Owing /\ BillShown' = Owing'
      <4>1. (TypeInv /\ PurchaseInv /\ mine = "current" => BillShown = Owing)'
        BY BillOfCurrent, PTL
      <4> QED
        BY <1>1, <1>3, <1>4, <2>2, <4>1, BillOfCurrent DEF Inv
    <3>2. Payee \subseteq Payee'
      BY <1>1, <1>2, <1>3, <2>2, <3>1 DEF Payee
    <3>3. \A r \in Readings : Told(r) => Told(r)'
      <4> SUFFICES ASSUME NEW r \in Readings, Told(r) PROVE Told(r)'
        OBVIOUS
      <4>1. OnlyTry(r.who) => OnlyTry(r.who)'
        BY <1>3 DEF OnlyTry
      <4> QED
        BY <1>1, <1>2, <1>3, <3>1, <4>1 DEF Told
    <3> QED
      BY <1>1, <3>2, <3>3, StreamStill DEF Inv
  <2> QED
    BY <2>1, <2>2
<1> QED
  BY <1>3, <1>4, <1>5, <1>6 DEF Inv

(* The end of the task: what it charged is remembered, and a receipt is    *)
(* shown only of what was bought.                                          *)
LEMMA EndStep ==
  ASSUME Inv, EndTask
  PROVE  Inv'
<1>1. /\ busy = "run" /\ Unlock /\ failures' = FALSE /\ answered' = {}
      /\ UNCHANGED <<cap, known, run, chosen, running, link>>
  BY DEF EndTask, consoleVars, formVars
<1>2. PurchaseTypes' /\ FlowInv' /\ PurchaseInv' /\ busy' # "run"
  BY <1>1, UnlockFlow DEF Inv, TypeInv, PurchaseTypes
<1>3. PICK said \in {<<"audited", "done">>, <<"audit_pending", "done">>, <<"done">>} :
        /\ Say(Plain(said))
        /\ said = <<"audited", "done">> => step = "bought"
  <2>1. CASE step = "bought"
    BY <2>1 DEF EndTask, AuditSteps
  <2>2. CASE step # "bought"
    <3>1. <<"done">> # <<"audited", "done">>
      BY Len(<<"done">>) = 1, Len(<<"audited", "done">>) = 2
    <3> QED
      BY <2>2, <3>1 DEF EndTask
  <2> QED
    BY <2>1, <2>2
<1> DEFINE t == Plain(said)
<1>4. said \in Seq(Kinds) /\ said[Len(said)] = "done" /\ Len(said) \in {1, 2}
      /\ (Len(said) = 2 => said[1] \in {"audited", "audit_pending"})
      /\ (Len(said) = 2 /\ said[1] = "audited" => step = "bought")
  <2>1. CASE said = <<"audited", "done">>
    BY <1>3, <2>1 DEF Kinds
  <2>2. CASE said = <<"audit_pending", "done">>
    BY <2>2 DEF Kinds
  <2>3. CASE said = <<"done">>
    BY <2>3 DEF Kinds
  <2> QED
    BY <2>1, <2>2, <2>3
<1>5. t \in Seq(Frames) /\ Len(t) = Len(said) /\ \A i \in 1..Len(said) : t[i].step = said[i]
  BY <1>4, PlainType
<1>6. \A i \in 1..Len(t) : t[i] \in Frames
  BY <1>5
<1>7. frames' = IF link = "open" THEN frames \o t ELSE frames
  BY <1>3 DEF Say
<1>8. \/ mine = "current" /\ mine' = "over" /\ owed' = Bill /\ asked' = asked
      \/ mine # "current" /\ UNCHANGED <<mine, asked, owed>>
  BY DEF EndTask, historyVars
<1> HIDE DEF t
<1>9. mine # "over" /\ (link = "open" => mine = "current")
  BY <1>1 DEF Inv, DialogInv, TypeInv
<1>10. Bill = Owing
  BY BillIsOwing DEF Inv, TypeInv, PurchaseTypes
<1>11. TypeInv'
  <2>1. frames' \in Seq(Frames)
    BY <1>5, <1>7 DEF Inv, TypeInv
  <2>2. owed' \subseteq Providers /\ mine' \in {"none", "current", "over"} /\ asked' \in Nat
    BY <1>8, <1>10 DEF Inv, TypeInv, Owing
  <2> QED
    BY <1>1, <1>2, <2>1, <2>2 DEF Inv, TypeInv, PurchaseTypes, Now
<1>12. DialogInv'
  <2>1. mine = "current" => \A p \in owed' : Price[p] <= asked'
    <3> SUFFICES ASSUME mine = "current", NEW p \in Owing PROVE Price[p] <= asked
      BY <1>8, <1>10
    <3>1. Price[p] <= budget /\ budget <= asked
      BY DEF Inv, PurchaseInv, DialogInv, Owing
    <3>2. Price[p] \in Nat /\ budget \in Nat /\ asked \in Nat
      BY PurchaseAssumption DEF Owing, Inv, TypeInv, PurchaseTypeOK
    <3> QED
      BY <3>1, <3>2
  <2>2. link # "open" => frames' = frames
    BY <1>7
  <2> QED
    BY <1>1, <1>2, <1>8, <1>9, <2>1, <2>2 DEF Inv, DialogInv
<1>13. StreamInv'
  <2>1. CASE mine # "current"
    <3>1. frames' = frames
      BY <1>7, <1>9, <2>1
    <3> QED
      BY <1>1, <1>8, <2>1, <3>1, StreamBystander DEF Inv
  <2>2. CASE mine = "current"
    <3>1. BillShown' = BillShown /\ BillShown = Owing /\ mine' = "over"
      BY <1>8, <1>10, <2>2 DEF BillShown
    <3>2. Payee' = {p \in Providers : Owing = {p}} /\ Payee \subseteq Payee'
      BY <3>1 DEF Payee
    <3>3. CASE link = "lost"
      BY <1>1, <3>2, <3>3, StreamLost DEF Inv
    <3>4. CASE link = "open"
      <4>1. frames' = frames \o t /\ link' = "open"
        BY <1>1, <1>7, <3>4
      <4>2. ASSUME NEW r \in Sound(Payee'), Told(r)
            PROVE  \E last \in Readings : Heard(r, t, Sound(Payee'), last) /\ Told(last)'
        <5>1. r.seen \cap FreeKinds # {} => BillShown' = {}
          BY <3>1, <4>2 DEF Told
        <5>2. ASSUME NEW last, last \in Sound(Payee'), last.seen \cap FreeKinds = r.seen \cap FreeKinds
              PROVE  last \in Readings /\ Told(last)'
          BY <3>1, <5>1, <5>2 DEF Told, Sound
        <5> DEFINE r1 == After(r, t[1])
                   r2 == After(r1, t[2])
        <5>3. CASE Len(said) = 1
          <6>1. Len(t) = 1 /\ t[1] \in Frames /\ t[1].step \in Neutral
            BY <1>4, <1>5, <1>6, <5>3 DEF Neutral
          <6>2. r1 \in Sound(Payee') /\ r1.seen \cap FreeKinds = r.seen \cap FreeKinds
            BY <6>1, AfterNeutral
          <6>3. Heard(r, t, Sound(Payee'), r1)
            BY <1>5, <6>1, <6>2, HeardOne
          <6> HIDE DEF r1
          <6> QED
            BY <5>2, <6>2, <6>3
        <5>4. CASE Len(said) = 2
          <6>1. /\ Len(t) = 2 /\ t[1] \in Frames /\ t[1].step \in {"audited", "audit_pending"}
                /\ t[2] \in Frames /\ t[2].step \in Neutral
                /\ t[1].step = "audited" => step = "bought"
            BY <1>4, <1>5, <1>6, <5>4 DEF Neutral
          <6>2. r1 \in Sound(Payee') /\ r1.seen \cap FreeKinds = r.seen \cap FreeKinds
            <7>1. CASE t[1].step = "audit_pending"
              BY <6>1, <7>1, AfterNeutral DEF Neutral
            <7>2. CASE t[1].step = "audited"
              <8>1. /\ step = "bought" /\ r.seen \cap LostKinds = {} /\ "result" \in r.seen
                    /\ OnlyTry(r.who)
                BY <2>2, <4>2, <6>1, <7>2 DEF Told
              <8>2. r.who \in Payee'
                <9>1. PICK p \in Providers : OnlyTry(p) /\ phase[Quote(p)] = "charged"
                  BY <8>1 DEF Inv, PurchaseInv
                <9>2. answered = {}
                  BY <8>1 DEF Inv, PurchaseInv
                <9>3. p = r.who
                  BY <8>1, <9>1 DEF OnlyTry
                <9>4. Owing = {p}
                  BY <9>1, <9>2 DEF Owing, OnlyTry
                <9> QED
                  BY <3>2, <9>3, <9>4
              <8>3. r1 \in Sound(Payee') /\ r1.seen \cap LostKinds = {}
                BY <6>1, <7>2, <8>1, <8>2, AfterPaid DEF PaidKinds
              <8> QED
                BY <8>1, <8>3 DEF LostKinds
            <7> QED
              BY <6>1, <7>1, <7>2
          <6> HIDE DEF r1
          <6>3. r2 \in Sound(Payee') /\ r2.seen \cap FreeKinds = r1.seen \cap FreeKinds
            BY <6>1, <6>2, AfterNeutral
          <6> HIDE DEF r2
          <6>4. Heard(r, t, Sound(Payee'), r2)
            BY <1>5, <6>1, <6>2, <6>3, HeardTwo DEF r1, r2
          <6> QED
            BY <5>2, <6>2, <6>3, <6>4
        <5> QED
          BY <1>4, <5>3, <5>4
      <4> QED
        BY <1>1, <1>5, <3>2, <3>4, <4>1, <4>2, StreamOn DEF Inv
    <3> QED
      BY <1>1, <2>2, <3>3, <3>4 DEF Inv, TypeInv, DialogInv
  <2> QED
    BY <2>1, <2>2
<1> QED
  BY <1>2, <1>11, <1>12, <1>13 DEF Inv

(* What the dialog does by itself. *)

LEMMA StartStep ==
  ASSUME Inv, Start
  PROVE  Inv'
<1>1. /\ CanRun /\ link' = "open" /\ run' = {} /\ chosen' = NoOne /\ running' = TRUE
      /\ mine' = "current" /\ asked' = cap /\ owed' = {} /\ UNCHANGED <<cap, known, failures, answered>>
      /\ busy' = "run"
  BY DEF Start, TryLock, formVars, taskVars
<1>2. /\ PurchaseTypes' /\ FlowInv' /\ PurchaseInv'
      /\ sent' = {} /\ step' \in {"trying", "stopped"}
      /\ step' = "trying" <=> offers' # {}
      /\ budget' = cap
  BY StartFlow DEF Inv
<1>3. PICK said \in Opening("inference", Granted) : frames' = Plain(said)
  BY DEF Start
<1>4. /\ said \in Seq(Kinds) /\ Len(said) \in {2, 3}
      /\ said[1] = "discovered"
      /\ said[2] \in {"quote", "no_provider", "unavailable"}
      /\ said[2] = "quote" => (Len(said) = 2 /\ offers' # {}) \/ (Len(said) = 3 /\ said[3] = "over_budget" /\ offers' = {})
      /\ said[2] # "quote" => Len(said) = 2 /\ offers' = {}
  <2>1. CASE offers' # {}
    <3>1. said = <<"discovered", "quote">>
      BY <1>3, <2>1 DEF Opening
    <3> QED
      BY <2>1, <3>1 DEF Kinds
  <2>2. CASE offers' = {}
    <3>1. \/ said = <<"discovered", "no_provider">> \/ said = <<"discovered", "unavailable">>
          \/ said = <<"discovered", "quote", "over_budget">>
      BY <1>3, <2>2 DEF Opening
    <3>2. CASE said = <<"discovered", "no_provider">>
      BY <2>2, <3>2 DEF Kinds
    <3>3. CASE said = <<"discovered", "unavailable">>
      BY <2>2, <3>3 DEF Kinds
    <3>4. CASE said = <<"discovered", "quote", "over_budget">>
      BY <2>2, <3>4 DEF Kinds
    <3> QED
      BY <3>1, <3>2, <3>3, <3>4
  <2> QED
    BY <2>1, <2>2
<1> DEFINE t == Plain(said)
<1>5. t \in Seq(Frames) /\ Len(t) = Len(said) /\ \A i \in 1..Len(said) : t[i].step = said[i]
  BY <1>4, PlainType
<1>6. \A i \in 1..Len(t) : t[i] \in Frames
  BY <1>5
<1>7. frames' = t
  BY <1>3
<1> HIDE DEF t
<1>8. TypeInv'
  <2>1. Now' \in Readings
    BY <1>1 DEF Now, Readings, Somebody
  <2> QED
    BY <1>1, <1>2, <1>5, <1>7, <2>1 DEF Inv, TypeInv, PurchaseTypes
<1>9. DialogInv'
  <2>1. cap \in Nat
    BY DEF Inv, TypeInv
  <2> QED
    BY <1>1, <1>2, <2>1 DEF DialogInv
<1>10. BillShown' = {} /\ Payee' = {}
  <2>1. (TypeInv /\ PurchaseInv /\ mine = "current" => BillShown = Owing)'
    BY BillOfCurrent, PTL
  <2>2. Owing' = {}
    BY <1>2 DEF Owing
  <2> QED
    BY <1>1, <1>2, <1>8, <2>1, <2>2 DEF Payee
<1>11. StreamInv'
  <2> DEFINE r0 == [seen |-> {}, who |-> NoOne]
             r1 == After(r0, t[1])
             r2 == After(r1, t[2])
             r3 == After(r2, t[3])
  <2>1. r0 \in Sound({}) /\ Now' = r0
    BY <1>1 DEF Sound, Readings, Somebody, Now
  <2>2. /\ t[1] \in Frames /\ t[1].step = "discovered"
        /\ t[2] \in Frames /\ t[2].step = said[2]
        /\ Len(t) = 3 => t[3] \in Frames /\ t[3].step = said[3]
    <3>1. 1 \in 1..Len(t) /\ 2 \in 1..Len(t) /\ (Len(t) = 3 => 3 \in 1..Len(t))
      BY <1>4, <1>5
    <3> QED
      BY <1>4, <1>5, <1>6, <3>1
  <2>3. r1 \in Sound({}) /\ r1 = [seen |-> {"discovered"}, who |-> NoOne]
    <3>1. r0 \in Readings /\ t[1].step # "selected" /\ t[1].step \in Neutral
      BY <2>1, <2>2 DEF Sound, Neutral
    <3>2. r1 = [seen |-> r0.seen \cup {t[1].step}, who |-> r0.who]
      BY <2>2, <3>1, AfterType
    <3>3. r1 \in Sound({})
      BY <2>1, <2>2, <3>1, AfterNeutral
    <3> QED
      BY <2>2, <3>2, <3>3
  <2> HIDE DEF r0, r1
  <2>4. r2 \in Sound({}) /\ r2 = [seen |-> {"discovered", said[2]}, who |-> NoOne]
    <3>1. r1 \in Readings /\ t[2].step # "selected"
      BY <1>4, <2>2, <2>3 DEF Sound
    <3>2. r2 = [seen |-> r1.seen \cup {t[2].step}, who |-> r1.who] /\ r2 \in Readings
      BY <2>2, <3>1, AfterType
    <3>3. r2.seen = {"discovered", said[2]} /\ r2.who = NoOne
      BY <2>2, <2>3, <3>2
    <3>4. r2.seen \cap PaidKinds = {} /\ "audited" \notin r2.seen /\ "selected" \notin r2.seen
          /\ ("no_provider" \in r2.seen => "quote" \notin r2.seen)
      BY <1>4, <3>3 DEF PaidKinds
    <3> HIDE DEF r2
    <3> QED
      BY <2>2, <2>3, <3>2, <3>3, <3>4 DEF Sound
  <2> HIDE DEF r2
  <2>5. ASSUME NEW last \in Sound({}), Heard(r0, t, Sound({}), last), Told(last)'
        PROVE  StreamInv'
    BY <1>1, <1>7, <1>10, <2>1, <2>5, NothingShownAsPaid DEF StreamInv
  <2>6. CASE Len(said) = 2
    <3>1. Heard(r0, t, Sound({}), r2)
      BY <1>5, <2>1, <2>3, <2>4, <2>6, HeardTwo DEF r1, r2
    <3>2. Told(r2)'
      <4>1. step' = "trying" => said[2] = "quote"
        BY <1>2, <1>4, <2>6
      <4>2. said[2] = "quote" => r2.seen \cap LostKinds = {}
        BY <2>4 DEF LostKinds, FreeKinds
      <4> QED
        BY <1>2, <1>10, <4>1, <4>2 DEF Told
    <3> QED
      BY <2>4, <2>5, <3>1, <3>2
  <2>7. CASE Len(said) = 3
    <3>1. t[3] \in Frames /\ t[3].step = "over_budget" /\ said[2] = "quote" /\ offers' = {}
      BY <1>4, <1>5, <2>2, <2>7
    <3>2. r2 \in Readings /\ r2.seen = {"discovered", "quote"}
      BY <2>4, <3>1 DEF Sound
    <3>3. r3 = [seen |-> r2.seen \cup {"over_budget"}, who |-> r2.who] /\ r3 \in Readings
      BY <3>1, <3>2, AfterType
    <3>4. r3.seen = {"discovered", "quote", "over_budget"}
      BY <3>2, <3>3
    <3>5. r3.seen \cap PaidKinds = {} /\ "audited" \notin r3.seen /\ "selected" \notin r3.seen
          /\ "no_provider" \notin r3.seen
      BY <3>4 DEF PaidKinds
    <3> HIDE DEF r3
    <3>6. r3 \in Sound({})
      BY <3>3, <3>5 DEF Sound
    <3>7. Heard(r0, t, Sound({}), r3)
      BY <1>5, <2>1, <2>3, <2>4, <2>7, <3>6, HeardThree DEF r1, r2, r3
    <3>8. Told(r3)'
      BY <1>2, <1>10, <3>1 DEF Told
    <3> QED
      BY <2>5, <3>6, <3>7, <3>8
  <2> QED
    BY <1>4, <2>6, <2>7
<1> QED
  BY <1>2, <1>8, <1>9, <1>11 DEF Inv

(* Nothing of the task is shown any more.                                  *)
LEMMA Afresh ==
  ASSUME Inv, UNCHANGED <<purchaseVars, lockVars, taskVars>>,
         cap' \in Nat,
         link' = "none", chosen' = NoOne, running' = FALSE,
         frames' = <<>>, mine' = "none", asked' = 0, owed' = {},
         run' \subseteq {"error"}
  PROVE  Inv'
<1>1. UNCHANGED <<order, step, offers, budget, phase, sent, busy, queued, failures, answered>>
  BY DEF purchaseVars, orderVars, lockVars, taskVars
<1>2. PurchaseTypes' /\ FlowInv' /\ PurchaseInv'
  BY <1>1 DEF Inv, TypeInv, PurchaseTypes, PurchaseTypeOK, FlowInv, PurchaseInv, OnlyTry, Quote
<1>3. TypeInv'
  <2>1. Now' \in Readings
    BY DEF Now, Readings, Somebody, Kinds
  <2>2. <<>> \in Seq(Frames)
    OBVIOUS
  <2> QED
    BY <1>2, <2>1, <2>2 DEF TypeInv, PurchaseTypes
<1>4. DialogInv'
  BY DEF DialogInv
<1>5. StreamInv'
  <2>1. run' \cap LostKinds = {} /\ run' \cap FreeKinds = {} /\ run' \cap PaidKinds = {}
        /\ "audited" \notin run' /\ "no_provider" \notin run' /\ "selected" \notin run'
    BY DEF LostKinds, FreeKinds, PaidKinds
  <2>2. Now' \in Sound(Payee')
    BY <1>3, <2>1 DEF TypeInv, Now, Sound
  <2>3. PICK last \in Readings : last = Now'
    BY <1>3 DEF TypeInv
  <2>4. Told(last)'
    BY <2>1, <2>3 DEF Told, Now
  <2>5. Heard(Now', frames', Sound(Payee'), last)
    BY <2>2, <2>3, HeardNothing
  <2> QED
    BY <2>4, <2>5 DEF StreamInv
<1> QED
  BY <1>2, <1>3, <1>4, <1>5 DEF Inv

(* What leaves the task and its bill alone.                                *)
LEMMA TaskStill ==
  ASSUME Inv, UNCHANGED <<purchaseVars, lockVars, taskVars, historyVars>>
  PROVE  /\ PurchaseTypes' /\ FlowInv' /\ PurchaseInv'
         /\ UNCHANGED <<budget, busy, mine, asked, owed>>
         /\ BillShown' = BillShown /\ Payee' = Payee
         /\ \A r : Told(r) => Told(r)'
<1>1. /\ UNCHANGED <<order, step, offers, budget, phase, sent, busy, queued, failures, answered>>
      /\ UNCHANGED <<mine, asked, owed>>
  BY DEF purchaseVars, orderVars, lockVars, taskVars, historyVars
<1>2. PurchaseTypes' /\ FlowInv' /\ PurchaseInv'
  BY <1>1 DEF Inv, TypeInv, PurchaseTypes, PurchaseTypeOK, FlowInv, PurchaseInv, OnlyTry, Quote
<1>3. BillShown' = BillShown
  BY <1>1 DEF BillShown, Bill, BillOf, MayCharge
<1>4. Payee' = Payee
  BY <1>1, <1>3 DEF Payee
<1>5. \A r : Told(r) => Told(r)'
  BY <1>1, <1>3 DEF Told, OnlyTry, Quote
<1> QED
  BY <1>1, <1>2, <1>3, <1>4, <1>5

LEMMA FormStep ==
  ASSUME Inv, UNCHANGED <<purchaseVars, lockVars, taskVars, historyVars>>,
         UNCHANGED <<frames, run, chosen, running, link>>, cap' \in Nat
  PROVE  Inv'
<1>1. /\ PurchaseTypes' /\ FlowInv' /\ PurchaseInv'
      /\ UNCHANGED <<budget, busy, mine, asked, owed>>
      /\ Payee' = Payee /\ \A r : Told(r) => Told(r)'
  BY TaskStill
<1>2. TypeInv'
  BY <1>1 DEF Inv, TypeInv, PurchaseTypes, Now
<1>3. DialogInv'
  BY <1>1, DialogStill DEF Inv
<1>4. StreamInv'
  BY <1>1, StreamStill DEF Inv
<1> QED
  BY <1>1, <1>2, <1>3, <1>4 DEF Inv

LEMMA ReadStep ==
  ASSUME Inv, Read
  PROVE  Inv'
<1>1. /\ link = "open" /\ frames # <<>> /\ frames' = Tail(frames)
      /\ UNCHANGED <<purchaseVars, lockVars, taskVars, historyVars>>
      /\ UNCHANGED <<cap, running, link>>
      /\ run' = Reduce(run, Head(frames).step)
      /\ chosen' = IF Head(frames).step = "selected" THEN Head(frames).provider ELSE chosen
  BY DEF Read, formVars
<1>2. /\ PurchaseTypes' /\ FlowInv' /\ PurchaseInv'
      /\ UNCHANGED <<budget, busy, mine, asked, owed>>
      /\ Payee' = Payee /\ \A r : Told(r) => Told(r)'
  BY <1>1, TaskStill
<1>3. Head(frames) \in Frames /\ Tail(frames) \in Seq(Frames) /\ frames \in Seq(Frames) /\ Now \in Readings
  BY <1>1 DEF Inv, TypeInv
<1>4. Now' = After(Now, Head(frames))
  BY <1>1 DEF Now, After
<1>5. TypeInv'
  <2>1. Now' \in Readings
    BY <1>3, <1>4, AfterType
  <2> QED
    BY <1>1, <1>2, <1>3, <2>1 DEF Inv, TypeInv, PurchaseTypes
<1>6. DialogInv'
  BY <1>1, <1>2, DialogStill DEF Inv
<1>7. StreamInv'
  <2>1. PICK last \in Readings : Heard(Now, frames, Sound(Payee), last) /\ Told(last)
    BY <1>1 DEF Inv, StreamInv
  <2>2. Heard(After(Now, Head(frames)), Tail(frames), Sound(Payee), last)
    BY <1>1, <1>3, <2>1, HeardHead
  <2>3. Heard(Now', frames', Sound(Payee'), last) /\ Told(last)'
    BY <1>1, <1>2, <1>4, <2>1, <2>2
  <2> QED
    BY <1>1, <2>3 DEF StreamInv
<1> QED
  BY <1>2, <1>5, <1>6, <1>7 DEF Inv

LEMMA EndOfStreamStep ==
  ASSUME Inv, EndOfStream
  PROVE  Inv'
<1>1. /\ link = "open" /\ mine = "over" /\ frames = <<>> /\ link' = "ended" /\ running' = FALSE
      /\ UNCHANGED <<purchaseVars, lockVars, taskVars, historyVars>>
      /\ UNCHANGED <<cap, frames, run, chosen>>
  BY DEF EndOfStream, formVars
<1>2. /\ PurchaseTypes' /\ FlowInv' /\ PurchaseInv'
      /\ UNCHANGED <<budget, busy, mine, asked, owed>>
      /\ Payee' = Payee /\ \A r : Told(r) => Told(r)'
  BY <1>1, TaskStill
<1>3. TypeInv'
  BY <1>1, <1>2 DEF Inv, TypeInv, PurchaseTypes, Now
<1>4. DialogInv'
  BY <1>1, <1>2 DEF Inv, DialogInv
<1>5. StreamInv'
  BY <1>1, <1>2, StreamStill DEF Inv
<1> QED
  BY <1>2, <1>3, <1>4, <1>5 DEF Inv

(* What was sound stays sound with an error shown.                         *)
LEMMA BreakStep ==
  ASSUME Inv, Break
  PROVE  Inv'
<1>1. /\ link = "open" /\ link' = "lost" /\ run' = run \cup {"error"} /\ running' = FALSE
      /\ frames' = <<>>
      /\ UNCHANGED <<purchaseVars, lockVars, taskVars, historyVars>>
      /\ UNCHANGED <<cap, chosen>>
  BY DEF Break, formVars
<1>2. /\ PurchaseTypes' /\ FlowInv' /\ PurchaseInv'
      /\ UNCHANGED <<budget, busy, mine, asked, owed>>
      /\ Payee' = Payee
  BY <1>1, TaskStill
<1> DEFINE f == Frame("error", NoOne)
<1>3. f \in Frames /\ f.step = "error" /\ f.step \in Neutral
  BY DEF Frame, Frames, Kinds, Somebody, Neutral
<1>4. Now \in Sound(Payee)
  <2>1. PICK last \in Readings : Heard(Now, frames, Sound(Payee), last)
    BY <1>1 DEF Inv, StreamInv
  <2> QED
    BY <2>1, HeardFirst DEF Inv, TypeInv
<1>5. Now' = After(Now, f)
  <2>1. After(Now, f) = [seen |-> Now.seen \cup {"error"}, who |-> Now.who]
    BY <1>3, AfterType DEF Inv, TypeInv
  <2> QED
    BY <1>1, <2>1 DEF Now
<1> HIDE DEF f
<1>6. Now' \in Sound(Payee')
  BY <1>2, <1>3, <1>4, <1>5, AfterNeutral
<1>7. TypeInv'
  <2>1. Now' \in Readings /\ <<>> \in Seq(Frames)
    BY <1>6 DEF Sound
  <2> QED
    BY <1>1, <1>2, <2>1 DEF Inv, TypeInv, PurchaseTypes
<1>8. DialogInv'
  BY <1>1, <1>2 DEF Inv, DialogInv
<1>9. StreamInv'
  BY <1>1, <1>6 DEF StreamInv
<1> QED
  BY <1>2, <1>7, <1>8, <1>9 DEF Inv

(* A response to an incident, which nobody here reads about.               *)
LEMMA ElsewhereStep ==
  ASSUME Inv, ElsewhereBegins \/ ElsewhereEnds
  PROVE  Inv'
<1>1. /\ UNCHANGED <<failures, answered, frames, cap, run, chosen, running, link, mine, asked, owed>>
      /\ busy # "run" /\ busy' # "run"
  BY DEF ElsewhereBegins, ElsewhereEnds, LockOrWait, Unlock, taskVars, consoleVars, formVars, historyVars
<1>2. mine # "current"
  BY <1>1 DEF Inv, DialogInv
<1>3. PurchaseTypes' /\ FlowInv' /\ PurchaseInv'
  <2>1. CASE ElsewhereBegins
    <3>1. /\ busy' = "response" /\ UNCHANGED <<order, step, offers, budget, phase, sent, queued>>
      BY <2>1 DEF ElsewhereBegins, LockOrWait, purchaseVars, orderVars
    <3> QED
      BY <1>1, <3>1 DEF Inv, TypeInv, PurchaseTypes, PurchaseTypeOK, FlowInv, PurchaseInv, OnlyTry, Quote
  <2>2. CASE ElsewhereEnds
    <3>1. Unlock /\ answered' = {} /\ failures' \in BOOLEAN
      BY <1>1, <2>2 DEF ElsewhereEnds, Inv, FlowInv, TypeInv
    <3> QED
      BY <3>1, UnlockFlow DEF Inv, TypeInv, PurchaseTypes
  <2> QED
    BY <2>1, <2>2
<1>4. TypeInv'
  BY <1>1, <1>3 DEF Inv, TypeInv, PurchaseTypes, Now
<1>5. DialogInv'
  BY <1>1, <1>2 DEF Inv, DialogInv
<1>6. StreamInv'
  BY <1>1, <1>2, StreamBystander DEF Inv
<1> QED
  BY <1>3, <1>4, <1>5, <1>6 DEF Inv

-----------------------------------------------------------------------------
(***************************************************************************)
(* Together, and what the dialog shows.                                    *)
(***************************************************************************)

LEMMA InvStarts == Init => Inv
<1> SUFFICES ASSUME Init PROVE Inv
  OBVIOUS
<1>1. /\ order = 0 /\ step = "none" /\ offers = {} /\ budget = 0 /\ sent = {}
      /\ phase = [q \in Quotes |-> "open"] /\ busy = "free" /\ queued = FALSE
      /\ failures = FALSE /\ answered = {}
      /\ cap = 0 /\ frames = <<>> /\ link = "none" /\ run = {} /\ chosen = NoOne
      /\ running = FALSE /\ mine = "none" /\ asked = 0 /\ owed = {}
  BY DEF Init, PurchaseInit, TaskInit, Idle
<1>2. 0 \in 0..MaxAtomic
  BY PurchaseAssumption
<1>3. PurchaseTypes /\ FlowInv /\ PurchaseInv
  BY <1>1, <1>2 DEF PurchaseTypes, PurchaseTypeOK, Contract!Phases, FlowInv, PurchaseInv
<1>4. TypeInv
  <2>1. Now \in Readings /\ <<>> \in Seq(Frames)
    BY <1>1 DEF Now, Readings, Somebody
  <2> QED
    BY <1>1, <1>3, <2>1 DEF TypeInv, PurchaseTypes
<1>5. DialogInv
  BY <1>1 DEF DialogInv
<1>6. StreamInv
  <2>1. Now \in Sound(Payee)
    BY <1>1, <1>4 DEF TypeInv, Now, Sound
  <2>2. Told(Now)
    BY <1>1 DEF Told, Now
  <2>3. Heard(Now, frames, Sound(Payee), Now)
    BY <1>1, <2>1, HeardNothing
  <2> QED
    BY <1>4, <2>1, <2>2, <2>3 DEF StreamInv, TypeInv
<1> QED
  BY <1>3, <1>4, <1>5, <1>6 DEF Inv

LEMMA InvStep == Inv /\ [Next]_vars => Inv'
<1> SUFFICES ASSUME Inv, [Next]_vars PROVE Inv'
  OBVIOUS
<1>1. cap \in Nat /\ MaxAtomic \in Nat /\ Caps \subseteq Nat
  BY PurchaseAssumption, ConsoleAssumption DEF Inv, TypeInv
<1>2. CASE LearnRunner
  BY <1>1, <1>2, FormStep DEF LearnRunner
<1>3. ASSUME NEW c \in Caps, TypeCap(c) PROVE Inv'
  BY <1>1, <1>3, FormStep DEF TypeCap
<1>4. CASE Start
  BY <1>4, StartStep
<1>5. CASE Refused
  BY <1>1, <1>5, Afresh DEF Refused, formVars
<1>6. CASE Buying
  BY <1>6, TryStep, PayStep DEF Buying
<1>7. CASE Gateways
  BY <1>7, ServeStep
<1>8. CASE EndTask
  BY <1>8, EndStep
<1>9. CASE Reading
  BY <1>9, ReadStep, EndOfStreamStep DEF Reading
<1>10. CASE Break
  BY <1>10, BreakStep
<1>11. CASE Leave
  BY <1>11, Afresh DEF Leave
<1>12. CASE ElsewhereBegins \/ ElsewhereEnds
  BY <1>12, ElsewhereStep
<1>13. CASE UNCHANGED vars
  BY <1>1, <1>13, FormStep DEF vars, consoleVars, formVars
<1> QED
  BY <1>2, <1>3, <1>4, <1>5, <1>6, <1>7, <1>8, <1>9, <1>10, <1>11, <1>12, <1>13 DEF Next

(* However the purchase, its gateways, the stream and the dialog take      *)
(* turns: what is shown fits what the task has done, and every reading its *)
(* messages can still come to does too.                                    *)
THEOREM DialogInvariant == Spec => []Inv
BY InvStarts, InvStep, PTL DEF Spec

(* RunAgentModal.tsx:229-231,344,438-446,466,492-496,518.  Where the       *)
(* dialog has read all there was and says that nothing was paid, nothing   *)
(* was and nothing will be.                                                *)
THEOREM NothingIsPaidUnsaid == Spec => []NothingPaidIsTrue
<1>1. Inv => NothingPaidIsTrue
  <2> SUFFICES ASSUME Inv, UpToDate, PromisesNoPayment PROVE BillShown = {}
    BY DEF NothingPaidIsTrue
  <2>1. frames = <<>> /\ link # "lost"
    BY DEF UpToDate
  <2>2. PICK last \in Readings : Heard(Now, <<>>, Sound(Payee), last) /\ Told(last)
    BY <2>1 DEF Inv, StreamInv
  <2>3. Told(Now)
    BY <2>2, HeardAll
  <2> QED
    BY <2>3 DEF Told, Now, PromisesNoPayment, FreeKinds
<1> QED
  BY <1>1, DialogInvariant, PTL

(* What the dialog shows is sound, whatever is still on its way.           *)
LEMMA NowIsSound ==
  ASSUME Inv
  PROVE  Now \in Sound(Payee)
<1>1. CASE link = "lost"
  BY <1>1 DEF Inv, StreamInv
<1>2. CASE link # "lost"
  <2>1. PICK last \in Readings : Heard(Now, frames, Sound(Payee), last)
    BY <1>2 DEF Inv, StreamInv
  <2> QED
    BY <2>1, HeardFirst DEF Inv, TypeInv
<1> QED
  BY <1>1, <1>2

(* The stages, left to right: what a failed one rules out behind it.       *)
LEMMA StagesInOrder ==
  ASSUME Inv, NEW i \in 1..7, NEW j \in 1..7, i < j, Stages[i] = "failed"
  PROVE  Stages[j] # "done"
<1>1. /\ "audited" \in run => "result" \in run
      /\ run \cap LostKinds # {} => run \cap PaidKinds = {}
      /\ "no_provider" \in run => run \cap {"quote", "selected"} = {}
      /\ run \cap {"over_budget", "unavailable"} # {} => "selected" \notin run
  BY NowIsSound DEF Sound, Now
<1>2. \A k : Has({k}) <=> k \in run
  BY DEF Has
<1>3. \A k, l : Has({k, l}) <=> k \in run \/ l \in run
  BY DEF Has
<1>4. /\ Stages[1] = DiscoverStage /\ Stages[2] = QuoteStage /\ Stages[3] = AuthorizeStage
      /\ Stages[4] = PayStage /\ Stages[5] = ExecuteStage /\ Stages[6] = ResultStage
      /\ Stages[7] = AuditStage
  BY DEF Stages
<1>5. /\ DiscoverStage = "failed" <=> "no_provider" \in run
      /\ QuoteStage = "failed" <=> "over_budget" \in run \/ "unavailable" \in run
      /\ AuthorizeStage = "failed" <=> "denied" \in run
      /\ PayStage = "failed" <=> \/ "payment_failed" \in run \/ "service_failed" \in run
                                 \/ "refused" \in run /\ "settled" \notin run
      /\ ExecuteStage = "failed" => "result" \notin run
      /\ ResultStage # "failed"
  BY <1>2, <1>3 DEF DiscoverStage, QuoteStage, AuthorizeStage, PayStage, ExecuteStage,
                    ResultStage, FailedOrDone, DoneOrFailed
<1>6. /\ QuoteStage = "done" => "quote" \in run
      /\ AuthorizeStage = "done" => "selected" \in run
      /\ PayStage = "done" => "settled" \in run
      /\ ExecuteStage = "done" => "result" \in run
      /\ ResultStage = "done" => "result" \in run
      /\ AuditStage = "done" => "audited" \in run
  BY <1>2, <1>3 DEF QuoteStage, AuthorizeStage, PayStage, ExecuteStage, ResultStage, AuditStage,
                    FailedOrDone, DoneOrFailed
<1>7. \A k \in LostKinds : k \in run =>
        /\ "settled" \notin run /\ "result" \notin run /\ "audited" \notin run
  BY <1>1 DEF PaidKinds
<1>8. {"no_provider", "over_budget", "unavailable", "denied", "refused", "service_failed",
       "payment_failed"} \subseteq LostKinds
  BY DEF LostKinds, FreeKinds
<1>9. CASE i \in {1, 2, 3, 4}
  <2>1. /\ "settled" \notin run /\ "result" \notin run /\ "audited" \notin run
    BY <1>4, <1>5, <1>7, <1>8, <1>9
  <2>2. PayStage # "done" /\ ExecuteStage # "done" /\ ResultStage # "done" /\ AuditStage # "done"
    BY <1>6, <2>1
  <2>3. i = 1 => QuoteStage # "done" /\ AuthorizeStage # "done"
    BY <1>1, <1>4, <1>5, <1>6
  <2>4. i = 2 => AuthorizeStage # "done"
    BY <1>1, <1>4, <1>5, <1>6
  <2>5. j \in {4, 5, 6, 7} \/ (j = 3 /\ i \in {1, 2}) \/ (j = 2 /\ i = 1)
    BY <1>9
  <2> HIDE DEF Stages
  <2> QED
    BY <1>4, <2>2, <2>3, <2>4, <2>5
<1>10. CASE i = 5
  <2>1. "result" \notin run /\ "audited" \notin run
    BY <1>1, <1>4, <1>5, <1>10
  <2>2. j \in {6, 7}
    BY <1>10
  <2> QED
    BY <1>4, <1>6, <2>1, <2>2
<1>11. CASE i = 6
  BY <1>4, <1>5, <1>11
<1>12. i \in {1, 2, 3, 4} \/ i = 5 \/ i = 6
  OBVIOUS
<1> QED
  BY <1>9, <1>10, <1>11, <1>12

(* The label is one of payment only when one was shown.                    *)
LEMMA LabelOfPayment ==
  ASSUME Inv, Lifecycle \in {"Settled", "Completed", "Audited"}
  PROVE  run \cap {"settled", "result"} # {}
<1>1. "audited" \in run => "result" \in run
  BY NowIsSound DEF Sound, Now
<1> DEFINE rows == <<
             <<Has({"error"}), "Failed">>,
             <<Has({"unavailable"}), "Provider unavailable">>,
             <<Has({"no_provider"}), "No provider">>,
             <<Has({"over_budget"}), "Over spend cap">>,
             <<Has({"denied"}) \/ (Has({"refused"}) /\ ~Has({"settled"})), "Policy denied">>,
             <<Has({"payment_failed"}), "Payment failed">>,
             <<Has({"service_failed"}), "Service failed">>,
             <<Has({"settled"}) /\ ~Has({"result"}) /\ ~running, "Service failed">>,
             <<Has({"audited"}), "Audited">>,
             <<Has({"result"}), "Completed">>,
             <<Has({"settled"}), "Settled">>,
             <<Has({"paying"}), "Paying">>,
             <<Has({"selected"}), "Approved">>,
             <<Has({"quote"}), "Quoted">>,
             <<TRUE, "Discovering">> >>
           first == CHOOSE i \in DOMAIN rows : rows[i][1] /\ \A j \in 1..(i - 1) : ~rows[j][1]
<1>2. Lifecycle = rows[first][2] /\ DOMAIN rows = 1..15
  <2>1. Lifecycle = rows[first][2]
    BY Zenon DEF Lifecycle
  <2>2. DOMAIN rows = 1..15
    OBVIOUS
  <2> QED
    BY <2>1, <2>2
<1>3. \A i \in 1..15 : i \notin {9, 10, 11} => rows[i][2] \notin {"Settled", "Completed", "Audited"}
  <2>1. /\ rows[1][2] = "Failed" /\ rows[2][2] = "Provider unavailable"
        /\ rows[3][2] = "No provider" /\ rows[4][2] = "Over spend cap"
        /\ rows[5][2] = "Policy denied" /\ rows[6][2] = "Payment failed"
        /\ rows[7][2] = "Service failed" /\ rows[8][2] = "Service failed"
        /\ rows[12][2] = "Paying" /\ rows[13][2] = "Approved"
        /\ rows[14][2] = "Quoted" /\ rows[15][2] = "Discovering"
    OBVIOUS
  <2> HIDE DEF rows
  <2> SUFFICES ASSUME NEW i \in 1..15, i \notin {9, 10, 11}
               PROVE  rows[i][2] \notin {"Settled", "Completed", "Audited"}
    OBVIOUS
  <2>2. \/ i = 1 \/ i = 2 \/ i = 3 \/ i = 4 \/ i = 5 \/ i = 6 \/ i = 7 \/ i = 8
        \/ i = 12 \/ i = 13 \/ i = 14 \/ i = 15
    OBVIOUS
  <2> QED
    BY <2>1, <2>2
<1>4. /\ rows[9][1] = Has({"audited"}) /\ rows[10][1] = Has({"result"})
      /\ rows[11][1] = Has({"settled"}) /\ rows[15][1]
  OBVIOUS
<1> HIDE DEF rows
<1>5. first \in 1..15 /\ rows[first][1]
  <2> DEFINE hits == {i \in 1..15 : rows[i][1]}
  <2>1. hits \subseteq Nat /\ 15 \in hits
    BY <1>4
  <2>2. PICK i \in hits : \A j \in hits : i <= j
    BY <2>1, NatHasMin
  <2>3. i \in DOMAIN rows /\ rows[i][1] /\ \A j \in 1..(i - 1) : ~rows[j][1]
    BY <1>2, <2>2
  <2> QED
    BY <1>2, <2>3
<1>6. first \in {9, 10, 11}
  BY <1>2, <1>3, <1>5
<1> HIDE DEF first
<1> QED
  BY <1>1, <1>4, <1>5, <1>6 DEF Has

(* RunAgentModal.tsx:75-78,105-115,185-199,480-560.  Once a settlement or  *)
(* a result is shown, the provider shown as chosen, and no other, was      *)
(* charged; a run keeps to the cap it was started with; and no stage is    *)
(* done after one that failed.                                             *)
THEOREM PaymentShownIsReal == Spec => []PaymentShownIsTheBill
<1>1. Inv => PaymentShownIsTheBill
  <2> SUFFICES ASSUME Inv PROVE PaymentShownIsTheBill
    OBVIOUS
  <2>1. Lifecycle \in {"Settled", "Completed", "Audited"} \/ run \cap {"settled", "result"} # {}
          => BillShown = {chosen}
    <3> SUFFICES ASSUME run \cap {"settled", "result"} # {} PROVE BillShown = {chosen}
      BY LabelOfPayment
    <3>1. run \cap PaidKinds # {}
      BY DEF PaidKinds
    <3>2. chosen \in Payee
      BY <3>1, NowIsSound DEF Sound, Now
    <3> QED
      BY <3>2 DEF Payee
  <2>2. ASSUME NEW p \in BillShown PROVE Price[p] <= asked
    <3>1. CASE mine = "current"
      <4>1. p \in Owing
        BY <3>1, <2>2, BillOfCurrent DEF Inv
      <4>2. Price[p] <= budget /\ budget <= asked
        BY <3>1, <4>1 DEF Inv, PurchaseInv, DialogInv, Owing
      <4>3. Price[p] \in Nat /\ budget \in Nat /\ asked \in Nat
        BY <4>1, PurchaseAssumption DEF Owing, Inv, TypeInv, PurchaseTypeOK
      <4> QED
        BY <4>2, <4>3
    <3>2. CASE mine # "current"
      BY <2>2, <3>2 DEF BillShown, Inv, DialogInv
    <3> QED
      BY <3>1, <3>2
  <2> QED
    BY <2>1, <2>2, StagesInOrder DEF PaymentShownIsTheBill
<1> QED
  BY <1>1, DialogInvariant, PTL

-----------------------------------------------------------------------------
(***************************************************************************)
(* IncidentView: what the page of an incident shows.                       *)
(***************************************************************************)

\* What is written of an incident.
Written == Kinds \cup {"briefed", "none_left", "diagnosis", "ordering", "repaired", "recovered",
                       "still_failing", "diagnosing", "fixing", "verifying"}
Entries ==
  [stage : {"diagnose", "fix", "verify", "status"}, step : Written, provider : Somebody]

ViewTypeInv ==
  /\ PurchaseTypes
  /\ DeskTypeOK
  /\ todo \in 0..MaxActions
  /\ raised \in BOOLEAN /\ closed \in BOOLEAN
  /\ result \in {"none", "resolved", "blocked", "failed"}
  /\ pending \in Seq(Entries) /\ log \in Seq(Entries)
  /\ bills \in [Orders -> SUBSET Providers]

Due(kind) == \E i \in DOMAIN pending : pending[i].step = kind

\* Who holds the lock, what its response has ordered, and how far the incident is.
TurnInv ==
  /\ busy \in {"free", "response"} /\ ~queued
  /\ busy = "free" => order = 0
  /\ order = 0 <=> step = "none"
  /\ order = 0 => sent = {} /\ answered = {} /\ Drained
  /\ course = "none" => busy = "free"
  /\ course = "diagnosing" => order \in {0, 1} /\ (order = 0 => log = <<>>)
  /\ course = "fixing" => order >= 2 /\ order + todo <= 1 + MaxActions
  /\ course = "verifying" => order >= 2 /\ step = "bought"
  /\ result # "none" => step \notin {"trying", "paying"}
  /\ closed <=> course = "none"
  /\ trigger = "none" <=> course = "none"
  /\ result = "resolved" <=> course = "recovered"
  /\ result \in {"blocked", "failed"} <=> course = "lost"
  /\ result = "blocked" => Drained

\* What was sent for the order under way, and what may still be charged.
ShopInv ==
  /\ \A n \in Orders, p \in Providers : <<n, p>> \in sent => n <= order
  /\ \A n \in Orders, p \in Providers :
       <<n, p>> \in answered => n <= order /\ (n = order => step = "stopped")
  /\ step = "trying" =>
       \A p \in Providers : Quote(p) \in sent => phase[Quote(p)] = "forfeited" /\ p \notin offers
  /\ step \in {"paying", "bought"} => \E p \in Providers : OnlyTry(p)
  /\ step = "bought" => \E p \in Providers : OnlyTry(p) /\ phase[Quote(p)] = "charged"

-----------------------------------------------------------------------------
(* What each step does.                                                    *)

OpeningKinds == {"discovered", "quote", "no_provider", "over_budget"}
TryKinds == {"authorization", "authorization_failed", "denied", "selected", "refused",
             "payment_required", "paying"}

\* After an order: what is written before it, and then what discovery found.
Ordering(stage, before) ==
  /\ pending' \in Seq(Entries)
  /\ DOMAIN before \subseteq DOMAIN pending'
  /\ \A i \in DOMAIN before : pending'[i] = before[i]
  /\ \A i \in DOMAIN pending' \ DOMAIN before :
       /\ pending'[i].stage = stage
       /\ pending'[i].step \in OpeningKinds
       /\ pending'[i].step \in {"no_provider", "over_budget"} => step' = "stopped"

LEMMA GluedKinds ==
  ASSUME NEW a \in Seq(Kinds), NEW b \in Seq(Kinds)
  PROVE  /\ a \o b \in Seq(Kinds) /\ Len(a \o b) = Len(a) + Len(b)
         /\ DOMAIN (a \o b) = 1..(Len(a) + Len(b))
         /\ \A i \in 1..Len(a) : (a \o b)[i] = a[i]
         /\ \A i \in 1..Len(b) : (a \o b)[Len(a) + i] = b[i]
OBVIOUS

LEMMA GluedEntries ==
  ASSUME NEW a \in Seq(Entries), NEW b \in Seq(Entries)
  PROVE  /\ a \o b \in Seq(Entries) /\ Len(a \o b) = Len(a) + Len(b)
         /\ DOMAIN (a \o b) = 1..(Len(a) + Len(b))
         /\ \A i \in 1..Len(a) : (a \o b)[i] = a[i]
         /\ \A i \in 1..Len(b) : (a \o b)[Len(a) + i] = b[i]
OBVIOUS

LEMMA SaysType ==
  ASSUME NEW stage \in {"diagnose", "fix"}, NEW kinds \in Seq(Kinds)
  PROVE  /\ Says(stage, kinds) \in Seq(Entries)
         /\ Len(Says(stage, kinds)) = Len(kinds)
         /\ \A i \in 1..Len(kinds) : Says(stage, kinds)[i] = Step(stage, kinds[i], NoOne)
<1>1. Says(stage, kinds) = [i \in 1..Len(kinds) |-> Step(stage, kinds[i], NoOne)]
  <2>1. DOMAIN kinds = 1..Len(kinds)
    OBVIOUS
  <2> QED
    BY <2>1 DEF Says
<1>2. \A i \in 1..Len(kinds) : Step(stage, kinds[i], NoOne) \in Entries
  BY DEF Step, Entries, Written, Somebody
<1> DEFINE n == Len(kinds)
           f == [i \in 1..n |-> Step(stage, kinds[i], NoOne)]
<1>3. n \in Nat
  OBVIOUS
<1>4. f \in [1..n -> Entries]
  BY <1>2
<1>5. \A i \in 1..n : f[i] = Step(stage, kinds[i], NoOne)
  OBVIOUS
<1>6. Says(stage, kinds) = f
  BY <1>1
<1> HIDE DEF f
<1>7. f \in Seq(Entries) /\ Len(f) = n
  BY <1>3, <1>4
<1> QED
  BY <1>5, <1>6, <1>7

LEMMA OrderDoes ==
  ASSUME ViewTypeInv, TurnInv, order \in 0..MaxActions,
         NEW stage \in {"diagnose", "fix"}, NEW service \in Services, NEW before \in Seq(Entries),
         Order(stage, service, before)
  PROVE  /\ order' = order + 1 /\ order' \in Orders /\ UNCHANGED <<phase, sent, answered>>
         /\ raised' = FALSE /\ failures' = FALSE /\ budget' = MaxAtomic
         /\ step' \in {"trying", "stopped"}
         /\ offers' \subseteq Providers
         /\ Ordering(stage, before)
<1>1. /\ order' = order + 1 /\ UNCHANGED <<phase, sent, answered>> /\ raised' = FALSE
      /\ failures' = FALSE /\ budget' = MaxAtomic
  BY DEF Order, Begin
<1>2. PICK quoted \in SUBSET Sellers[service] : Consider(Affordable(quoted, MaxAtomic))
  BY DEF Order, Begin
<1>3. Sellers[service] \subseteq Providers
  BY PurchaseAssumption
<1>4. /\ offers' \subseteq Providers /\ step' \in {"trying", "stopped"}
      /\ step' = "trying" <=> offers' # {}
  BY <1>2, <1>3 DEF Consider, Affordable
<1>5. PICK kinds \in Opening(service, MaxAtomic) :
        "unavailable" \notin Elements(kinds) /\ pending' = before \o Says(stage, kinds)
  BY DEF Order
<1>6. /\ kinds \in Seq(Kinds)
      /\ \A i \in DOMAIN kinds :
           /\ kinds[i] \in OpeningKinds
           /\ kinds[i] \in {"no_provider", "over_budget"} => step' = "stopped"
  <2>1. CASE offers' # {}
    <3>1. kinds = <<"discovered", "quote">>
      BY <1>5, <2>1 DEF Opening
    <3>2. "discovered" \in Kinds /\ "quote" \in Kinds
      BY DEF Kinds
    <3>3. kinds \in Seq(Kinds)
      BY <3>1, <3>2
    <3>4. \A i \in DOMAIN kinds : kinds[i] \in {"discovered", "quote"}
      BY <3>1
    <3> QED
      BY <3>3, <3>4 DEF OpeningKinds
  <2>2. CASE offers' = {}
    <3>1. step' = "stopped"
      BY <1>4, <2>2
    <3>2. \A i \in DOMAIN kinds : kinds[i] # "unavailable"
      BY <1>5 DEF Elements
    <3>3. \/ kinds = <<"discovered", "no_provider">>
          \/ kinds = <<"discovered", "unavailable">>
          \/ kinds = <<"discovered", "quote", "over_budget">>
      BY <1>5, <2>2 DEF Opening
    <3>4. kinds # <<"discovered", "unavailable">>
      <4>1. 2 \in DOMAIN <<"discovered", "unavailable">> /\ <<"discovered", "unavailable">>[2] = "unavailable"
        OBVIOUS
      <4> QED
        BY <3>2, <4>1
    <3>5. /\ "discovered" \in Kinds /\ "quote" \in Kinds
          /\ "no_provider" \in Kinds /\ "over_budget" \in Kinds
      BY DEF Kinds
    <3>6. CASE kinds = <<"discovered", "no_provider">>
      <4>1. kinds \in Seq(Kinds)
        BY <3>5, <3>6
      <4>2. \A i \in DOMAIN kinds : kinds[i] \in {"discovered", "no_provider"}
        BY <3>6
      <4> QED
        BY <3>1, <4>1, <4>2 DEF OpeningKinds
    <3>7. CASE kinds = <<"discovered", "quote", "over_budget">>
      <4>1. kinds \in Seq(Kinds)
        BY <3>5, <3>7
      <4>2. \A i \in DOMAIN kinds : kinds[i] \in {"discovered", "quote", "over_budget"}
        BY <3>7
      <4> QED
        BY <3>1, <4>1, <4>2 DEF OpeningKinds
    <3> QED
      BY <3>3, <3>4, <3>6, <3>7
  <2> QED
    BY <2>1, <2>2
<1>7. Ordering(stage, before)
  <2> DEFINE said == Says(stage, kinds)
             m == Len(before)
  <2>1. /\ said \in Seq(Entries) /\ Len(said) = Len(kinds)
        /\ \A i \in 1..Len(kinds) : said[i] = Step(stage, kinds[i], NoOne)
    BY <1>6, SaysType
  <2>2. DOMAIN kinds = 1..Len(kinds) /\ DOMAIN before = 1..m /\ m \in Nat /\ Len(kinds) \in Nat
    BY <1>6
  <2>3. pending' = before \o said
    BY <1>5
  <2> HIDE DEF said
  <2>4. /\ pending' \in Seq(Entries) /\ DOMAIN pending' = 1..(m + Len(kinds))
        /\ \A i \in 1..m : pending'[i] = before[i]
        /\ \A i \in 1..Len(kinds) : pending'[m + i] = said[i]
    <3>1. /\ before \o said \in Seq(Entries)
          /\ DOMAIN (before \o said) = 1..(Len(before) + Len(said))
          /\ \A i \in 1..Len(before) : (before \o said)[i] = before[i]
          /\ \A i \in 1..Len(said) : (before \o said)[Len(before) + i] = said[i]
      BY <2>1, GluedEntries
    <3> QED
      BY <2>1, <2>3, <3>1
  <2>5. ASSUME NEW i \in DOMAIN pending' \ DOMAIN before
        PROVE  \E j \in DOMAIN kinds : pending'[i] = Step(stage, kinds[j], NoOne)
    <3> DEFINE j == i - m
    <3>1. j \in 1..Len(kinds) /\ m + j = i
      BY <2>2, <2>4, <2>5
    <3> QED
      BY <2>1, <2>2, <2>4, <3>1
  <2>6. DOMAIN before \subseteq DOMAIN pending'
    BY <2>2, <2>4
  <2> QED
    BY <1>6, <2>2, <2>4, <2>5, <2>6 DEF Ordering, Step
<1>8. order' \in Orders
  BY <1>1, PurchaseAssumption DEF Orders
<1> QED
  BY <1>1, <1>4, <1>7, <1>8

\* What a purchase says, as it is written.
Noted(kind) == IF kind = "service_failed" /\ offers' = {} THEN "none_left" ELSE kind

LEMMA NoteDoes ==
  ASSUME NEW said \in Seq(Kinds), NEW p \in Providers, Note(said, p)
  PROVE  /\ pending' \in Seq(Entries) /\ Len(pending') = Len(said)
         /\ DOMAIN pending' = DOMAIN said
         /\ \A i \in DOMAIN said :
              /\ pending'[i].stage = Here
              /\ pending'[i].step = Noted(said[i])
              /\ said[i] \in {"selected", "service_failed"} => pending'[i].provider = p
<1> DEFINE who(i) == IF said[i] \in {"selected", "service_failed"} THEN p ELSE NoOne
           n == Len(said)
           f == [i \in 1..n |-> Step(Here, Noted(said[i]), who(i))]
<1>1. DOMAIN said = 1..n /\ n \in Nat
  OBVIOUS
<1>2. pending' = f
  BY <1>1 DEF Note, Noted
<1>3. ASSUME NEW i \in 1..n
      PROVE  /\ Step(Here, Noted(said[i]), who(i)) \in Entries
             /\ f[i] = Step(Here, Noted(said[i]), who(i))
  <2>1. said[i] \in Kinds
    OBVIOUS
  <2>2. Noted(said[i]) \in Written
    BY <2>1 DEF Noted, Written
  <2>3. who(i) \in Somebody
    BY DEF Somebody
  <2>4. Here \in {"diagnose", "fix"}
    BY DEF Here
  <2> QED
    BY <2>2, <2>3, <2>4 DEF Step, Entries
<1>4. f \in [1..n -> Entries]
  BY <1>3
<1>5. \A i \in 1..n : f[i] = Step(Here, Noted(said[i]), who(i))
  BY <1>3
<1> HIDE DEF f
<1>6. f \in Seq(Entries) /\ Len(f) = n /\ DOMAIN f = 1..n
  BY <1>1, <1>4
<1> QED
  BY <1>1, <1>2, <1>5, <1>6 DEF Step

LEMMA TryDoes ==
  ASSUME ViewTypeInv, TurnInv, ShopInv, NEW p \in Providers, TryOffer(p)
  PROVE  /\ step = "trying" /\ Drained /\ busy = "response" /\ order \in Orders
         /\ UNCHANGED <<phase, order, budget, busy, queued, answered, failures>>
         /\ UNCHANGED <<deskVars, todo, result, incidentVars, bills>>
         /\ raised' \in BOOLEAN /\ offers' \subseteq offers
         /\ \/ step' \in {"trying", "stopped"} /\ sent' = sent
            \/ step' = "paying" /\ sent' = sent \cup {Quote(p)} /\ offers' = offers
         /\ pending' \in Seq(Entries)
         /\ \A i \in DOMAIN pending' :
              /\ pending'[i].stage = Here
              /\ pending'[i].step \in TryKinds
              /\ pending'[i].step \in {"denied", "refused"} => step' = "stopped"
              /\ pending'[i].step = "selected" =>
                   pending'[i].provider = p /\ step' \in {"paying", "stopped"}
         /\ step' = "paying" =>
              /\ Len(pending') = 4 /\ pending'[4].step = "paying"
              /\ 2 \in DOMAIN pending' /\ pending'[2].step = "selected"
<1>1. /\ step = "trying" /\ Drained /\ UNCHANGED <<phase, order, budget, busy, queued, answered, failures>>
      /\ UNCHANGED <<deskVars, todo, result, incidentVars, bills>>
  BY DEF TryOffer, Try, lockVars, taskVars
<1>2. busy = "response" /\ order \in Orders
  BY <1>1 DEF TurnInv, ViewTypeInv, PurchaseTypes, PurchaseTypeOK
<1>3. \/ Consider(offers \ {p}) /\ sent' = sent
      \/ step' = "paying" /\ sent' = sent \cup {Quote(p)} /\ offers' = offers
      \/ step' = "stopped" /\ sent' = sent /\ offers' = offers
  BY DEF TryOffer, Try
<1>4. p \in offers
  BY DEF TryOffer, Try, Cheapest
<1>5. PICK said \in Tried : Note(said, p) /\ raised' = (said = <<"authorization", "selected">>)
  BY DEF TryOffer
<1>6. /\ "authorization" \in Kinds /\ "authorization_failed" \in Kinds /\ "denied" \in Kinds
      /\ "selected" \in Kinds /\ "refused" \in Kinds /\ "payment_required" \in Kinds
      /\ "paying" \in Kinds
  BY DEF Kinds
<1> DEFINE Fits(s) ==
             /\ s \in Seq(Kinds)
             /\ \A i \in DOMAIN s :
                  /\ s[i] \in TryKinds
                  /\ s[i] \in {"denied", "refused"} => step' = "stopped"
                  /\ s[i] = "selected" => step' \in {"paying", "stopped"}
             /\ step' = "paying" =>
                  Len(s) = 4 /\ s[4] = "paying" /\ 2 \in DOMAIN s /\ s[2] = "selected"
<1>7. ASSUME offers' # offers PROVE Fits(said)
  <2>1. step' \in {"trying", "stopped"} /\ (step' = "stopped" <=> offers' = {})
    BY <1>3, <1>7 DEF Consider
  <2>2. PICK first \in {"authorization", "authorization_failed"} :
          said = <<first>> \o IF offers' = {} /\ ~failures THEN <<"denied">> ELSE <<>>
    BY <1>5, <1>7 DEF Tried
  <2> DEFINE a == <<first>>
             b == IF offers' = {} /\ ~failures THEN <<"denied">> ELSE <<>>
  <2>3. a \in Seq(Kinds) /\ Len(a) = 1 /\ a[1] = first
    BY <1>6
  <2>4. /\ b \in Seq(Kinds)
        /\ \/ Len(b) = 0
           \/ Len(b) = 1 /\ b[1] = "denied" /\ step' = "stopped"
    BY <1>6, <2>1
  <2>5. said = a \o b
    BY <2>2
  <2> HIDE DEF a, b
  <2>6. /\ said \in Seq(Kinds) /\ DOMAIN said = 1..(1 + Len(b)) /\ said[1] = first
        /\ Len(b) = 1 => said[2] = "denied"
    BY <2>3, <2>4, <2>5, GluedKinds
  <2>7. DOMAIN said = {1} \/ (DOMAIN said = {1, 2} /\ said[2] = "denied" /\ step' = "stopped")
    <3>1. 1..(1 + 0) = {1} /\ 1..(1 + 1) = {1, 2}
      OBVIOUS
    <3> QED
      BY <2>4, <2>6, <3>1
  <2> QED
    BY <2>1, <2>6, <2>7 DEF TryKinds
<1>8. ASSUME offers' = offers PROVE Fits(said)
  <2>1. step' \in {"paying", "stopped"}
    BY <1>3, <1>4, <1>8 DEF Consider
  <2>2. PICK last \in IF step' = "paying" THEN {<<"payment_required", "paying">>}
                                          ELSE {<<"refused">>, <<>>} :
          said = <<"authorization", "selected">> \o last
    BY <1>5, <1>8 DEF Tried
  <2> DEFINE a == <<"authorization", "selected">>
  <2>3. a \in Seq(Kinds) /\ Len(a) = 2 /\ a[1] = "authorization" /\ a[2] = "selected"
    BY <1>6
  <2>4. /\ last \in Seq(Kinds)
        /\ \/ /\ step' = "paying" /\ Len(last) = 2
              /\ last[1] = "payment_required" /\ last[2] = "paying"
           \/ step' = "stopped" /\ Len(last) = 1 /\ last[1] = "refused"
           \/ step' = "stopped" /\ Len(last) = 0
    <3>1. CASE step' = "paying"
      <4>1. last = <<"payment_required", "paying">>
        BY <2>2, <3>1
      <4> QED
        BY <1>6, <3>1, <4>1
    <3>2. CASE step' # "paying"
      <4>1. last = <<"refused">> \/ last = <<>>
        BY <2>2, <3>2
      <4>2. CASE last = <<"refused">>
        BY <1>6, <2>1, <3>2, <4>2
      <4>3. CASE last = <<>>
        BY <2>1, <3>2, <4>3
      <4> QED
        BY <4>1, <4>2, <4>3
    <3> QED
      BY <3>1, <3>2
  <2>5. said = a \o last
    BY <2>2
  <2> HIDE DEF a
  <2>6. /\ said \in Seq(Kinds) /\ DOMAIN said = 1..(2 + Len(last)) /\ Len(said) = 2 + Len(last)
        /\ said[1] = "authorization" /\ said[2] = "selected"
        /\ \A i \in 1..Len(last) : said[2 + i] = last[i]
    <3>1. /\ a \o last \in Seq(Kinds) /\ Len(a \o last) = Len(a) + Len(last)
          /\ DOMAIN (a \o last) = 1..(Len(a) + Len(last))
          /\ \A i \in 1..Len(a) : (a \o last)[i] = a[i]
          /\ \A i \in 1..Len(last) : (a \o last)[Len(a) + i] = last[i]
      BY <2>3, <2>4, GluedKinds
    <3>2. 1 \in 1..Len(a) /\ 2 \in 1..Len(a)
      BY <2>3
    <3> QED
      BY <2>3, <2>5, <3>1, <3>2
  <2>7. CASE step' = "paying"
    <3>1. Len(last) = 2 /\ last[1] = "payment_required" /\ last[2] = "paying"
      BY <2>4, <2>7
    <3>2. DOMAIN said = {1, 2, 3, 4} /\ Len(said) = 4
      <4>1. 1..(2 + 2) = {1, 2, 3, 4}
        OBVIOUS
      <4> QED
        BY <2>6, <3>1, <4>1
    <3>3. said[2 + 1] = last[1] /\ said[2 + 2] = last[2]
      BY <2>6, <3>1
    <3>4. said[3] = "payment_required" /\ said[4] = "paying"
      BY <3>1, <3>3
    <3> QED
      BY <2>6, <2>7, <3>2, <3>4 DEF TryKinds
  <2>8. CASE step' = "stopped"
    <3>1. DOMAIN said = {1, 2} \/ (DOMAIN said = {1, 2, 3} /\ said[3] = "refused")
      <4>1. 1..(2 + 0) = {1, 2} /\ 1..(2 + 1) = {1, 2, 3}
        OBVIOUS
      <4>2. Len(last) = 1 => said[2 + 1] = last[1]
        BY <2>6
      <4> QED
        BY <2>4, <2>6, <2>8, <4>1, <4>2
    <3> QED
      BY <2>6, <2>8, <3>1 DEF TryKinds
  <2> QED
    BY <2>1, <2>7, <2>8
<1>9. Fits(said)
  BY <1>7, <1>8
<1>10. /\ pending' \in Seq(Entries) /\ Len(pending') = Len(said) /\ DOMAIN pending' = DOMAIN said
       /\ \A i \in DOMAIN said :
            /\ pending'[i].stage = Here
            /\ pending'[i].step = Noted(said[i])
            /\ said[i] \in {"selected", "service_failed"} => pending'[i].provider = p
  BY <1>5, <1>9, NoteDoes
<1>11. \A i \in DOMAIN said : pending'[i].step = said[i]
  BY <1>9, <1>10 DEF Noted, TryKinds
<1>12. raised' \in BOOLEAN
  BY <1>5
<1>13. offers' \subseteq offers
  BY <1>3 DEF Consider
<1>14. step' = "paying" => 4 \in DOMAIN said
  BY <1>9
<1>15. \/ step' \in {"trying", "stopped"} /\ sent' = sent
       \/ step' = "paying" /\ sent' = sent \cup {Quote(p)} /\ offers' = offers
  BY <1>3 DEF Consider
<1> QED
  BY <1>1, <1>2, <1>9, <1>10, <1>11, <1>12, <1>13, <1>14, <1>15

LEMMA PayDoes ==
  ASSUME ViewTypeInv, TurnInv, ShopInv, NEW p \in Providers, PayOffer(p)
  PROVE  /\ step = "paying" /\ Drained /\ busy = "response" /\ order \in Orders /\ result = "none"
         /\ UNCHANGED <<phase, order, budget, sent, busy, queued>>
         /\ UNCHANGED <<deskVars, responseVars, incidentVars, bills>>
         /\ failures' \in BOOLEAN /\ OnlyTry(p) /\ Quote(p) \in Quotes
         /\ \A other \in Providers : OnlyTry(other) => other = p
         /\ pending' \in Seq(Entries) /\ \A i \in DOMAIN pending' : pending'[i].stage = Here
         /\ \/ /\ step' = "bought" /\ phase[Quote(p)] = "charged"
               /\ UNCHANGED <<offers, answered>>
               /\ \A i \in DOMAIN pending' : pending'[i].step \in {"settled", "result"}
            \/ /\ step' \in {"trying", "stopped"} /\ phase[Quote(p)] = "forfeited"
               /\ offers' = offers \ {p} /\ UNCHANGED answered
               /\ DOMAIN pending' = {1} /\ Len(pending') = 1 /\ pending'[1].provider = p
               /\ pending'[1].step \in {"service_failed", "none_left"}
               /\ pending'[1].step = "none_left" => step' = "stopped"
               /\ step' = "stopped" => pending'[1].step = "none_left"
            \/ /\ step' = "stopped" /\ UNCHANGED <<offers, answered>>
               /\ DOMAIN pending' = {1} /\ Len(pending') = 1 /\ pending'[1].step = "payment_failed"
            \/ /\ step' = "stopped" /\ UNCHANGED offers
               /\ answered' = answered \cup {Quote(p)}
               /\ DOMAIN pending' = {1} /\ Len(pending') = 1 /\ pending'[1].step = "refused"
<1>1. /\ step = "paying" /\ Drained /\ UNCHANGED <<phase, order, budget, sent, busy, queued>>
      /\ UNCHANGED <<deskVars, responseVars, incidentVars, bills>>
      /\ p \in offers /\ Quote(p) \in sent
  BY DEF PayOffer, Pay, lockVars
<1>2. busy = "response" /\ order \in Orders /\ result = "none"
  BY <1>1 DEF TurnInv, ViewTypeInv, PurchaseTypes, PurchaseTypeOK
<1>3. \A other \in Providers : OnlyTry(other) => other = p
  BY <1>1 DEF OnlyTry
<1>4. OnlyTry(p)
  BY <1>1, <1>3 DEF ShopInv
<1>5. Quote(p) \in Quotes
  BY <1>1 DEF ViewTypeInv, PurchaseTypes, PurchaseTypeOK
<1>6. \/ phase[Quote(p)] = "charged" /\ step' = "bought" /\ UNCHANGED offers
      \/ phase[Quote(p)] = "forfeited" /\ Consider(offers \ {p})
      \/ step' = "stopped" /\ UNCHANGED offers
  BY DEF PayOffer, Pay
<1>7. PICK said \in PaidSteps : Paid(p, said) /\ Note(said, p)
  BY DEF PayOffer
<1>8. /\ "result" \in Kinds /\ "settled" \in Kinds /\ "service_failed" \in Kinds
      /\ "payment_failed" \in Kinds /\ "refused" \in Kinds
  BY DEF Kinds
<1>9. \/ /\ step' = "bought" /\ UNCHANGED <<failures, answered>>
         /\ said = <<"result">> \/ said = <<"settled", "result">>
      \/ /\ offers' # offers /\ failures' = TRUE /\ UNCHANGED answered
         /\ said = <<"service_failed">>
      \/ /\ step' = "stopped" /\ offers' = offers /\ UNCHANGED <<failures, answered>>
         /\ said = <<"payment_failed">>
      \/ /\ step' = "stopped" /\ offers' = offers /\ UNCHANGED failures
         /\ answered' = answered \cup {Quote(p)}
         /\ said = <<"refused">>
  BY <1>7 DEF Paid, taskVars
<1>10. ASSUME said \in Seq(Kinds)
       PROVE  /\ pending' \in Seq(Entries) /\ Len(pending') = Len(said)
              /\ DOMAIN pending' = DOMAIN said
              /\ \A i \in DOMAIN said :
                   /\ pending'[i].stage = Here
                   /\ pending'[i].step = Noted(said[i])
                   /\ said[i] \in {"selected", "service_failed"} => pending'[i].provider = p
  BY <1>7, <1>10, NoteDoes
<1>11. failures' \in BOOLEAN
  BY <1>9 DEF ViewTypeInv, PurchaseTypes
<1>12. CASE step' = "bought"
  <2>1. phase[Quote(p)] = "charged" /\ UNCHANGED offers
    BY <1>6, <1>12 DEF Consider
  <2>2. UNCHANGED answered /\ (said = <<"result">> \/ said = <<"settled", "result">>)
    BY <1>9, <1>12, <2>1
  <2>3. said \in Seq(Kinds) /\ \A i \in DOMAIN said : said[i] \in {"settled", "result"}
    <3>1. CASE said = <<"result">>
      BY <1>8, <3>1
    <3>2. CASE said = <<"settled", "result">>
      BY <1>8, <3>2
    <3> QED
      BY <2>2, <3>1, <3>2
  <2>4. /\ pending' \in Seq(Entries) /\ \A i \in DOMAIN pending' : pending'[i].stage = Here
        /\ \A i \in DOMAIN pending' : pending'[i].step \in {"settled", "result"}
    BY <1>10, <2>3 DEF Noted
  <2> QED
    BY <1>1, <1>2, <1>3, <1>4, <1>5, <1>11, <1>12, <2>1, <2>2, <2>4
<1>13. CASE offers' # offers
  <2>1. /\ phase[Quote(p)] = "forfeited" /\ offers' = offers \ {p} /\ step' \in {"trying", "stopped"}
        /\ step' = "stopped" <=> offers' = {}
    BY <1>6, <1>13 DEF Consider
  <2>2. UNCHANGED answered /\ said = <<"service_failed">>
    BY <1>9, <1>13, <2>1
  <2>3. said \in Seq(Kinds) /\ Len(said) = 1 /\ said[1] = "service_failed" /\ DOMAIN said = {1}
    BY <1>8, <2>2
  <2>4. /\ pending' \in Seq(Entries) /\ Len(pending') = 1 /\ DOMAIN pending' = {1}
        /\ pending'[1].stage = Here /\ pending'[1].step = Noted("service_failed")
        /\ pending'[1].provider = p
    BY <1>10, <2>3
  <2> QED
    BY <1>1, <1>2, <1>3, <1>4, <1>5, <1>11, <1>13, <2>1, <2>2, <2>4 DEF Noted
<1>14. CASE step' = "stopped" /\ offers' = offers
  <2>1. \/ UNCHANGED answered /\ said = <<"payment_failed">>
        \/ answered' = answered \cup {Quote(p)} /\ said = <<"refused">>
    BY <1>9, <1>14
  <2>2. CASE UNCHANGED answered /\ said = <<"payment_failed">>
    <3>1. said \in Seq(Kinds) /\ Len(said) = 1 /\ said[1] = "payment_failed" /\ DOMAIN said = {1}
      BY <1>8, <2>2
    <3>2. /\ pending' \in Seq(Entries) /\ Len(pending') = 1 /\ DOMAIN pending' = {1}
          /\ pending'[1].stage = Here /\ pending'[1].step = "payment_failed"
      BY <1>10, <3>1 DEF Noted
    <3> QED
      BY <1>1, <1>2, <1>3, <1>4, <1>5, <1>11, <1>14, <2>2, <3>2
  <2>3. CASE answered' = answered \cup {Quote(p)} /\ said = <<"refused">>
    <3>1. said \in Seq(Kinds) /\ Len(said) = 1 /\ said[1] = "refused" /\ DOMAIN said = {1}
      BY <1>8, <2>3
    <3>2. /\ pending' \in Seq(Entries) /\ Len(pending') = 1 /\ DOMAIN pending' = {1}
          /\ pending'[1].stage = Here /\ pending'[1].step = "refused"
      BY <1>10, <3>1 DEF Noted
    <3> QED
      BY <1>1, <1>2, <1>3, <1>4, <1>5, <1>11, <1>14, <2>3, <3>2
  <2> QED
    BY <2>1, <2>2, <2>3
<1> QED
  BY <1>1, <1>6, <1>12, <1>13, <1>14 DEF Consider

(* What a gateway may do with what was sent to it.                         *)
LEMMA ServeDoes ==
  ASSUME ViewTypeInv, GatewaysServe
  PROVE  /\ Drained
         /\ UNCHANGED <<order, step, offers, budget, sent, busy, queued, failures, answered>>
         /\ UNCHANGED <<deskVars, responseVars, pending, incidentVars, bills>>
         /\ phase' \in [Quotes -> Contract!Phases]
         /\ \A q \in Quotes : phase[q] \in {"forfeited", "lapsed", "charged"} => phase'[q] = phase[q]
<1>1. PICK q \in Quotes \ answered : Serve(q)
  BY DEF GatewaysServe, ServeSent
<1>2. /\ UNCHANGED <<order, step, offers, budget, sent, busy, queued, failures, answered>>
      /\ UNCHANGED <<deskVars, responseVars, pending, incidentVars, bills>> /\ Drained
  BY <1>1 DEF GatewaysServe, Serve, orderVars, lockVars, taskVars
<1>3. /\ phase[q] \in {"open", "running", "settling"}
      /\ \E to \in {"lapsed", "running", "forfeited", "settling", "charged"} :
           phase' = [phase EXCEPT ![q] = to]
  BY <1>1 DEF Serve, Contract!Lapse, Contract!Run, Contract!Forfeit, Contract!Settle,
              Contract!Charge, Contract!Refuse, Contract!Move
<1> QED
  BY <1>2, <1>3 DEF ViewTypeInv, PurchaseTypes, PurchaseTypeOK, Contract!Phases

LEMMA ReturnDoes ==
  ASSUME ViewTypeInv, NEW outcome \in {"resolved", "blocked", "failed"}, Return(outcome)
  PROVE  /\ result' = outcome /\ course' = IF outcome = "resolved" THEN "recovered" ELSE "lost"
         /\ UNCHANGED <<enabled, down, trigger>>
  BY DEF Return, Advance

LEMMA DiagnoseDoes ==
  ASSUME ViewTypeInv, TurnInv, Diagnose
  PROVE  /\ course = "diagnosing" /\ busy = "response" /\ order = 0
         /\ UNCHANGED <<busy, queued, todo, incidentVars, bills, phase, sent, answered>>
         /\ UNCHANGED <<enabled, down, trigger>>
         /\ \/ /\ order' = 1 /\ 1 \in Orders /\ UNCHANGED <<course, result>>
               /\ raised' = FALSE /\ failures' = FALSE /\ budget' = MaxAtomic
               /\ step' \in {"trying", "stopped"} /\ offers' \subseteq Providers
               /\ pending' \in Seq(Entries)
               /\ \A i \in DOMAIN pending' :
                    \/ pending'[i] = Status("diagnosing")
                    \/ /\ pending'[i].stage = "diagnose"
                       /\ pending'[i].step \in OpeningKinds \cup {"briefed"}
                       /\ pending'[i].step \in {"no_provider", "over_budget"} => step' = "stopped"
            \/ /\ course' = "lost" /\ result' = "failed"
               /\ UNCHANGED <<orderVars, failures, raised, pending>>
<1>1. /\ course = "diagnosing" /\ busy = "response" /\ order = 0
      /\ UNCHANGED <<busy, queued, todo, incidentVars, bills>>
  BY DEF Diagnose, lockVars
<1> DEFINE before == <<Status("diagnosing"), Step("diagnose", "briefed", NoOne)>>
<1>2. /\ Status("diagnosing") \in Entries /\ Step("diagnose", "briefed", NoOne) \in Entries
      /\ Step("diagnose", "briefed", NoOne).stage = "diagnose"
      /\ Step("diagnose", "briefed", NoOne).step = "briefed"
  BY DEF Status, Step, Entries, Written, Somebody
<1>3. before \in Seq(Entries)
  BY <1>2
<1>4. \A i \in DOMAIN before :
        before[i] \in {Status("diagnosing"), Step("diagnose", "briefed", NoOne)}
  OBVIOUS
<1>5. CASE Order("diagnose", "inference", before) /\ UNCHANGED <<deskVars, result>>
  <2>1. order \in 0..MaxActions /\ order + 1 = 1
    BY <1>1, PurchaseAssumption
  <2> HIDE DEF before
  <2>2. /\ order' = order + 1 /\ order' \in Orders /\ UNCHANGED <<phase, sent, answered>>
        /\ raised' = FALSE /\ failures' = FALSE /\ budget' = MaxAtomic
        /\ step' \in {"trying", "stopped"} /\ offers' \subseteq Providers
        /\ Ordering("diagnose", before)
    BY <1>3, <1>5, <2>1, OrderDoes DEF Services
  <2>3. \A i \in DOMAIN pending' :
          \/ pending'[i] = Status("diagnosing")
          \/ /\ pending'[i].stage = "diagnose"
             /\ pending'[i].step \in OpeningKinds \cup {"briefed"}
             /\ pending'[i].step \in {"no_provider", "over_budget"} => step' = "stopped"
    <3> SUFFICES ASSUME NEW i \in DOMAIN pending'
                 PROVE  \/ pending'[i] = Status("diagnosing")
                        \/ /\ pending'[i].stage = "diagnose"
                           /\ pending'[i].step \in OpeningKinds \cup {"briefed"}
                           /\ pending'[i].step \in {"no_provider", "over_budget"} => step' = "stopped"
      OBVIOUS
    <3>1. CASE i \in DOMAIN before
      BY <1>2, <1>4, <2>2, <3>1 DEF Ordering
    <3>2. CASE i \notin DOMAIN before
      BY <2>2, <3>2 DEF Ordering
    <3> QED
      BY <3>1, <3>2
  <2> QED
    BY <1>1, <1>5, <2>1, <2>2, <2>3 DEF deskVars, Ordering
<1>6. CASE Return("failed") /\ UNCHANGED <<purchaseVars, taskVars, raised, pending>>
  BY <1>1, <1>6, ReturnDoes DEF purchaseVars, taskVars
<1> QED
  BY <1>5, <1>6 DEF Diagnose

LEMMA PlanDoes ==
  ASSUME ViewTypeInv, TurnInv, NEW n \in 0..MaxActions, Plan(n)
  PROVE  /\ course = "diagnosing" /\ order = 1 /\ Drained /\ Ended /\ result = "none"
         /\ busy = "response"
         /\ UNCHANGED <<busy, queued, incidentVars, bills, phase, sent, answered>>
         /\ UNCHANGED <<enabled, down, trigger>>
         /\ pending' \in Seq(Entries)
         /\ 1 \in DOMAIN pending' /\ pending'[1] = Step("diagnose", "diagnosis", NoOne)
         /\ \/ /\ order' = 2 /\ 2 \in Orders /\ course' = "fixing" /\ UNCHANGED result
               /\ todo' = n - 1 /\ n > 0 /\ raised' = FALSE /\ failures' = FALSE /\ budget' = MaxAtomic
               /\ step' \in {"trying", "stopped"} /\ offers' \subseteq Providers
               /\ 3 \in DOMAIN pending' /\ pending'[3] = Step("fix", "ordering", NoOne)
               /\ pending'[2] = Status("fixing")
               /\ \A i \in DOMAIN pending' \ {1, 2, 3} :
                    /\ pending'[i].stage = "fix"
                    /\ pending'[i].step \in OpeningKinds
                    /\ pending'[i].step \in {"no_provider", "over_budget"} => step' = "stopped"
            \/ /\ course' = "lost" /\ result' = "failed" /\ DOMAIN pending' = {1}
               /\ UNCHANGED <<orderVars, failures, raised, todo>>
<1>1. /\ course = "diagnosing" /\ order = 1 /\ Drained /\ Ended /\ result = "none"
      /\ UNCHANGED <<busy, queued, incidentVars, bills>>
  BY DEF Plan, lockVars
<1>2. busy = "response"
  BY <1>1 DEF TurnInv
<1> DEFINE diagnosis == Step("diagnose", "diagnosis", NoOne)
           before == <<diagnosis, Status("fixing"), Step("fix", "ordering", NoOne)>>
<1>3. /\ diagnosis \in Entries /\ Status("fixing") \in Entries
      /\ Step("fix", "ordering", NoOne) \in Entries
  BY DEF Status, Step, Entries, Written, Somebody
<1>4. /\ before \in Seq(Entries) /\ DOMAIN before = {1, 2, 3}
      /\ before[1] = diagnosis /\ before[2] = Status("fixing")
      /\ before[3] = Step("fix", "ordering", NoOne)
  BY <1>3
<1>5. CASE /\ n > 0 /\ todo' = n - 1 /\ Order("fix", "ops", before)
           /\ Advance("fixing") /\ UNCHANGED result
  <2>1. order \in 0..MaxActions /\ order + 1 = 2
    BY <1>1, <1>5, PurchaseAssumption
  <2> HIDE DEF before
  <2>2. /\ order' = order + 1 /\ order' \in Orders /\ UNCHANGED <<phase, sent, answered>>
        /\ raised' = FALSE /\ failures' = FALSE /\ budget' = MaxAtomic
        /\ step' \in {"trying", "stopped"} /\ offers' \subseteq Providers
        /\ Ordering("fix", before)
    BY <1>4, <1>5, <2>1, OrderDoes DEF Services
  <2>3. UNCHANGED <<enabled, down, trigger>> /\ course' = "fixing"
    BY <1>5 DEF Advance
  <2>4. /\ pending' \in Seq(Entries) /\ {1, 2, 3} \subseteq DOMAIN pending'
        /\ pending'[1] = diagnosis /\ pending'[2] = Status("fixing")
        /\ pending'[3] = Step("fix", "ordering", NoOne)
        /\ \A i \in DOMAIN pending' \ {1, 2, 3} :
             /\ pending'[i].stage = "fix"
             /\ pending'[i].step \in OpeningKinds
             /\ pending'[i].step \in {"no_provider", "over_budget"} => step' = "stopped"
    BY <1>4, <2>2 DEF Ordering
  <2> HIDE DEF diagnosis
  <2> QED
    BY <1>1, <1>2, <1>5, <2>1, <2>2, <2>3, <2>4 DEF diagnosis
<1>6. CASE /\ n = 0 /\ Return("failed") /\ pending' = <<diagnosis>>
           /\ UNCHANGED <<purchaseVars, taskVars, raised, todo>>
  <2>1. result' = "failed" /\ course' = "lost" /\ UNCHANGED <<enabled, down, trigger>>
    BY <1>6, ReturnDoes
  <2>2. pending' \in Seq(Entries) /\ DOMAIN pending' = {1} /\ pending'[1] = diagnosis
    BY <1>3, <1>6
  <2> HIDE DEF diagnosis
  <2> QED
    BY <1>1, <1>2, <1>6, <2>1, <2>2 DEF purchaseVars, taskVars, diagnosis
<1> QED
  BY <1>5, <1>6 DEF Plan

LEMMA RepairedDoes ==
  ASSUME ViewTypeInv, TurnInv, Repaired
  PROVE  /\ course = "fixing" /\ step = "bought" /\ Drained /\ order >= 2 /\ order \in Orders
         /\ busy = "response" /\ result = "none"
         /\ UNCHANGED <<busy, queued, result, incidentVars, bills, phase, sent, answered>>
         /\ UNCHANGED <<enabled, down, trigger>>
         /\ pending' \in Seq(Entries)
         /\ 1 \in DOMAIN pending' /\ pending'[1] = Step("fix", "repaired", NoOne)
         /\ 2 \in DOMAIN pending'
         /\ \/ /\ course' = "verifying" /\ DOMAIN pending' = {1, 2}
               /\ pending'[2] = Status("verifying")
               /\ UNCHANGED <<orderVars, failures, raised, todo>>
            \/ /\ order' = order + 1 /\ order' \in Orders /\ UNCHANGED course
               /\ todo > 0 /\ todo' = todo - 1
               /\ raised' = FALSE /\ failures' = FALSE /\ budget' = MaxAtomic
               /\ step' \in {"trying", "stopped"} /\ offers' \subseteq Providers
               /\ pending'[2] = Step("fix", "ordering", NoOne)
               /\ \A i \in DOMAIN pending' \ {1, 2} :
                    /\ pending'[i].stage = "fix"
                    /\ pending'[i].step \in OpeningKinds
                    /\ pending'[i].step \in {"no_provider", "over_budget"} => step' = "stopped"
<1>1. /\ course = "fixing" /\ step = "bought" /\ Drained
      /\ UNCHANGED <<busy, queued, result, incidentVars, bills>>
  BY DEF Repaired, lockVars
<1>2. /\ order >= 2 /\ order + todo <= 1 + MaxActions /\ busy = "response" /\ order \in Orders
      /\ order \in Nat /\ todo \in Nat /\ result = "none"
  BY <1>1, PurchaseAssumption DEF TurnInv, ViewTypeInv, PurchaseTypes, PurchaseTypeOK, Orders
<1> DEFINE repaired == Step("fix", "repaired", NoOne)
           before == <<repaired, Step("fix", "ordering", NoOne)>>
<1>3. /\ repaired \in Entries /\ Status("verifying") \in Entries
      /\ Step("fix", "ordering", NoOne) \in Entries
  BY DEF Status, Step, Entries, Written, Somebody
<1>4. /\ before \in Seq(Entries) /\ DOMAIN before = {1, 2}
      /\ before[1] = repaired /\ before[2] = Step("fix", "ordering", NoOne)
  BY <1>3
<1>5. CASE /\ Advance("verifying") /\ pending' = <<repaired, Status("verifying")>>
           /\ UNCHANGED <<purchaseVars, taskVars, raised, todo>>
  <2>1. /\ pending' \in Seq(Entries) /\ DOMAIN pending' = {1, 2}
        /\ pending'[1] = repaired /\ pending'[2] = Status("verifying")
    BY <1>3, <1>5
  <2>2. UNCHANGED <<enabled, down, trigger>> /\ course' = "verifying"
    BY <1>5 DEF Advance
  <2> HIDE DEF repaired
  <2> QED
    BY <1>1, <1>2, <1>5, <2>1, <2>2 DEF purchaseVars, taskVars, repaired
<1>6. CASE /\ todo > 0 /\ todo' = todo - 1 /\ Order("fix", "ops", before) /\ UNCHANGED deskVars
  <2>1. order \in 0..MaxActions
    BY <1>2, <1>6, PurchaseAssumption
  <2> HIDE DEF before
  <2>2. /\ order' = order + 1 /\ order' \in Orders /\ UNCHANGED <<phase, sent, answered>>
        /\ raised' = FALSE /\ failures' = FALSE /\ budget' = MaxAtomic
        /\ step' \in {"trying", "stopped"} /\ offers' \subseteq Providers
        /\ Ordering("fix", before)
    BY <1>4, <1>6, <2>1, OrderDoes DEF Services
  <2>3. /\ pending' \in Seq(Entries) /\ {1, 2} \subseteq DOMAIN pending'
        /\ pending'[1] = repaired /\ pending'[2] = Step("fix", "ordering", NoOne)
        /\ \A i \in DOMAIN pending' \ {1, 2} :
             /\ pending'[i].stage = "fix"
             /\ pending'[i].step \in OpeningKinds
             /\ pending'[i].step \in {"no_provider", "over_budget"} => step' = "stopped"
    BY <1>4, <2>2 DEF Ordering
  <2> HIDE DEF repaired
  <2> QED
    BY <1>1, <1>2, <1>6, <2>2, <2>3 DEF deskVars, repaired
<1> QED
  BY <1>5, <1>6 DEF Repaired

LEMMA WriteDoes ==
  ASSUME ViewTypeInv, Write
  PROVE  /\ ~Drained /\ 1 \in DOMAIN pending /\ pending[1] \in Entries
         /\ UNCHANGED <<purchaseVars, lockVars, taskVars, deskVars, responseVars, closed, bills>>
         /\ pending' \in Seq(Entries) /\ log' \in Seq(Entries)
         /\ Len(pending') = Len(pending) - 1 /\ Len(pending) \in Nat
         /\ \A i \in DOMAIN pending' : i + 1 \in DOMAIN pending /\ pending'[i] = pending[i + 1]
         /\ \A i \in DOMAIN pending : i # 1 => i - 1 \in DOMAIN pending' /\ pending'[i - 1] = pending[i]
         /\ \/ /\ pending[1].stage = "status" /\ status' = pending[1].step /\ UNCHANGED log
            \/ /\ pending[1].stage # "status" /\ UNCHANGED status
               /\ log' = Append(log, pending[1])
<1>1. /\ pending # <<>> /\ pending' = Tail(pending) /\ pending \in Seq(Entries) /\ log \in Seq(Entries)
      /\ UNCHANGED <<purchaseVars, lockVars, taskVars, deskVars, responseVars, closed, bills>>
  BY DEF Write, Drained, ViewTypeInv
<1>2. /\ 1 \in DOMAIN pending /\ pending[1] \in Entries /\ Head(pending) = pending[1]
      /\ Len(pending) \in Nat /\ Len(pending) > 0
  BY <1>1
<1>3. /\ pending' \in Seq(Entries) /\ Len(pending') = Len(pending) - 1
      /\ \A i \in 1..(Len(pending) - 1) : pending'[i] = pending[i + 1]
  BY <1>1, <1>2
<1>4. DOMAIN pending = 1..Len(pending) /\ DOMAIN pending' = 1..(Len(pending) - 1)
  BY <1>1, <1>3
<1>5. \/ pending[1].stage = "status" /\ status' = pending[1].step /\ UNCHANGED log
      \/ pending[1].stage # "status" /\ UNCHANGED status /\ log' = Append(log, pending[1])
  BY <1>2 DEF Write
<1>6. log' \in Seq(Entries)
  BY <1>1, <1>2, <1>5
<1>7. \A i \in DOMAIN pending' : i + 1 \in DOMAIN pending /\ pending'[i] = pending[i + 1]
  BY <1>2, <1>3, <1>4
<1>8. \A i \in DOMAIN pending : i # 1 => i - 1 \in DOMAIN pending' /\ pending'[i - 1] = pending[i]
  BY <1>2, <1>3, <1>4
<1> QED
  BY <1>1, <1>2, <1>3, <1>5, <1>6, <1>7, <1>8 DEF Drained

LEMMA GiveTurnDoes ==
  ASSUME ViewTypeInv, TurnInv, GiveTurn
  PROVE  /\ result # "none" /\ busy = "response" /\ Drained
         /\ bills' = [n \in Orders |-> BillOf(n)]
         /\ busy' = "free" /\ queued' = FALSE /\ failures' = FALSE /\ answered' = {}
         /\ order' = 0 /\ step' = "none" /\ offers' = {} /\ sent' = {} /\ budget' = 0
         /\ phase' = [q \in Quotes |-> "open"]
         /\ UNCHANGED <<deskVars, responseVars, pending, incidentVars>>
  BY DEF GiveTurn, Unlock, Idle, TurnInv

LEMMA ViewTypeStep ==
  ASSUME ViewTypeInv, TurnInv, ShopInv, [ViewNext]_viewVars
  PROVE  ViewTypeInv'
<1> USE PurchaseAssumption
<1>1. CASE OpenIncident
  <2>1. /\ UNCHANGED <<purchaseVars, lockVars, taskVars, responseVars, pending>>
        /\ enabled' = enabled /\ down' \in BOOLEAN /\ trigger' \in {"autopilot", "manual"}
        /\ course' = "diagnosing" /\ closed' = FALSE
    BY <1>1 DEF OpenIncident, OpenAlone, OpenAsked, Open, ViewTypeInv, DeskTypeOK
  <2>2. log' \in Seq(Entries)
    BY <1>1 DEF OpenIncident
  <2>3. bills' \in [Orders -> SUBSET Providers]
    BY <1>1 DEF OpenIncident
  <2>4. PurchaseTypes'
    BY <2>1 DEF ViewTypeInv, PurchaseTypes, PurchaseTypeOK, purchaseVars, orderVars, lockVars, taskVars
  <2>5. DeskTypeOK'
    BY <2>1 DEF ViewTypeInv, DeskTypeOK, Courses
  <2> QED
    BY <2>1, <2>2, <2>3, <2>4, <2>5 DEF ViewTypeInv, responseVars
<1>2. CASE CheckOrSwitch
  BY <1>2 DEF CheckOrSwitch, Check, Switch, ViewTypeInv, PurchaseTypes, PurchaseTypeOK,
              DeskTypeOK, Courses, purchaseVars, orderVars, lockVars, taskVars, responseVars,
              incidentVars
<1>3. CASE TakeTurn
  BY <1>3 DEF TakeTurn, LockOrWait, ViewTypeInv, PurchaseTypes, PurchaseTypeOK,
              DeskTypeOK, Courses, purchaseVars, orderVars, taskVars, deskVars, responseVars,
              incidentVars
<1>4. CASE Diagnose
  <2>1. /\ UNCHANGED <<busy, queued, todo, incidentVars, bills, phase, sent, answered>>
        /\ UNCHANGED <<enabled, down, trigger>>
    BY <1>4, DiagnoseDoes
  <2>2. /\ order' \in {0} \cup Orders /\ step' \in {"none", "trying", "paying", "bought", "stopped"}
        /\ offers' \subseteq Providers /\ budget' \in 0..MaxAtomic /\ failures' \in BOOLEAN
        /\ raised' \in BOOLEAN /\ pending' \in Seq(Entries) /\ course' \in Courses
        /\ result' \in {"none", "resolved", "blocked", "failed"}
    <3>1. CASE /\ order' = 1 /\ 1 \in Orders /\ UNCHANGED <<course, result>>
               /\ raised' = FALSE /\ failures' = FALSE /\ budget' = MaxAtomic
               /\ step' \in {"trying", "stopped"} /\ offers' \subseteq Providers
               /\ pending' \in Seq(Entries)
      <4>1. MaxAtomic \in 0..MaxAtomic
        OBVIOUS
      <4> QED
        BY <3>1, <4>1 DEF ViewTypeInv, DeskTypeOK
    <3>2. CASE /\ course' = "lost" /\ result' = "failed"
               /\ UNCHANGED <<orderVars, failures, raised, pending>>
      BY <3>2 DEF ViewTypeInv, PurchaseTypes, PurchaseTypeOK, DeskTypeOK, Courses, orderVars
    <3> QED
      BY <1>4, <3>1, <3>2, DiagnoseDoes
  <2> QED
    BY <2>1, <2>2 DEF ViewTypeInv, PurchaseTypes, PurchaseTypeOK, DeskTypeOK, incidentVars
<1>5. ASSUME NEW p \in Providers, TryOffer(p) PROVE ViewTypeInv'
  <2>1. /\ UNCHANGED <<phase, order, budget, busy, queued, answered, failures>>
        /\ UNCHANGED <<deskVars, todo, result, incidentVars, bills>>
        /\ raised' \in BOOLEAN /\ offers' \subseteq offers /\ order \in Orders
        /\ step' \in {"trying", "stopped", "paying"} /\ (sent' = sent \/ sent' = sent \cup {Quote(p)})
        /\ pending' \in Seq(Entries)
    BY <1>5, TryDoes
  <2>2. Quote(p) \in Quotes
    BY <2>1 DEF Quote, Quotes
  <2> QED
    BY <2>1, <2>2 DEF ViewTypeInv, PurchaseTypes, PurchaseTypeOK, DeskTypeOK, deskVars, incidentVars
<1>6. ASSUME NEW p \in Providers, PayOffer(p) PROVE ViewTypeInv'
  <2>1. /\ UNCHANGED <<phase, order, budget, sent, busy, queued>>
        /\ UNCHANGED <<deskVars, responseVars, incidentVars, bills>>
        /\ failures' \in BOOLEAN /\ Quote(p) \in Quotes /\ pending' \in Seq(Entries)
        /\ step' \in {"trying", "stopped", "bought"}
        /\ offers' \subseteq offers /\ answered' \subseteq answered \cup {Quote(p)}
    BY <1>6, PayDoes
  <2> QED
    BY <2>1 DEF ViewTypeInv, PurchaseTypes, PurchaseTypeOK, DeskTypeOK, deskVars, responseVars,
       incidentVars
<1>7. ASSUME NEW n \in 0..MaxActions, Plan(n) PROVE ViewTypeInv'
  <2>1. /\ UNCHANGED <<busy, queued, incidentVars, bills, phase, sent, answered>>
        /\ UNCHANGED <<enabled, down, trigger>> /\ pending' \in Seq(Entries)
    BY <1>7, PlanDoes
  <2>2. /\ order' \in {0} \cup Orders /\ step' \in {"none", "trying", "paying", "bought", "stopped"}
        /\ offers' \subseteq Providers /\ budget' \in 0..MaxAtomic /\ failures' \in BOOLEAN
        /\ raised' \in BOOLEAN /\ course' \in Courses /\ todo' \in 0..MaxActions
        /\ result' \in {"none", "resolved", "blocked", "failed"}
    <3>1. CASE /\ order' = 2 /\ 2 \in Orders /\ course' = "fixing" /\ UNCHANGED result
               /\ todo' = n - 1 /\ n > 0 /\ raised' = FALSE /\ failures' = FALSE /\ budget' = MaxAtomic
               /\ step' \in {"trying", "stopped"} /\ offers' \subseteq Providers
      <4>1. MaxAtomic \in 0..MaxAtomic /\ n - 1 \in 0..MaxActions
        BY <3>1
      <4> QED
        BY <3>1, <4>1 DEF ViewTypeInv, Courses
    <3>2. CASE /\ course' = "lost" /\ result' = "failed"
               /\ UNCHANGED <<orderVars, failures, raised, todo>>
      BY <3>2 DEF ViewTypeInv, PurchaseTypes, PurchaseTypeOK, DeskTypeOK, Courses, orderVars
    <3> QED
      BY <1>7, <3>1, <3>2, PlanDoes
  <2> QED
    BY <2>1, <2>2 DEF ViewTypeInv, PurchaseTypes, PurchaseTypeOK, DeskTypeOK, incidentVars
<1>8. CASE Repaired
  <2>1. /\ UNCHANGED <<busy, queued, result, incidentVars, bills, phase, sent, answered>>
        /\ UNCHANGED <<enabled, down, trigger>> /\ pending' \in Seq(Entries)
    BY <1>8, RepairedDoes
  <2>2. /\ order' \in {0} \cup Orders /\ step' \in {"none", "trying", "paying", "bought", "stopped"}
        /\ offers' \subseteq Providers /\ budget' \in 0..MaxAtomic /\ failures' \in BOOLEAN
        /\ raised' \in BOOLEAN /\ course' \in Courses /\ todo' \in 0..MaxActions
    <3>1. CASE course' = "verifying" /\ UNCHANGED <<orderVars, failures, raised, todo>>
      BY <3>1 DEF ViewTypeInv, PurchaseTypes, PurchaseTypeOK, Courses, orderVars
    <3>2. CASE /\ order' \in Orders /\ UNCHANGED course /\ todo > 0 /\ todo' = todo - 1
               /\ raised' = FALSE /\ failures' = FALSE /\ budget' = MaxAtomic
               /\ step' \in {"trying", "stopped"} /\ offers' \subseteq Providers
      <4>1. todo \in 0..MaxActions /\ course \in Courses
        BY DEF ViewTypeInv, DeskTypeOK
      <4>2. MaxAtomic \in 0..MaxAtomic /\ todo - 1 \in 0..MaxActions
        BY <3>2, <4>1
      <4> QED
        BY <3>2, <4>1, <4>2
    <3> QED
      BY <1>8, <3>1, <3>2, RepairedDoes
  <2> QED
    BY <2>1, <2>2 DEF ViewTypeInv, PurchaseTypes, PurchaseTypeOK, DeskTypeOK, incidentVars
<1>9. CASE Blocked
  <2>1. result' \in {"failed", "blocked"} /\ course' = "lost" /\ UNCHANGED <<enabled, down, trigger>>
        /\ UNCHANGED <<purchaseVars, lockVars, taskVars, todo, raised, pending, incidentVars, bills>>
    BY <1>9 DEF Blocked, Return, Advance
  <2> QED
    BY <2>1 DEF ViewTypeInv, PurchaseTypes, PurchaseTypeOK, DeskTypeOK, Courses, purchaseVars,
       orderVars, lockVars, taskVars, incidentVars
<1>10. CASE Verify
  <2>1. /\ result' \in {"failed", "resolved"} /\ course' \in {"recovered", "lost"}
        /\ UNCHANGED <<enabled, down, trigger>>
        /\ UNCHANGED <<purchaseVars, lockVars, taskVars, todo, raised, incidentVars, bills>>
    BY <1>10 DEF Verify, Return, Advance
  <2>2. /\ Step("verify", "recovered", NoOne) \in Entries
        /\ Step("verify", "still_failing", NoOne) \in Entries
    BY DEF Step, Entries, Written, Somebody
  <2>3. pending' \in Seq(Entries)
    <3>1. \/ pending' = <<Step("verify", "recovered", NoOne)>>
          \/ pending' = <<>>
          \/ pending' = <<Step("verify", "still_failing", NoOne)>>
      BY <1>10 DEF Verify
    <3>2. CASE pending' = <<Step("verify", "recovered", NoOne)>>
      BY <2>2, <3>2
    <3>3. CASE pending' = <<>>
      BY <3>3
    <3>4. CASE pending' = <<Step("verify", "still_failing", NoOne)>>
      BY <2>2, <3>4
    <3> QED
      BY <3>1, <3>2, <3>3, <3>4
  <2> QED
    BY <2>1, <2>3 DEF ViewTypeInv, PurchaseTypes, PurchaseTypeOK, DeskTypeOK, Courses, purchaseVars,
       orderVars, lockVars, taskVars, incidentVars
<1>11. CASE GiveTurn
  <2>1. /\ bills' = [n \in Orders |-> BillOf(n)]
        /\ busy' = "free" /\ queued' = FALSE /\ failures' = FALSE /\ answered' = {}
        /\ order' = 0 /\ step' = "none" /\ offers' = {} /\ sent' = {} /\ budget' = 0
        /\ phase' = [q \in Quotes |-> "open"]
        /\ UNCHANGED <<deskVars, responseVars, pending, incidentVars>>
    BY <1>11, GiveTurnDoes
  <2>2. \A n \in Orders : BillOf(n) \subseteq Providers
    BY DEF BillOf, MayCharge
  <2>3. bills' \in [Orders -> SUBSET Providers]
    BY <2>1, <2>2
  <2>4. phase' \in [Quotes -> Contract!Phases] /\ 0 \in 0..MaxAtomic
    BY <2>1 DEF Contract!Phases
  <2> QED
    BY <2>1, <2>3, <2>4 DEF ViewTypeInv, PurchaseTypes, PurchaseTypeOK, DeskTypeOK, deskVars,
       responseVars, incidentVars
<1>12. CASE CloseIncident
  <2>1. /\ UNCHANGED <<purchaseVars, lockVars, taskVars, pending, log, bills>>
        /\ enabled' \in BOOLEAN /\ down' = down /\ trigger' = "none" /\ course' = "none"
        /\ closed' = TRUE /\ result' = "none" /\ todo' = 0 /\ raised' = FALSE
    BY <1>12 DEF CloseIncident, Close, ViewTypeInv, DeskTypeOK
  <2>2. 0 \in 0..MaxActions
    OBVIOUS
  <2> QED
    BY <2>1, <2>2 DEF ViewTypeInv, PurchaseTypes, PurchaseTypeOK, DeskTypeOK, Courses, purchaseVars,
       orderVars, lockVars, taskVars
<1>13. CASE Write
  <2>1. /\ UNCHANGED <<purchaseVars, lockVars, taskVars, deskVars, responseVars, closed, bills>>
        /\ pending' \in Seq(Entries) /\ log' \in Seq(Entries)
    BY <1>13, WriteDoes
  <2> QED
    BY <2>1 DEF ViewTypeInv, PurchaseTypes, PurchaseTypeOK, DeskTypeOK, purchaseVars, orderVars,
       lockVars, taskVars, deskVars, responseVars
<1>14. CASE GatewaysServe
  <2>1. /\ UNCHANGED <<order, step, offers, budget, sent, busy, queued, failures, answered>>
        /\ UNCHANGED <<deskVars, responseVars, pending, incidentVars, bills>>
        /\ phase' \in [Quotes -> Contract!Phases]
    BY <1>14, ServeDoes
  <2> QED
    BY <2>1 DEF ViewTypeInv, PurchaseTypes, PurchaseTypeOK, DeskTypeOK, deskVars, responseVars,
       incidentVars
<1>15. CASE UNCHANGED viewVars
  BY <1>15 DEF viewVars, ViewTypeInv, PurchaseTypes, PurchaseTypeOK, DeskTypeOK, purchaseVars,
     orderVars, lockVars, taskVars, deskVars, responseVars, incidentVars
<1> QED
  BY <1>1, <1>2, <1>3, <1>4, <1>5, <1>6, <1>7, <1>8, <1>9, <1>10, <1>11, <1>12, <1>13, <1>14, <1>15
  DEF ViewNext


LEMMA TurnStep ==
  ASSUME ViewTypeInv, TurnInv, ShopInv, [ViewNext]_viewVars
  PROVE  TurnInv'
<1>1. CASE OpenIncident
  <2>1. /\ UNCHANGED <<purchaseVars, lockVars, taskVars, responseVars, pending>>
        /\ trigger = "none" /\ trigger' \in {"autopilot", "manual"}
        /\ course' = "diagnosing" /\ closed' = FALSE /\ log' = <<>>
    BY <1>1 DEF OpenIncident, OpenAlone, OpenAsked, Open
  <2>2. busy = "free" /\ order = 0 /\ course = "none"
    BY <2>1 DEF TurnInv
  <2> QED
    BY <2>1, <2>2 DEF TurnInv, Drained, purchaseVars, orderVars, lockVars, taskVars, responseVars
<1>2. CASE CheckOrSwitch
  BY <1>2 DEF CheckOrSwitch, Check, Switch, TurnInv, Drained, purchaseVars, orderVars, lockVars,
              taskVars, responseVars, incidentVars
<1>3. CASE TakeTurn
  <2>1. /\ course = "diagnosing" /\ busy = "free" /\ busy' = "response" /\ UNCHANGED queued
        /\ UNCHANGED <<purchaseVars, taskVars, deskVars, responseVars, pending, incidentVars, bills>>
    BY <1>3 DEF TakeTurn, LockOrWait
  <2> QED
    BY <2>1 DEF TurnInv, Drained, purchaseVars, orderVars, taskVars, deskVars, responseVars,
       incidentVars
<1>4. CASE Diagnose
  <2>1. /\ course = "diagnosing" /\ busy = "response" /\ order = 0
        /\ UNCHANGED <<busy, queued, todo, incidentVars, bills, phase, sent, answered>>
        /\ UNCHANGED <<enabled, down, trigger>>
        /\ \/ /\ order' = 1 /\ UNCHANGED <<course, result>> /\ step' \in {"trying", "stopped"}
           \/ /\ course' = "lost" /\ result' = "failed" /\ UNCHANGED <<orderVars, pending>>
    BY <1>4, DiagnoseDoes
  <2>2. step = "none" /\ Drained /\ ~closed /\ result = "none" /\ log = <<>> /\ trigger # "none"
    BY <2>1 DEF TurnInv, ViewTypeInv
  <2>3. CASE order' = 1 /\ UNCHANGED <<course, result>> /\ step' \in {"trying", "stopped"}
    BY <2>1, <2>2, <2>3 DEF TurnInv, incidentVars
  <2>4. CASE course' = "lost" /\ result' = "failed" /\ UNCHANGED <<orderVars, pending>>
    BY <2>1, <2>2, <2>4 DEF TurnInv, Drained, orderVars, incidentVars
  <2> QED
    BY <2>1, <2>3, <2>4
<1>5. ASSUME NEW p \in Providers, TryOffer(p) PROVE TurnInv'
  <2>1. /\ step = "trying" /\ order \in Orders
        /\ UNCHANGED <<order, busy, queued, answered, deskVars, todo, result, incidentVars>>
        /\ step' \in {"trying", "stopped", "paying"}
    BY <1>5, TryDoes
  <2>2. order # 0 /\ result = "none"
    BY <2>1 DEF TurnInv
  <2> QED
    BY <2>1, <2>2 DEF TurnInv, deskVars, incidentVars
<1>6. ASSUME NEW p \in Providers, PayOffer(p) PROVE TurnInv'
  <2>1. /\ step = "paying" /\ order \in Orders
        /\ UNCHANGED <<order, busy, queued, deskVars, responseVars, incidentVars>>
        /\ step' \in {"trying", "stopped", "bought"}
    BY <1>6, PayDoes
  <2>2. order # 0 /\ result = "none"
    BY <2>1 DEF TurnInv
  <2> QED
    BY <2>1, <2>2 DEF TurnInv, deskVars, responseVars, incidentVars
<1>7. ASSUME NEW n \in 0..MaxActions, Plan(n) PROVE TurnInv'
  <2>1. /\ course = "diagnosing" /\ order = 1 /\ busy = "response" /\ result = "none" /\ Ended
        /\ UNCHANGED <<busy, queued, incidentVars, enabled, down, trigger>>
        /\ \/ /\ order' = 2 /\ course' = "fixing" /\ UNCHANGED result
              /\ todo' = n - 1 /\ n > 0 /\ step' \in {"trying", "stopped"}
           \/ course' = "lost" /\ result' = "failed" /\ UNCHANGED <<orderVars, todo>>
    BY <1>7, PlanDoes
  <2>2. n \in Nat /\ n <= MaxActions /\ MaxActions \in Nat
    BY PurchaseAssumption
  <2>3. CASE /\ order' = 2 /\ course' = "fixing" /\ UNCHANGED result
             /\ todo' = n - 1 /\ n > 0 /\ step' \in {"trying", "stopped"}
    BY <2>1, <2>2, <2>3 DEF TurnInv, incidentVars
  <2>4. CASE course' = "lost" /\ result' = "failed" /\ UNCHANGED <<orderVars, todo>>
    BY <2>1, <2>4 DEF TurnInv, Ended, incidentVars, orderVars
  <2> QED
    BY <2>1, <2>3, <2>4
<1>8. CASE Repaired
  <2>1. /\ course = "fixing" /\ step = "bought" /\ order >= 2 /\ busy = "response" /\ result = "none"
        /\ UNCHANGED <<busy, queued, result, incidentVars, enabled, down, trigger>>
        /\ \/ course' = "verifying" /\ UNCHANGED <<orderVars, todo>>
           \/ /\ order' = order + 1 /\ UNCHANGED course /\ todo' = todo - 1
              /\ step' \in {"trying", "stopped"}
    BY <1>8, RepairedDoes
  <2>2. order \in Nat /\ todo \in Nat /\ MaxActions \in Nat
    BY PurchaseAssumption DEF ViewTypeInv, PurchaseTypes, PurchaseTypeOK, Orders
  <2>3. CASE course' = "verifying" /\ UNCHANGED <<orderVars, todo>>
    BY <2>1, <2>2, <2>3 DEF TurnInv, incidentVars, orderVars
  <2>4. CASE /\ order' = order + 1 /\ UNCHANGED course /\ todo' = todo - 1
             /\ step' \in {"trying", "stopped"}
    BY <2>1, <2>2, <2>4 DEF TurnInv, incidentVars
  <2> QED
    BY <2>1, <2>3, <2>4
<1>9. CASE Blocked
  <2>1. /\ result' \in {"failed", "blocked"} /\ course' = "lost" /\ UNCHANGED <<enabled, down, trigger>>
        /\ UNCHANGED <<purchaseVars, lockVars, taskVars, todo, raised, pending, incidentVars, bills>>
        /\ Drained /\ course = "fixing" /\ step = "stopped"
    BY <1>9 DEF Blocked, Return, Advance
  <2> QED
    BY <2>1 DEF TurnInv, Drained, purchaseVars, orderVars, lockVars, taskVars, incidentVars
<1>10. CASE Verify
  <2>1. /\ \/ result' = "failed" /\ course' = "lost"
           \/ result' = "resolved" /\ course' = "recovered"
        /\ UNCHANGED <<enabled, down, trigger>>
        /\ UNCHANGED <<purchaseVars, lockVars, taskVars, todo, raised, incidentVars, bills>>
        /\ course = "verifying"
    BY <1>10 DEF Verify, Return, Advance
  <2>2. order # 0 /\ step = "bought" /\ busy = "response"
    BY <2>1 DEF TurnInv, ViewTypeInv, PurchaseTypes, PurchaseTypeOK
  <2> QED
    BY <2>1, <2>2 DEF TurnInv, purchaseVars, orderVars, lockVars, taskVars, incidentVars
<1>11. CASE GiveTurn
  <2>1. /\ result # "none" /\ Drained
        /\ busy' = "free" /\ queued' = FALSE /\ failures' = FALSE /\ answered' = {}
        /\ order' = 0 /\ step' = "none" /\ sent' = {}
        /\ UNCHANGED <<deskVars, responseVars, pending, incidentVars>>
    BY <1>11, GiveTurnDoes
  <2>2. course \in {"recovered", "lost"}
    BY <2>1 DEF TurnInv, ViewTypeInv
  <2> QED
    BY <2>1, <2>2 DEF TurnInv, Drained, deskVars, responseVars, incidentVars
<1>12. CASE CloseIncident
  <2>1. /\ UNCHANGED <<purchaseVars, lockVars, taskVars, pending, log, bills>> /\ busy = "free"
        /\ trigger' = "none" /\ course' = "none" /\ closed' = TRUE /\ result' = "none"
    BY <1>12 DEF CloseIncident, Close
  <2> QED
    BY <2>1 DEF TurnInv, Drained, purchaseVars, orderVars, lockVars, taskVars
<1>13. CASE Write
  <2>1. /\ UNCHANGED <<purchaseVars, lockVars, taskVars, deskVars, responseVars, closed>> /\ ~Drained
    BY <1>13, WriteDoes
  <2>2. order # 0 /\ result # "blocked"
    BY <2>1 DEF TurnInv
  <2> QED
    BY <2>1, <2>2 DEF TurnInv, purchaseVars, orderVars, lockVars, taskVars, deskVars, responseVars
<1>14. CASE GatewaysServe
  <2>1. /\ UNCHANGED <<order, step, offers, budget, sent, busy, queued, failures, answered>>
        /\ UNCHANGED <<deskVars, responseVars, pending, incidentVars, bills>>
    BY <1>14, ServeDoes
  <2> QED
    BY <2>1 DEF TurnInv, Drained, deskVars, responseVars, incidentVars
<1>15. CASE UNCHANGED viewVars
  BY <1>15 DEF viewVars, TurnInv, Drained, purchaseVars, orderVars, lockVars, taskVars, deskVars,
     responseVars, incidentVars
<1> QED
  BY <1>1, <1>2, <1>3, <1>4, <1>5, <1>6, <1>7, <1>8, <1>9, <1>10, <1>11, <1>12, <1>13, <1>14, <1>15
  DEF ViewNext


\* Nothing was ordered, sent or answered.
LEMMA ShopSame ==
  ASSUME ShopInv, UNCHANGED <<phase, order, step, offers, sent, answered>>
  PROVE  ShopInv'
BY DEF ShopInv, OnlyTry, Quote

\* Nothing was sent yet for a new order.
LEMMA ShopOrdered ==
  ASSUME ViewTypeInv, ShopInv, order' = order + 1, UNCHANGED <<phase, sent, answered>>,
         step' \in {"trying", "stopped"}
  PROVE  ShopInv'
<1>1. order \in Nat
  BY PurchaseAssumption DEF ViewTypeInv, PurchaseTypes, PurchaseTypeOK, Orders
<1>2. \A n \in Orders, p \in Providers :
        (<<n, p>> \in sent => n <= order') /\ (<<n, p>> \in answered => n <= order' /\ n # order')
  <2>1. TAKE n \in Orders, p \in Providers
  <2>2. n \in Nat /\ (n <= order => n <= order' /\ n # order')
    BY <1>1, PurchaseAssumption DEF Orders
  <2> QED
    BY <2>2 DEF ShopInv
<1>3. \A p \in Providers : <<order', p>> \notin sent
  <2>1. \A n, p : <<n, p>> \in sent => n \in Orders
    BY DEF ViewTypeInv, PurchaseTypes, PurchaseTypeOK, Quotes
  <2> QED
    BY <1>1, <2>1 DEF ShopInv
<1> QED
  BY <1>2, <1>3 DEF ShopInv, Quote

LEMMA ShopStep ==
  ASSUME ViewTypeInv, TurnInv, ShopInv, [ViewNext]_viewVars
  PROVE  ShopInv'
<1>1. CASE OpenIncident \/ CheckOrSwitch \/ TakeTurn
  <2>1. UNCHANGED <<purchaseVars, taskVars>>
    BY <1>1 DEF OpenIncident, CheckOrSwitch, TakeTurn
  <2> QED
    BY <2>1, ShopSame DEF purchaseVars, orderVars, taskVars
<1>2. CASE Blocked \/ Verify \/ CloseIncident
  <2>1. UNCHANGED <<purchaseVars, taskVars>>
    BY <1>2 DEF Blocked, Verify, CloseIncident
  <2> QED
    BY <2>1, ShopSame DEF purchaseVars, orderVars, taskVars
<1>3. CASE Write
  <2>1. UNCHANGED <<purchaseVars, taskVars>>
    BY <1>3, WriteDoes
  <2> QED
    BY <2>1, ShopSame DEF purchaseVars, orderVars, taskVars
<1>4. CASE Diagnose
  <2>1. /\ order = 0 /\ UNCHANGED <<phase, sent, answered>>
        /\ \/ order' = 1 /\ step' \in {"trying", "stopped"}
           \/ UNCHANGED orderVars
    BY <1>4, DiagnoseDoes
  <2> QED
    BY <2>1, ShopSame, ShopOrdered DEF orderVars
<1>5. ASSUME NEW p \in Providers, TryOffer(p) PROVE ShopInv'
  <2>1. /\ step = "trying" /\ order \in Orders /\ UNCHANGED <<phase, order, answered>>
        /\ offers' \subseteq offers
        /\ \/ step' \in {"trying", "stopped"} /\ sent' = sent
           \/ step' = "paying" /\ sent' = sent \cup {Quote(p)} /\ offers' = offers
    BY <1>5, TryDoes
  <2>2. order \in Nat
    BY <2>1, PurchaseAssumption DEF Orders
  <2>3. CASE step' \in {"trying", "stopped"} /\ sent' = sent
    BY <2>1, <2>2, <2>3 DEF ShopInv, Quote
  <2>4. CASE step' = "paying" /\ sent' = sent \cup {Quote(p)} /\ offers' = offers
    <3>1. OnlyTry(p)'
      BY <2>1, <2>4 DEF ShopInv, OnlyTry, Quote
    <3> QED
      BY <2>1, <2>2, <2>4, <3>1 DEF ShopInv, Quote
  <2> QED
    BY <2>1, <2>3, <2>4
<1>6. ASSUME NEW p \in Providers, PayOffer(p) PROVE ShopInv'
  <2>1. /\ step = "paying" /\ order \in Orders /\ UNCHANGED <<phase, order, sent>> /\ OnlyTry(p)
        /\ \/ step' = "bought" /\ phase[Quote(p)] = "charged" /\ UNCHANGED <<offers, answered>>
           \/ /\ step' \in {"trying", "stopped"} /\ phase[Quote(p)] = "forfeited"
              /\ offers' = offers \ {p} /\ UNCHANGED answered
           \/ step' = "stopped" /\ answered' \subseteq answered \cup {Quote(p)}
    BY <1>6, PayDoes
  <2>2. order \in Nat
    BY <2>1, PurchaseAssumption DEF Orders
  <2>3. CASE step' = "bought" /\ phase[Quote(p)] = "charged" /\ UNCHANGED <<offers, answered>>
    <3>1. OnlyTry(p)' /\ phase'[Quote(p)'] = "charged"
      BY <2>1, <2>3 DEF OnlyTry, Quote
    <3> QED
      BY <2>1, <2>2, <2>3, <3>1 DEF ShopInv
  <2>4. CASE /\ step' \in {"trying", "stopped"} /\ phase[Quote(p)] = "forfeited"
             /\ offers' = offers \ {p} /\ UNCHANGED answered
    BY <2>1, <2>2, <2>4 DEF ShopInv, OnlyTry, Quote
  <2>5. CASE step' = "stopped" /\ answered' \subseteq answered \cup {Quote(p)}
    <3>1. \A n \in Orders, other \in Providers : <<n, other>> \in answered' => n <= order
      <4>1. TAKE n \in Orders, other \in Providers
      <4>2. <<n, other>> = Quote(p) => n = order
        BY DEF Quote
      <4> QED
        BY <2>2, <2>5, <4>2 DEF ShopInv
    <3> QED
      BY <2>1, <2>5, <3>1 DEF ShopInv
  <2> QED
    BY <2>1, <2>3, <2>4, <2>5
<1>7. ASSUME NEW n \in 0..MaxActions, Plan(n) PROVE ShopInv'
  <2>1. /\ order = 1 /\ UNCHANGED <<phase, sent, answered>>
        /\ \/ order' = 2 /\ step' \in {"trying", "stopped"}
           \/ UNCHANGED orderVars
    BY <1>7, PlanDoes
  <2> QED
    BY <2>1, ShopSame, ShopOrdered DEF orderVars
<1>8. CASE Repaired
  <2>1. /\ UNCHANGED <<phase, sent, answered>>
        /\ \/ order' = order + 1 /\ step' \in {"trying", "stopped"}
           \/ UNCHANGED orderVars
    BY <1>8, RepairedDoes
  <2> QED
    BY <2>1, ShopSame, ShopOrdered DEF orderVars
<1>9. CASE GiveTurn
  <2>1. sent' = {} /\ answered' = {} /\ step' = "none"
    BY <1>9, GiveTurnDoes
  <2> QED
    BY <2>1 DEF ShopInv
<1>10. CASE GatewaysServe
  <2>1. /\ UNCHANGED <<order, step, offers, sent, answered>>
        /\ \A q \in Quotes : phase[q] \in {"forfeited", "lapsed", "charged"} => phase'[q] = phase[q]
    BY <1>10, ServeDoes
  <2>2. sent \subseteq Quotes
    BY DEF ViewTypeInv, PurchaseTypes, PurchaseTypeOK
  <2>3. \A p \in Providers : OnlyTry(p) => OnlyTry(p)'
    BY <2>1, <2>2 DEF OnlyTry, Quote
  <2>4. step = "bought" => \E p \in Providers : OnlyTry(p)' /\ phase'[Quote(p)'] = "charged"
    BY <2>1, <2>2, <2>3 DEF ShopInv, OnlyTry, Quote
  <2> QED
    BY <2>1, <2>2, <2>3, <2>4 DEF ShopInv, Quote
<1>11. CASE UNCHANGED viewVars
  BY <1>11, ShopSame DEF viewVars, purchaseVars, orderVars, taskVars
<1> QED
  BY <1>1, <1>2, <1>3, <1>4, <1>5, <1>6, <1>7, <1>8, <1>9, <1>10, <1>11 DEF ViewNext


-----------------------------------------------------------------------------
(* The lanes.                                                              *)

\* Written, or about to be.
Narrated(stage, kind) == Wrote(stage, kind) \/ Due(kind)

\* One stage of an incident after another, in what is written of it, in what
\* is about to be, and in the status that goes with it.
LaneInv ==
  /\ closed => status \in {"failed", "resolved", "blocked"}
  /\ ~closed => status \in {"diagnosing", "fixing", "verifying"}
  /\ \A i \in DOMAIN pending : pending[i].stage = "status" =>
       pending[i].step \in {"diagnosing", "fixing", "verifying"}
  /\ \A i \in DOMAIN pending :
       /\ pending[i].step = "diagnosis" => pending[i].stage = "diagnose"
       /\ pending[i].step = "repaired" => pending[i].stage = "fix" /\ Wrote("diagnose", "diagnosis")
       /\ pending[i].step = "recovered" => pending[i].stage = "verify" /\ Wrote("fix", "repaired")
  /\ Wrote("verify", "recovered") => Wrote("fix", "repaired")
  /\ Wrote("fix", "repaired") => Wrote("diagnose", "diagnosis")
  /\ course \in {"fixing", "verifying", "recovered"} => Narrated("diagnose", "diagnosis")
  /\ course \in {"verifying", "recovered"} => Narrated("fix", "repaired")
  /\ course = "recovered" => Narrated("verify", "recovered")
  /\ Narrated("verify", "recovered") => course = "recovered" \/ status = "resolved"
  /\ status = "resolved" => Wrote("verify", "recovered")

\* What is written is at the end of the log.
LEMMA LogGrows ==
  ASSUME ViewTypeInv, NEW e \in Entries, log' = Append(log, e)
  PROVE  /\ Len(log) \in Nat /\ Len(log') = Len(log) + 1 /\ log' # <<>>
         /\ DOMAIN log = 1..Len(log) /\ DOMAIN log' = 1..(Len(log) + 1)
         /\ DOMAIN log' = DOMAIN log \cup {Len(log) + 1} /\ Len(log) + 1 \notin DOMAIN log
         /\ \A i \in DOMAIN log : log'[i] = log[i]
         /\ log'[Len(log) + 1] = e
BY DEF ViewTypeInv

LEMMA WroteGrows ==
  ASSUME ViewTypeInv, NEW e \in Entries, log' = Append(log, e), NEW stage, NEW kind
  PROVE  Wrote(stage, kind)' <=> Wrote(stage, kind) \/ (e.stage = stage /\ e.step = kind)
BY LogGrows DEF Wrote

\* The steps of a purchase are none of those the lanes look at.
ShopKinds == Kinds \cup {"none_left", "briefed", "ordering"}

\* A step that writes nothing, and of which only a purchase is told.
LEMMA LanesSame ==
  ASSUME LaneInv, UNCHANGED <<log, status, closed>>,
         \/ Drained /\ \A i \in DOMAIN pending' :
                         /\ pending'[i].stage = "status" => pending'[i].step = "diagnosing"
                         /\ pending'[i].step \in ShopKinds \cup {"diagnosing"}
         \/ UNCHANGED pending,
         course' = course \/ (course' = "lost" /\ course # "recovered")
  PROVE  LaneInv'
<1>1. CASE UNCHANGED pending
  BY <1>1 DEF LaneInv, Narrated, Wrote, Due
<1>2. CASE Drained /\ \A i \in DOMAIN pending' :
                        /\ pending'[i].stage = "status" => pending'[i].step = "diagnosing"
                        /\ pending'[i].step \in ShopKinds \cup {"diagnosing"}
  <2>1. \A kind : ~Due(kind)
    BY <1>2 DEF Drained, Due
  <2>2. ~Due("diagnosis")' /\ ~Due("repaired")' /\ ~Due("recovered")'
    BY <1>2 DEF Due, ShopKinds, Kinds
  <2>3. \A stage, kind : Wrote(stage, kind)' = Wrote(stage, kind)
    BY DEF Wrote
  <2>4. \A i \in DOMAIN pending' : pending'[i].step \notin {"diagnosis", "repaired", "recovered"}
    BY <1>2 DEF ShopKinds, Kinds
  <2> QED
    BY <1>2, <2>1, <2>2, <2>3, <2>4 DEF LaneInv, Narrated
<1> QED
  BY <1>1, <1>2

LEMMA LaneStep ==
  ASSUME ViewTypeInv, TurnInv, ShopInv, LaneInv, [ViewNext]_viewVars
  PROVE  LaneInv'
<1>1. CASE OpenIncident
  <2>1. /\ UNCHANGED pending /\ trigger = "none"
        /\ course' = "diagnosing" /\ closed' = FALSE /\ log' = <<>> /\ status' = "diagnosing"
    BY <1>1 DEF OpenIncident, OpenAlone, OpenAsked, Open
  <2>2. pending = <<>>
    BY <2>1 DEF TurnInv, Drained
  <2>3. \A stage, kind : ~Wrote(stage, kind)' /\ ~Due(kind)'
    BY <2>1, <2>2 DEF Wrote, Due
  <2> QED
    BY <2>1, <2>2, <2>3 DEF LaneInv, Narrated
<1>2. CASE CheckOrSwitch \/ TakeTurn
  <2>1. UNCHANGED <<incidentVars, pending, course>>
    BY <1>2 DEF CheckOrSwitch, Check, Switch, TakeTurn, deskVars
  <2>2. UNCHANGED <<log, status, closed>> /\ pending' = pending /\ course' = course
    BY <2>1 DEF incidentVars
  <2> QED
    BY <2>2, LanesSame
<1>3. CASE Diagnose
  <2>1. /\ course = "diagnosing" /\ order = 0 /\ UNCHANGED incidentVars
        /\ course' = course \/ course' = "lost"
        /\ \/ UNCHANGED pending
           \/ \A i \in DOMAIN pending' :
                \/ pending'[i] = Status("diagnosing")
                \/ /\ pending'[i].stage = "diagnose"
                   /\ pending'[i].step \in OpeningKinds \cup {"briefed"}
    BY <1>3, DiagnoseDoes
  <2>2. Drained
    BY <2>1 DEF TurnInv
  <2>3. /\ Status("diagnosing").stage = "status" /\ Status("diagnosing").step = "diagnosing"
        /\ OpeningKinds \cup {"briefed"} \subseteq ShopKinds
    BY DEF Status, Step, OpeningKinds, ShopKinds, Kinds
  <2>4. \/ UNCHANGED pending
        \/ \A i \in DOMAIN pending' :
             /\ pending'[i].stage = "status" => pending'[i].step = "diagnosing"
             /\ pending'[i].step \in ShopKinds \cup {"diagnosing"}
    BY <2>1, <2>3
  <2> QED
    BY <2>1, <2>2, <2>4, LanesSame DEF incidentVars
<1>4. ASSUME NEW p \in Providers, TryOffer(p) PROVE LaneInv'
  <2>1. /\ Drained /\ UNCHANGED <<deskVars, incidentVars>>
        /\ \A i \in DOMAIN pending' : pending'[i].stage = Here /\ pending'[i].step \in TryKinds
    BY <1>4, TryDoes
  <2>2. Here # "status" /\ TryKinds \subseteq ShopKinds
    BY DEF Here, TryKinds, ShopKinds, Kinds
  <2> QED
    BY <2>1, <2>2, LanesSame DEF incidentVars, deskVars
<1>5. ASSUME NEW p \in Providers, PayOffer(p) PROVE LaneInv'
  <2>1. /\ Drained /\ UNCHANGED <<deskVars, incidentVars>>
        /\ \A i \in DOMAIN pending' : pending'[i].stage = Here
        /\ \/ \A i \in DOMAIN pending' : pending'[i].step \in {"settled", "result"}
           \/ DOMAIN pending' = {1} /\ pending'[1].step \in {"service_failed", "none_left"}
           \/ DOMAIN pending' = {1} /\ pending'[1].step \in {"payment_failed", "refused"}
    BY <1>5, PayDoes
  <2>2. Here # "status"
    BY DEF Here
  <2>3. \A i \in DOMAIN pending' : pending'[i].step \in ShopKinds
    BY <2>1 DEF ShopKinds, Kinds
  <2> QED
    BY <2>1, <2>2, <2>3, LanesSame DEF incidentVars, deskVars
<1>6. ASSUME NEW n \in 0..MaxActions, Plan(n) PROVE LaneInv'
  <2>1. /\ course = "diagnosing" /\ Drained /\ UNCHANGED incidentVars
        /\ 1 \in DOMAIN pending' /\ pending'[1] = Step("diagnose", "diagnosis", NoOne)
        /\ \/ /\ course' = "fixing" /\ pending'[2] = Status("fixing")
              /\ pending'[3] = Step("fix", "ordering", NoOne)
              /\ \A i \in DOMAIN pending' \ {1, 2, 3} :
                   pending'[i].stage = "fix" /\ pending'[i].step \in OpeningKinds
           \/ course' = "lost" /\ DOMAIN pending' = {1}
    BY <1>6, PlanDoes
  <2>2. \A i \in DOMAIN pending' :
          /\ pending'[i].stage = "status" => pending'[i].step = "fixing"
          /\ pending'[i].step \notin {"repaired", "recovered"}
          /\ pending'[i].step = "diagnosis" => pending'[i].stage = "diagnose"
    <3>1. /\ pending'[1].stage = "diagnose" /\ pending'[1].step = "diagnosis"
      BY <2>1 DEF Step
    <3>2. \A i \in DOMAIN pending' \ {1} :
            \/ pending'[i].stage = "status" /\ pending'[i].step = "fixing"
            \/ pending'[i].stage = "fix" /\ pending'[i].step \in OpeningKinds \cup {"ordering"}
      BY <2>1 DEF Step, Status
    <3> QED
      BY <3>1, <3>2 DEF OpeningKinds
  <2>3. Due("diagnosis")' /\ ~Due("repaired")' /\ ~Due("recovered")'
    BY <2>1, <2>2 DEF Due, Step
  <2>4. \A stage, kind : Wrote(stage, kind)' = Wrote(stage, kind)
    BY <2>1 DEF Wrote, incidentVars
  <2>5. ~Due("recovered")
    BY <2>1 DEF Drained, Due
  <2> QED
    BY <2>1, <2>2, <2>3, <2>4, <2>5 DEF LaneInv, Narrated, incidentVars
<1>7. CASE Repaired
  <2>1. /\ course = "fixing" /\ Drained /\ UNCHANGED incidentVars
        /\ 1 \in DOMAIN pending' /\ pending'[1] = Step("fix", "repaired", NoOne)
        /\ \/ course' = "verifying" /\ DOMAIN pending' = {1, 2} /\ pending'[2] = Status("verifying")
           \/ /\ course' = course /\ pending'[2] = Step("fix", "ordering", NoOne)
              /\ \A i \in DOMAIN pending' \ {1, 2} :
                   pending'[i].stage = "fix" /\ pending'[i].step \in OpeningKinds
    BY <1>7, RepairedDoes
  <2>2. \A i \in DOMAIN pending' :
          /\ pending'[i].stage = "status" => pending'[i].step = "verifying"
          /\ pending'[i].step \notin {"diagnosis", "recovered"}
          /\ pending'[i].step = "repaired" => pending'[i].stage = "fix"
    <3>1. pending'[1].stage = "fix" /\ pending'[1].step = "repaired"
      BY <2>1 DEF Step
    <3>2. \A i \in DOMAIN pending' \ {1} :
            \/ pending'[i].stage = "status" /\ pending'[i].step = "verifying"
            \/ pending'[i].stage = "fix" /\ pending'[i].step \in OpeningKinds \cup {"ordering"}
      BY <2>1 DEF Step, Status
    <3> QED
      BY <3>1, <3>2 DEF OpeningKinds
  <2>3. Due("repaired")' /\ ~Due("recovered")'
    BY <2>1, <2>2 DEF Due, Step
  <2>4. \A stage, kind : Wrote(stage, kind)' = Wrote(stage, kind)
    BY <2>1 DEF Wrote, incidentVars
  <2>5. \A kind : ~Due(kind)
    BY <2>1 DEF Drained, Due
  <2>6. Wrote("diagnose", "diagnosis")
    BY <2>1, <2>5 DEF LaneInv, Narrated
  <2> QED
    BY <2>1, <2>2, <2>3, <2>4, <2>5, <2>6 DEF LaneInv, Narrated, incidentVars
<1>8. CASE Blocked
  <2>1. course = "fixing" /\ course' = "lost" /\ UNCHANGED <<pending, incidentVars>>
    BY <1>8 DEF Blocked, Return, Advance
  <2> QED
    BY <2>1, LanesSame DEF incidentVars
<1>9. CASE Verify
  <2>1. /\ course = "verifying" /\ Drained /\ UNCHANGED incidentVars
        /\ \/ course' = "recovered" /\ pending' = <<Step("verify", "recovered", NoOne)>>
           \/ course' = "lost" /\ pending' = <<>>
           \/ course' = "lost" /\ pending' = <<Step("verify", "still_failing", NoOne)>>
    BY <1>9 DEF Verify, Return, Advance
  <2>2. \A kind : ~Due(kind)
    BY <2>1 DEF Drained, Due
  <2>3. \A stage, kind : Wrote(stage, kind)' = Wrote(stage, kind)
    BY <2>1 DEF Wrote, incidentVars
  <2>4. Wrote("diagnose", "diagnosis") /\ Wrote("fix", "repaired")
    BY <2>1, <2>2 DEF LaneInv, Narrated
  <2>5. CASE course' = "recovered" /\ pending' = <<Step("verify", "recovered", NoOne)>>
    <3>1. DOMAIN pending' = {1} /\ pending'[1].stage = "verify" /\ pending'[1].step = "recovered"
      BY <2>5 DEF Step
    <3>2. Due("recovered")'
      BY <3>1 DEF Due
    <3> QED
      BY <2>1, <2>3, <2>4, <2>5, <3>1, <3>2 DEF LaneInv, Narrated, incidentVars
  <2>6. CASE course' = "lost" /\ pending' = <<>>
    <3>1. ~Due("recovered")' /\ DOMAIN pending' = {}
      BY <2>6 DEF Due
    <3> QED
      BY <2>1, <2>3, <2>4, <2>6, <3>1 DEF LaneInv, Narrated, incidentVars
  <2>7. CASE course' = "lost" /\ pending' = <<Step("verify", "still_failing", NoOne)>>
    <3>1. DOMAIN pending' = {1} /\ pending'[1].stage = "verify" /\ pending'[1].step = "still_failing"
      BY <2>7 DEF Step
    <3>2. ~Due("recovered")'
      BY <3>1 DEF Due
    <3> QED
      BY <2>1, <2>2, <2>3, <2>4, <2>7, <3>1, <3>2 DEF LaneInv, Narrated, incidentVars
  <2> QED
    BY <2>1, <2>5, <2>6, <2>7
<1>10. CASE GiveTurn
  <2>1. UNCHANGED <<deskVars, pending, incidentVars>>
    BY <1>10, GiveTurnDoes
  <2> QED
    BY <2>1, LanesSame DEF incidentVars, deskVars
<1>11. CASE CloseIncident
  <2>1. /\ UNCHANGED <<pending, log>> /\ busy = "free" /\ result # "none"
        /\ course' = "none" /\ closed' = TRUE /\ status' = result
    BY <1>11 DEF CloseIncident, Close
  <2>2. Drained /\ ~closed /\ result \in {"resolved", "blocked", "failed"}
    BY <2>1 DEF TurnInv, ViewTypeInv
  <2>3. \A kind : ~Due(kind) /\ ~Due(kind)'
    BY <2>1, <2>2 DEF Drained, Due
  <2>4. \A stage, kind : Wrote(stage, kind)' = Wrote(stage, kind)
    BY <2>1 DEF Wrote
  <2>5. Wrote("verify", "recovered") <=> result = "resolved"
    BY <2>2, <2>3 DEF LaneInv, TurnInv, Narrated
  <2>6. DOMAIN pending' = {}
    BY <2>1, <2>2 DEF Drained
  <2> QED
    BY <2>1, <2>2, <2>3, <2>4, <2>5, <2>6 DEF LaneInv, Narrated
<1>12. CASE Write
  <2>1. /\ UNCHANGED <<deskVars, closed>> /\ ~Drained /\ 1 \in DOMAIN pending /\ pending[1] \in Entries
        /\ \A i \in DOMAIN pending' : i + 1 \in DOMAIN pending /\ pending'[i] = pending[i + 1]
        /\ \A i \in DOMAIN pending : i # 1 => i - 1 \in DOMAIN pending' /\ pending'[i - 1] = pending[i]
        /\ \/ /\ pending[1].stage = "status" /\ status' = pending[1].step /\ UNCHANGED log
           \/ /\ pending[1].stage # "status" /\ UNCHANGED status
              /\ log' = Append(log, pending[1])
    BY <1>12, WriteDoes
  <2>2. ~closed
    BY <2>1 DEF TurnInv
  <2>3. /\ status' \in {"diagnosing", "fixing", "verifying"}
        /\ status # "resolved"
    BY <2>1, <2>2 DEF LaneInv
  <2>4. \A kind : Due(kind) <=> Due(kind)' \/ pending[1].step = kind
    BY <2>1 DEF Due
  <2>5. ASSUME NEW stage, NEW kind
        PROVE  Wrote(stage, kind)' <=>
                 \/ Wrote(stage, kind)
                 \/ pending[1].stage # "status" /\ pending[1].stage = stage /\ pending[1].step = kind
    <3>1. CASE pending[1].stage = "status" /\ UNCHANGED log
      BY <3>1 DEF Wrote
    <3>2. CASE pending[1].stage # "status" /\ log' = Append(log, pending[1])
      BY <2>1, <3>2, WroteGrows
    <3> QED
      BY <2>1, <3>1, <3>2
  <2>6. /\ Narrated("diagnose", "diagnosis")' <=> Narrated("diagnose", "diagnosis")
        /\ Narrated("fix", "repaired")' <=> Narrated("fix", "repaired")
        /\ Narrated("verify", "recovered")' <=> Narrated("verify", "recovered")
    BY <2>1, <2>4, <2>5 DEF LaneInv, Narrated
  <2>7. /\ Wrote("verify", "recovered")' => Wrote("fix", "repaired")'
        /\ Wrote("fix", "repaired")' => Wrote("diagnose", "diagnosis")'
    BY <2>1, <2>5 DEF LaneInv
  <2>8. /\ Wrote("diagnose", "diagnosis") => Wrote("diagnose", "diagnosis")'
        /\ Wrote("fix", "repaired") => Wrote("fix", "repaired")'
    BY <2>5
  <2> QED
    BY <2>1, <2>2, <2>3, <2>6, <2>7, <2>8 DEF LaneInv, deskVars
<1>13. CASE GatewaysServe
  <2>1. UNCHANGED <<deskVars, pending, incidentVars>>
    BY <1>13, ServeDoes
  <2> QED
    BY <2>1, LanesSame DEF incidentVars, deskVars
<1>14. CASE UNCHANGED viewVars
  BY <1>14, LanesSame DEF viewVars, incidentVars, deskVars
<1> QED
  BY <1>1, <1>2, <1>3, <1>4, <1>5, <1>6, <1>7, <1>8, <1>9, <1>10, <1>11, <1>12, <1>13, <1>14
  DEF ViewNext


\* What the lanes rest on.
LanesInv == ViewTypeInv /\ TurnInv /\ ShopInv /\ LaneInv

LEMMA LanesInit == ViewInit => LanesInv
<1> SUFFICES ASSUME ViewInit PROVE LanesInv
  OBVIOUS
<1> USE PurchaseAssumption DEF ViewInit, PurchaseInit, TaskInit, DeskInit, Idle
<1>1. PurchaseTypes
  <2>1. phase \in [Quotes -> Contract!Phases]
    BY DEF Contract!Phases
  <2>2. 0 \in 0..MaxAtomic
    OBVIOUS
  <2> QED
    BY <2>1, <2>2 DEF PurchaseTypes, PurchaseTypeOK
<1>2. ViewTypeInv
  <2>1. pending \in Seq(Entries) /\ log \in Seq(Entries)
    OBVIOUS
  <2>2. 0 \in 0..MaxActions /\ bills \in [Orders -> SUBSET Providers]
    OBVIOUS
  <2> QED
    BY <1>1, <2>1, <2>2 DEF ViewTypeInv, DeskTypeOK, Courses
<1>3. TurnInv
  BY DEF TurnInv, Drained
<1>4. ShopInv
  BY DEF ShopInv
<1>5. LaneInv
  <2>1. \A stage, kind : ~Wrote(stage, kind) /\ ~Due(kind)
    BY DEF Wrote, Due
  <2> QED
    BY <2>1 DEF LaneInv, Narrated
<1> QED
  BY <1>2, <1>3, <1>4, <1>5 DEF LanesInv

LEMMA LanesStep == LanesInv /\ [ViewNext]_viewVars => LanesInv'
BY ViewTypeStep, TurnStep, ShopStep, LaneStep DEF LanesInv

LEMMA LanesFollow == LanesInv => LanesAgree
<1> SUFFICES ASSUME LanesInv PROVE LanesAgree
  OBVIOUS
<1>1. LaneInv /\ TurnInv
  BY DEF LanesInv
<1>2. /\ closed => status \in {"failed", "resolved", "blocked"}
      /\ ~closed => status \in {"diagnosing", "fixing", "verifying"}
      /\ Wrote("verify", "recovered") => Wrote("fix", "repaired")
      /\ Wrote("fix", "repaired") => Wrote("diagnose", "diagnosis")
      /\ status = "resolved" => Wrote("verify", "recovered")
  BY <1>1 DEF LaneInv
<1>3. status = "blocked" => ~Wrote("verify", "recovered")
  BY <1>1 DEF LaneInv, TurnInv, Narrated
<1>4. /\ DiagnoseLane \in {"done", "working", "failed"}
      /\ DiagnoseLane = "done" <=> Wrote("diagnose", "diagnosis")
      /\ DiagnoseLane = "working" => status = "diagnosing"
  BY DEF DiagnoseLane
<1>5. /\ FixLane \in {"working", "blocked", "done", "waiting", "failed"}
      /\ FixLane = "working" => status = "fixing"
      /\ FixLane = "blocked" <=> status = "blocked"
      /\ FixLane = "done" => Wrote("fix", "repaired")
      /\ FixLane = "waiting" => status = "diagnosing"
      /\ FixLane = "failed" => ~Wrote("fix", "repaired")
      /\ status = "resolved" /\ Wrote("fix", "repaired") => FixLane = "done"
  <2>1. CASE status = "fixing"
    BY <2>1 DEF FixLane
  <2>2. CASE status = "blocked"
    BY <2>2 DEF FixLane
  <2>3. CASE status \notin {"fixing", "blocked"}
    <3>1. FixLane = IF Wrote("fix", "repaired") THEN "done"
                    ELSE IF status = "diagnosing" THEN "waiting" ELSE "failed"
      BY <2>3 DEF FixLane
    <3> QED
      BY <2>3, <3>1
  <2> QED
    BY <2>1, <2>2, <2>3
<1>6. /\ VerifyLane \in {"done", "failed", "working", "skipped", "waiting"}
      /\ VerifyLane = "done" <=> Wrote("verify", "recovered")
      /\ VerifyLane = "working" => status = "verifying"
      /\ VerifyLane = "skipped" => status \in {"blocked", "failed"}
      /\ VerifyLane = "waiting" => status \notin {"blocked", "failed"}
  BY DEF VerifyLane
<1>7. /\ Chip = "Resolved" <=> status = "resolved"
      /\ Chip = "Blocked" <=> status = "blocked"
  <2>1. CASE status = "resolved"
    BY <2>1 DEF Chip
  <2>2. CASE status = "blocked"
    BY <2>2 DEF Chip
  <2>3. CASE status = "failed"
    BY <2>3 DEF Chip
  <2>4. CASE status \notin {"resolved", "blocked", "failed"}
    <3>1. Chip = "under way"
      BY <2>4 DEF Chip
    <3> QED
      BY <2>4, <3>1
  <2> QED
    BY <2>1, <2>2, <2>3, <2>4
<1>8. /\ 1..4 = {1, 2, 3, 4} /\ Lanes[1] = "done" /\ Lanes[2] = DiagnoseLane
      /\ Lanes[3] = FixLane /\ Lanes[4] = VerifyLane
  BY DEF Lanes
<1>9. \A i, j \in 1..4 : Lanes[i] = "working" /\ Lanes[j] = "working" => i = j
  BY <1>4, <1>5, <1>6, <1>8
<1>10. \A i \in 1..4 : Lanes[i] \in {"working", "waiting"} => ~closed
  BY <1>2, <1>4, <1>5, <1>6, <1>8
<1>11. \A i \in 1..4 : Lanes[i] = "skipped" => closed
  BY <1>2, <1>4, <1>5, <1>6, <1>8
<1>12. \A i, j \in 1..4 : i < j /\ Lanes[i] \in {"failed", "blocked"} => Lanes[j] # "done"
  <2>1. SUFFICES ASSUME NEW i \in 1..4, NEW j \in 1..4, i < j, Lanes[i] \in {"failed", "blocked"}
                 PROVE  Lanes[j] # "done"
    OBVIOUS
  <2>2. i = 2 => ~Wrote("fix", "repaired") /\ ~Wrote("verify", "recovered") /\ j \in {3, 4}
    BY <1>2, <1>4, <1>8, <2>1
  <2>3. i = 3 => ~Wrote("verify", "recovered") /\ j = 4
    BY <1>2, <1>3, <1>5, <1>8, <2>1
  <2>4. i \in {2, 3}
    BY <1>8, <2>1
  <2> QED
    BY <1>5, <1>6, <1>8, <2>2, <2>3, <2>4
<1>13. Chip = "Resolved" => \A i \in 1..4 : Lanes[i] = "done"
  BY <1>2, <1>4, <1>5, <1>6, <1>7, <1>8
<1>14. (Chip = "Blocked") <=> (Lanes[3] = "blocked")
  BY <1>5, <1>7, <1>8
<1> QED
  BY <1>9, <1>10, <1>11, <1>12, <1>13, <1>14 DEF LanesAgree

\* Autopilot.tsx:545-564,619-635,803-872.  At most one lane works, none works
\* or waits once the incident is closed, none is skipped before, none is done
\* behind one that failed, and the lanes agree with the chip, however many
\* providers and repairs there are and whatever has been written so far.
THEOREM LanesNeverDisagree == ViewSpec => []LanesAgree
<1>1. ViewInit => LanesInv
  BY LanesInit
<1>2. LanesInv /\ [ViewNext]_viewVars => LanesInv'
  BY LanesStep
<1>3. LanesInv => LanesAgree
  BY LanesFollow
<1> QED
  BY <1>1, <1>2, <1>3, PTL DEF ViewSpec


-----------------------------------------------------------------------------
(* Which order of the incident a step is about.                            *)

LEMMA OrderedType ==
  ASSUME NEW steps, NEW i \in Nat
  PROVE  Ordered(steps, i) \in Nat
<1> DEFINE S == {k \in 1..i : steps[k].step = "ordering"}
<1>1. IsFiniteSet(1..i) /\ S \in SUBSET (1..i)
  BY FS_Interval
<1>2. IsFiniteSet(S)
  BY <1>1, FS_Subset
<1> QED
  BY <1>2, FS_CardinalityType DEF Ordered

LEMMA OrderedGrows ==
  ASSUME NEW steps, NEW i \in Nat, NEW j \in Nat, i <= j
  PROVE  Ordered(steps, i) <= Ordered(steps, j)
<1> DEFINE S == {k \in 1..i : steps[k].step = "ordering"}
           T == {k \in 1..j : steps[k].step = "ordering"}
<1>1. IsFiniteSet(1..j) /\ T \in SUBSET (1..j) /\ S \in SUBSET T
  BY FS_Interval
<1>2. IsFiniteSet(T)
  BY <1>1, FS_Subset
<1>3. Cardinality(S) <= Cardinality(T)
  BY <1>1, <1>2, FS_Subset
<1> QED
  BY <1>3 DEF Ordered

LEMMA OrderedNext ==
  ASSUME NEW steps, NEW i \in Nat
  PROVE  Ordered(steps, i + 1) = Ordered(steps, i) + IF steps[i + 1].step = "ordering" THEN 1 ELSE 0
<1> DEFINE S == {k \in 1..i : steps[k].step = "ordering"}
           T == {k \in 1..(i + 1) : steps[k].step = "ordering"}
<1>1. IsFiniteSet(1..i) /\ S \in SUBSET (1..i)
  BY FS_Interval
<1>2. IsFiniteSet(S) /\ Cardinality(S) \in Nat /\ i + 1 \notin S
  BY <1>1, FS_Subset, FS_CardinalityType
<1>3. CASE steps[i + 1].step = "ordering"
  <2>1. T = S \cup {i + 1}
    BY <1>3
  <2>2. Cardinality(T) = Cardinality(S) + 1
    BY <1>2, <2>1, FS_AddElement
  <2> QED
    BY <1>3, <2>2 DEF Ordered
<1>4. CASE steps[i + 1].step # "ordering"
  <2>1. T = S
    BY <1>4
  <2>2. Ordered(steps, i + 1) = Cardinality(T) /\ Ordered(steps, i) = Cardinality(S)
    BY DEF Ordered
  <2> HIDE DEF S, T
  <2> QED
    BY <1>2, <1>4, <2>1, <2>2
<1> QED
  BY <1>3, <1>4

LEMMA OrderedSame ==
  ASSUME NEW a, NEW b, NEW i \in Nat, \A k \in 1..i : a[k] = b[k]
  PROVE  Ordered(a, i) = Ordered(b, i)
<1>1. {k \in 1..i : a[k].step = "ordering"} = {k \in 1..i : b[k].step = "ordering"}
  OBVIOUS
<1> QED
  BY <1>1 DEF Ordered

LEMMA OrderedNone == ASSUME NEW steps PROVE Ordered(steps, 0) = 0
<1>1. {k \in 1..0 : steps[k].step = "ordering"} = {}
  OBVIOUS
<1> QED
  BY <1>1, FS_EmptySet DEF Ordered

LEMMA HasMax ==
  ASSUME NEW m \in Nat, NEW S \in SUBSET (1..m), S # {}
  PROVE  \E i \in S : \A j \in S : j <= i
<1> DEFINE T == {m - i : i \in S}
<1>1. T \in SUBSET Nat /\ T # {}
  <2>1. \A i \in S : m - i \in Nat
    OBVIOUS
  <2> QED
    BY <2>1
<1>2. PICK n \in T : \A k \in T : n <= k
  BY <1>1, NatHasMin
<1>3. PICK i \in S : n = m - i
  BY <1>2
<1>4. \A j \in S : m - i <= m - j
  BY <1>2, <1>3
<1>5. \A j \in S : j <= i
  BY <1>4
<1> QED
  BY <1>5

\* The i-th step written is w, and it is about order n.
Said(i, w, n) == i \in DOMAIN log /\ w = log[i] /\ n = 1 + Ordered(log, i)

LEMMA LatestType == ViewTypeInv => Latest \in Nat /\ Latest >= 1
<1> SUFFICES ASSUME ViewTypeInv PROVE Latest \in Nat /\ Latest >= 1
  OBVIOUS
<1>1. Len(log) \in Nat
  BY DEF ViewTypeInv
<1> QED
  BY <1>1, OrderedType DEF Latest

LEMMA SaidType ==
  ASSUME ViewTypeInv, NEW i, NEW w, NEW n, Said(i, w, n)
  PROVE  /\ i \in 1..Len(log) /\ Len(log) \in Nat /\ w \in Entries /\ n \in 1..Latest /\ Latest \in Nat
         /\ log # <<>>
<1>1. DOMAIN log = 1..Len(log) /\ Len(log) \in Nat /\ i \in 1..Len(log) /\ w \in Entries /\ log # <<>>
  BY DEF Said, ViewTypeInv
<1>2. Ordered(log, i) \in Nat /\ Ordered(log, Len(log)) \in Nat
      /\ Ordered(log, i) <= Ordered(log, Len(log))
  BY <1>1, OrderedType, OrderedGrows
<1> QED
  BY <1>1, <1>2 DEF Said, Latest

\* Nothing was written.
LEMMA SaidSame ==
  ASSUME UNCHANGED log
  PROVE  /\ Latest' = Latest
         /\ \A i, w, n : Said(i, w, n)' <=> Said(i, w, n)
BY DEF Said, Latest

\* Something was written.
LEMMA SaidGrows ==
  ASSUME ViewTypeInv, NEW e \in Entries, log' = Append(log, e)
  PROVE  /\ Latest' = Latest + IF e.step = "ordering" THEN 1 ELSE 0
         /\ \A i, w, n : Said(i, w, n)' <=> \/ Said(i, w, n)
                                            \/ i = Len(log) + 1 /\ w = e /\ n = Latest'
         /\ Len(log') = Len(log) + 1 /\ Len(log) \in Nat /\ log' # <<>> /\ log'[Len(log')] = e
<1> DEFINE m == Len(log)
<1>1. /\ m \in Nat /\ Len(log') = m + 1 /\ DOMAIN log = 1..m /\ DOMAIN log' = 1..(m + 1)
      /\ \A i \in DOMAIN log : log'[i] = log[i]
      /\ log'[m + 1] = e /\ log' # <<>>
      /\ DOMAIN log' = DOMAIN log \cup {m + 1} /\ m + 1 \notin DOMAIN log
  BY LogGrows
<1>2. \A i \in 0..m : Ordered(log', i) = Ordered(log, i)
  <2>1. TAKE i \in 0..m
  <2>2. \A k \in 1..i : log'[k] = log[k]
    BY <1>1
  <2>3. i \in Nat
    BY <1>1
  <2> QED
    BY <2>2, <2>3, OrderedSame
<1>3. Ordered(log', m + 1) = Ordered(log', m) + IF log'[m + 1].step = "ordering" THEN 1 ELSE 0
  BY <1>1, OrderedNext
<1>4. Ordered(log, m) \in Nat
  BY <1>1, OrderedType
<1>5. Latest' = 1 + Ordered(log', m + 1)
  BY <1>1 DEF Latest
<1>6. Latest' = Latest + IF e.step = "ordering" THEN 1 ELSE 0
  <2>1. m \in 0..m
    BY <1>1
  <2>2. Ordered(log', m) = Ordered(log, m)
    BY <1>2, <2>1
  <2> QED
    BY <1>1, <1>3, <1>4, <1>5, <2>2 DEF Latest
<1>7. ASSUME NEW i, NEW w, NEW n
      PROVE  Said(i, w, n)' <=> Said(i, w, n) \/ (i = m + 1 /\ w = e /\ n = Latest')
  <2>1. CASE i \in DOMAIN log
    <3>1. i \in 0..m /\ i # m + 1
      BY <1>1, <2>1
    <3>2. Ordered(log', i) = Ordered(log, i)
      BY <1>2, <3>1
    <3> QED
      BY <1>1, <2>1, <3>1, <3>2 DEF Said
  <2>2. CASE i = m + 1
    BY <1>1, <1>5, <2>2 DEF Said
  <2>3. CASE i \notin DOMAIN log /\ i # m + 1
    BY <1>1, <2>3 DEF Said
  <2> QED
    BY <2>1, <2>2, <2>3
<1> QED
  BY <1>1, <1>6, <1>7


-----------------------------------------------------------------------------
(* What became of the money of order n, and of what was said of it.        *)

\* p was not charged for order n, and will not be.
Gone(n, p) ==
  /\ p \in Providers
  /\ IF busy = "response" THEN phase[<<n, p>>] = "forfeited" ELSE p \notin bills[n]

\* Nobody was, and nobody is asked any more.
Clear(n) == BillFor(n) = {} /\ (n = order => step = "stopped")

\* p was, and alone.
PaidTo(n, p) ==
  /\ BillFor(n) = {p}
  /\ busy = "response" => phase[<<n, p>>] = "charged"
  /\ n = order => step = "bought"

\* None of these is taken back.
Kept(n) ==
  /\ \A p \in Providers : Gone(n, p) => Gone(n, p)'
  /\ \A p \in Providers : PaidTo(n, p) => PaidTo(n, p)'
  /\ Clear(n) => Clear(n)'

Less(n) == BillFor(n)' \subseteq BillFor(n)

LEMMA BillType == ASSUME ViewTypeInv, NEW n \in Orders PROVE BillFor(n) \subseteq Providers
BY DEF ViewTypeInv, BillFor, BillOf, MayCharge

\* Another order, or nothing at all.
LEMMA KeptElsewhere ==
  ASSUME UNCHANGED <<busy, bills, phase>>, NEW n,
         n # order' \/ UNCHANGED <<order, step>>,
         \A p \in Providers : <<n, p>> \in sent' <=> <<n, p>> \in sent,
         \A p \in Providers : <<n, p>> \in answered' <=> <<n, p>> \in answered
  PROVE  Kept(n) /\ Less(n) /\ BillFor(n)' = BillFor(n)
<1>1. \A p \in Providers : Gone(n, p) => Gone(n, p)'
  BY DEF Gone
<1>2. BillFor(n)' = BillFor(n)
  BY DEF BillFor, BillOf, MayCharge
<1> QED
  BY <1>1, <1>2 DEF Kept, Less, PaidTo, Clear

LEMMA KeptServed ==
  ASSUME ViewTypeInv, GatewaysServe, NEW n \in Orders
  PROVE  Kept(n) /\ Less(n)
<1>1. /\ UNCHANGED <<order, step, sent, busy, answered, bills>>
      /\ phase' \in [Quotes -> Contract!Phases]
      /\ \A q \in Quotes : phase[q] \in {"forfeited", "lapsed", "charged"} => phase'[q] = phase[q]
  BY ServeDoes
<1>2. \A p \in Providers : <<n, p>> \in Quotes
  BY DEF Quotes
<1>3. \A p \in Providers : Gone(n, p) => Gone(n, p)'
  BY <1>1, <1>2 DEF Gone
<1>4. Less(n)
  BY <1>1, <1>2 DEF Less, BillFor, BillOf, MayCharge
<1>5. ASSUME NEW p \in Providers, PaidTo(n, p) PROVE PaidTo(n, p)'
  <2>1. p \in BillFor(n) => p \in BillFor(n)'
    BY <1>1, <1>2, <1>5 DEF PaidTo, BillFor, BillOf, MayCharge
  <2>2. BillFor(n)' = {p}
    BY <1>4, <1>5, <2>1 DEF PaidTo, Less
  <2> QED
    BY <1>1, <1>2, <1>5, <2>2 DEF PaidTo
<1>6. Clear(n) => Clear(n)'
  BY <1>1, <1>4 DEF Clear, Less
<1> QED
  BY <1>3, <1>4, <1>5, <1>6 DEF Kept

\* What an incident's orders have charged is noted when its turn is over.
LEMMA KeptTurn ==
  ASSUME ViewTypeInv, TurnInv, GiveTurn, NEW n \in Orders
  PROVE  Kept(n) /\ Less(n)
<1>1. /\ busy = "response" /\ busy' = "free" /\ order' = 0 /\ bills' = [m \in Orders |-> BillOf(m)]
  BY GiveTurnDoes
<1>2. n # 0 /\ n # order'
  BY <1>1, PurchaseAssumption DEF Orders
<1>3. BillFor(n) = BillOf(n) /\ BillFor(n)' = BillOf(n)
  BY <1>1 DEF BillFor
<1>4. \A p \in Providers : Gone(n, p) => Gone(n, p)'
  BY <1>1 DEF Gone, BillOf, MayCharge
<1> QED
  BY <1>1, <1>2, <1>3, <1>4 DEF Kept, Less, PaidTo, Clear

\* While it shops, nobody can be charged for an order.
LEMMA TryKept ==
  ASSUME ViewTypeInv, TurnInv, ShopInv, NEW p \in Providers, TryOffer(p), NEW n \in Orders
  PROVE  /\ Kept(n)
         /\ n # order => Less(n)
         /\ n = order /\ step' # "paying" => BillFor(n)' = {}
         /\ step' = "paying" => OnlyTry(p)'
<1>1. /\ step = "trying" /\ busy = "response" /\ order \in Orders
      /\ UNCHANGED <<phase, order, busy, answered, bills>> /\ offers' \subseteq offers
      /\ \/ step' \in {"trying", "stopped"} /\ sent' = sent
         \/ step' = "paying" /\ sent' = sent \cup {Quote(p)} /\ offers' = offers
  BY TryDoes
<1>2. step' = "paying" => OnlyTry(p)'
  BY <1>1 DEF ShopInv, OnlyTry, Quote
<1>3. CASE n # order
  <2>1. \A other \in Providers : <<n, other>> \in sent' <=> <<n, other>> \in sent
    BY <1>1, <1>3 DEF Quote
  <2>2. Kept(n) /\ Less(n)
    BY <1>1, <1>3, <2>1, KeptElsewhere
  <2> QED
    BY <1>2, <1>3, <2>2
<1>4. CASE n = order
  <2>1. \A q \in Providers : Gone(n, q) => Gone(n, q)'
    BY <1>1 DEF Gone
  <2>2. Kept(n)
    BY <1>1, <1>4, <2>1 DEF Kept, PaidTo, Clear
  <2>3. \A other \in Providers : <<n, other>> \in sent => phase[<<n, other>>] = "forfeited"
    BY <1>1, <1>4 DEF ShopInv, Quote
  <2>4. ASSUME step' # "paying" PROVE BillFor(n)' = {}
    <3>1. busy' = "response" /\ \A other \in Providers : <<n, other>> \in sent' => phase'[<<n, other>>] = "forfeited"
      BY <1>1, <2>3, <2>4
    <3> QED
      BY <3>1 DEF BillFor, BillOf, MayCharge
  <2> QED
    BY <1>2, <1>4, <2>2, <2>4
<1> QED
  BY <1>3, <1>4

\* Whoever was paid, nobody else can be.
LEMMA PayKept ==
  ASSUME ViewTypeInv, TurnInv, ShopInv, NEW p \in Providers, PayOffer(p), NEW n \in Orders
  PROVE  /\ Kept(n) /\ Less(n)
         /\ n = order /\ step' # "bought" =>
              BillFor(n)' = {} \/ (step' = "stopped" /\ DOMAIN pending' = {1} /\ pending'[1].step = "payment_failed")
         /\ n = order /\ step' = "bought" => PaidTo(n, p)'
         /\ n = order /\ phase[Quote(p)] = "forfeited" => Gone(n, p)'
<1>1. /\ step = "paying" /\ busy = "response" /\ order \in Orders
      /\ UNCHANGED <<phase, order, sent, busy, bills>> /\ OnlyTry(p)
      /\ \/ step' = "bought" /\ phase[Quote(p)] = "charged" /\ UNCHANGED answered
         \/ phase[Quote(p)] = "forfeited" /\ UNCHANGED answered /\ step' \in {"trying", "stopped"}
         \/ /\ step' = "stopped" /\ UNCHANGED answered
            /\ DOMAIN pending' = {1} /\ pending'[1].step = "payment_failed"
         \/ step' = "stopped" /\ answered' = answered \cup {Quote(p)}
  BY PayDoes
<1>2. CASE n # order
  <2>1. \A other \in Providers : <<n, other>> \in answered' <=> <<n, other>> \in answered
    BY <1>1, <1>2 DEF Quote
  <2>2. Kept(n) /\ Less(n)
    BY <1>1, <1>2, <2>1, KeptElsewhere
  <2> QED
    BY <1>2, <2>2
<1>3. CASE n = order
  <2>1. \A q \in Providers : Gone(n, q) => Gone(n, q)'
    BY <1>1 DEF Gone
  <2>2. Kept(n)
    BY <1>1, <1>3, <2>1 DEF Kept, PaidTo, Clear
  <2>3. answered \subseteq answered'
    BY <1>1
  <2>4. Less(n)
    BY <1>1, <2>3 DEF Less, BillFor, BillOf, MayCharge
  <2>5. \A other \in Providers \ {p} : <<n, other>> \in sent => phase[<<n, other>>] = "forfeited"
    BY <1>1, <1>3 DEF OnlyTry, Quote
  <2>6. \A other \in Providers \ {p} : other \notin BillFor(n)'
    BY <1>1, <2>5 DEF BillFor, BillOf, MayCharge
  <2>7. BillFor(n)' \subseteq Providers
    BY <1>1 DEF BillFor, BillOf, MayCharge
  <2>8. phase[Quote(p)] = "forfeited" \/ Quote(p) \in answered' => p \notin BillFor(n)'
    BY <1>1, <1>3 DEF BillFor, BillOf, MayCharge, Quote
  <2>9. ASSUME step' = "bought" PROVE PaidTo(n, p)'
    <3>1. phase[<<n, p>>] = "charged" /\ UNCHANGED answered /\ <<n, p>> \in sent
      BY <1>1, <1>3, <2>9 DEF Quote, OnlyTry
    <3>2. <<n, p>> \notin answered
      BY <1>1, <1>3 DEF ShopInv
    <3>3. p \in BillFor(n)'
      BY <1>1, <3>1, <3>2 DEF BillFor, BillOf, MayCharge
    <3>4. BillFor(n)' = {p}
      BY <2>6, <2>7, <3>3
    <3> QED
      BY <1>1, <2>9, <3>1, <3>4 DEF PaidTo
  <2>10. phase[Quote(p)] = "forfeited" => Gone(n, p)'
    BY <1>1, <1>3 DEF Gone, Quote
  <2>11. ASSUME step' # "bought"
         PROVE  BillFor(n)' = {} \/ (step' = "stopped" /\ DOMAIN pending' = {1} /\ pending'[1].step = "payment_failed")
    <3>1. CASE phase[Quote(p)] = "forfeited" \/ Quote(p) \in answered'
      BY <2>6, <2>7, <2>8, <3>1
    <3> QED
      BY <1>1, <2>11, <3>1
  <2> QED
    BY <1>3, <2>2, <2>4, <2>9, <2>10, <2>11
<1> QED
  BY <1>2, <1>3


-----------------------------------------------------------------------------
(* What steps there are, to what is written and to money.                  *)

\* That an agent still shops; and all that says how a purchase goes.
Shopping == {"briefed", "discovered", "quote", "authorization", "selected"}
Telling == Endings \cup Shopping

\* Nothing is written of the incident yet.
Renewed ==
  /\ log' = <<>> /\ pending' = <<>> /\ order' = 0 /\ step' = "none"
  /\ result' # "blocked" /\ status' # "blocked"

\* Nothing is written, and nothing is said of a purchase.
Still ==
  /\ UNCHANGED log
  /\ \/ UNCHANGED <<order, step, pending>>
     \/ /\ UNCHANGED <<order, step>> /\ Drained /\ step # "paying"
        /\ \A i \in DOMAIN pending' : pending'[i].step \notin Telling \cup {"ordering"}
     \/ order' = 0 /\ step' = "none" /\ Drained /\ pending' = <<>>
  /\ \A n \in Orders : Kept(n) /\ Less(n)
  /\ order' = order => \A p \in Providers : OnlyTry(p) => OnlyTry(p)'
  /\ result' = "blocked" \/ status' = "blocked" =>
       result = "blocked" \/ status = "blocked" \/ (step = "stopped" /\ Drained /\ order # 0)

\* The next order, nothing of which is said before it is.
Reordered ==
  /\ order' = order + 1 /\ order' \in Orders /\ Drained /\ UNCHANGED log
  /\ order = 0 => log = <<>>
  /\ step' \in {"trying", "stopped"} /\ result' # "blocked" /\ status' # "blocked"
  /\ \A n \in Orders : /\ n # order' => Kept(n) /\ Less(n)
                       /\ n = order' => BillFor(n)' = {}
  /\ \A i \in DOMAIN pending' :
       /\ pending'[i].step = "ordering" =>
            /\ pending'[i].stage = "fix"
            /\ \A j \in DOMAIN pending' : j < i => pending'[j].step \notin Telling
            /\ \A j \in DOMAIN pending' : pending'[j].step = "ordering" => j = i
       /\ pending'[i].step \in Telling =>
            pending'[i].stage = IF order' = 1 THEN "diagnose" ELSE "fix"
       /\ pending'[i].step \in Reasons => step' = "stopped"
       /\ pending'[i].step \notin {"settled", "selected", "payment_failed", "service_failed", "none_left"}
  /\ Due("ordering")' <=> order # 0

\* Any of these, or a step of a purchase, or of the log.
Shapes ==
  \/ Renewed \/ Still \/ Reordered \/ Write
  \/ \E p \in Providers : TryOffer(p) \/ PayOffer(p)

LEMMA StillSame ==
  ASSUME UNCHANGED <<log, phase, sent, busy, answered, bills, order, step, offers>>,
         \/ UNCHANGED pending
         \/ /\ Drained /\ step # "paying"
            /\ \A i \in DOMAIN pending' : pending'[i].step \notin Telling \cup {"ordering"},
         result' = "blocked" \/ status' = "blocked" =>
           result = "blocked" \/ status = "blocked" \/ (step = "stopped" /\ Drained /\ order # 0)
  PROVE  Still
<1>1. \A n \in Orders : Kept(n) /\ Less(n)
  BY KeptElsewhere
<1>2. \A p \in Providers : OnlyTry(p) => OnlyTry(p)'
  BY DEF OnlyTry, Quote
<1> QED
  BY <1>1, <1>2 DEF Still

LEMMA OrderedMoney ==
  ASSUME ViewTypeInv, ShopInv, busy = "response", UNCHANGED <<busy, phase, sent, answered, bills>>,
         order' = order + 1, NEW n \in Orders
  PROVE  /\ n # order' => Kept(n) /\ Less(n)
         /\ n = order' => BillFor(n)' = {}
<1>1. order \in Nat /\ n \in Nat
  BY PurchaseAssumption DEF ViewTypeInv, PurchaseTypes, PurchaseTypeOK, Orders
<1>2. n # order' => Kept(n) /\ Less(n)
  BY KeptElsewhere
<1>3. ASSUME n = order' PROVE BillFor(n)' = {}
  <2>1. \A p \in Providers : <<n, p>> \notin sent
    BY <1>1, <1>3 DEF ShopInv
  <2> QED
    BY <2>1 DEF BillFor, BillOf, MayCharge
<1> QED
  BY <1>2, <1>3

LEMMA StepIs ==
  ASSUME LanesInv, [ViewNext]_viewVars
  PROVE  Shapes
<1>1. ViewTypeInv /\ TurnInv /\ ShopInv /\ LaneInv
  BY DEF LanesInv
<1>2. status = "blocked" => closed /\ course = "none" /\ busy = "free" /\ order = 0 /\ step = "none"
  BY <1>1 DEF TurnInv, LaneInv
<1>3. CASE OpenIncident
  <2>1. /\ UNCHANGED <<purchaseVars, responseVars, pending>> /\ trigger = "none" /\ log' = <<>>
        /\ status' = "diagnosing"
    BY <1>3 DEF OpenIncident, OpenAlone, OpenAsked, Open
  <2>2. order = 0 /\ step = "none" /\ pending = <<>> /\ result # "blocked"
    BY <1>1, <2>1 DEF TurnInv, Drained
  <2> QED
    BY <2>1, <2>2 DEF Shapes, Renewed, purchaseVars, orderVars, responseVars
<1>4. CASE TakeTurn
  <2>1. /\ course = "diagnosing" /\ busy = "free"
        /\ UNCHANGED <<purchaseVars, responseVars, pending, incidentVars>>
    BY <1>4 DEF TakeTurn
  <2>2. /\ order = 0 /\ step = "none" /\ pending = <<>> /\ log = <<>> /\ result # "blocked"
        /\ status # "blocked"
    BY <1>1, <1>2, <2>1 DEF TurnInv, Drained
  <2> QED
    BY <2>1, <2>2 DEF Shapes, Renewed, purchaseVars, orderVars, responseVars, incidentVars
<1>5. CASE Diagnose
  <2>1. /\ course = "diagnosing" /\ busy = "response" /\ order = 0
        /\ UNCHANGED <<busy, incidentVars, bills, phase, sent, answered>>
        /\ \/ /\ order' = 1 /\ 1 \in Orders /\ UNCHANGED result
              /\ step' \in {"trying", "stopped"}
              /\ \A i \in DOMAIN pending' :
                   \/ pending'[i] = Status("diagnosing")
                   \/ /\ pending'[i].stage = "diagnose"
                      /\ pending'[i].step \in OpeningKinds \cup {"briefed"}
                      /\ pending'[i].step \in {"no_provider", "over_budget"} => step' = "stopped"
           \/ result' = "failed" /\ UNCHANGED <<orderVars, pending>>
    BY <1>1, <1>5, DiagnoseDoes
  <2>2. step = "none" /\ Drained /\ log = <<>> /\ result # "blocked" /\ status # "blocked"
    BY <1>1, <1>2, <2>1 DEF TurnInv
  <2>3. CASE result' = "failed" /\ UNCHANGED <<orderVars, pending>>
    BY <2>1, <2>2, <2>3 DEF Shapes, Renewed, Drained, orderVars, incidentVars
  <2>4. CASE /\ order' = 1 /\ 1 \in Orders /\ UNCHANGED result
             /\ step' \in {"trying", "stopped"}
             /\ \A i \in DOMAIN pending' :
                  \/ pending'[i] = Status("diagnosing")
                  \/ /\ pending'[i].stage = "diagnose"
                     /\ pending'[i].step \in OpeningKinds \cup {"briefed"}
                     /\ pending'[i].step \in {"no_provider", "over_budget"} => step' = "stopped"
    <3>1. \A n \in Orders : /\ n # order' => Kept(n) /\ Less(n)
                            /\ n = order' => BillFor(n)' = {}
      BY <1>1, <2>1, <2>4, OrderedMoney
    <3>2. \A i \in DOMAIN pending' :
            /\ pending'[i].step # "ordering"
            /\ pending'[i].step \in Telling => pending'[i].stage = "diagnose"
            /\ pending'[i].step \in Reasons => step' = "stopped"
            /\ pending'[i].step \notin {"settled", "selected", "payment_failed", "service_failed", "none_left"}
      BY <2>4 DEF Status, Step, OpeningKinds, Telling, Endings, Reasons, Shopping
    <3>3. ~Due("ordering")'
      BY <3>2 DEF Due
    <3>4. Reordered
      BY <2>1, <2>2, <2>4, <3>1, <3>2, <3>3 DEF Reordered, incidentVars
    <3> QED
      BY <3>4 DEF Shapes
  <2> QED
    BY <2>1, <2>3, <2>4
<1>6. ASSUME NEW n \in 0..MaxActions, Plan(n) PROVE Shapes
  <2>1. /\ course = "diagnosing" /\ order = 1 /\ busy = "response" /\ Drained /\ Ended /\ result = "none"
        /\ UNCHANGED <<busy, incidentVars, bills, phase, sent, answered>>
        /\ 1 \in DOMAIN pending' /\ pending'[1] = Step("diagnose", "diagnosis", NoOne)
        /\ \/ /\ order' = 2 /\ 2 \in Orders /\ UNCHANGED result /\ step' \in {"trying", "stopped"}
              /\ 3 \in DOMAIN pending' /\ pending'[3] = Step("fix", "ordering", NoOne)
              /\ pending'[2] = Status("fixing")
              /\ \A i \in DOMAIN pending' \ {1, 2, 3} :
                   /\ pending'[i].stage = "fix"
                   /\ pending'[i].step \in OpeningKinds
                   /\ pending'[i].step \in {"no_provider", "over_budget"} => step' = "stopped"
           \/ result' = "failed" /\ DOMAIN pending' = {1} /\ UNCHANGED orderVars
    BY <1>1, <1>6, PlanDoes
  <2>2. status # "blocked"
    BY <1>2, <2>1
  <2>3. CASE result' = "failed" /\ DOMAIN pending' = {1} /\ UNCHANGED orderVars
    <3>1. \A i \in DOMAIN pending' : pending'[i].step \notin Telling \cup {"ordering"}
      BY <2>1, <2>3 DEF Step, Telling, Endings, Reasons, Shopping
    <3>2. Still
      BY <2>1, <2>2, <2>3, <3>1, StillSame DEF orderVars, incidentVars, Ended
    <3> QED
      BY <3>2 DEF Shapes
  <2>4. CASE /\ order' = 2 /\ 2 \in Orders /\ UNCHANGED result /\ step' \in {"trying", "stopped"}
             /\ 3 \in DOMAIN pending' /\ pending'[3] = Step("fix", "ordering", NoOne)
             /\ pending'[2] = Status("fixing")
             /\ \A i \in DOMAIN pending' \ {1, 2, 3} :
                  /\ pending'[i].stage = "fix"
                  /\ pending'[i].step \in OpeningKinds
                  /\ pending'[i].step \in {"no_provider", "over_budget"} => step' = "stopped"
    <3>1. \A m \in Orders : /\ m # order' => Kept(m) /\ Less(m)
                            /\ m = order' => BillFor(m)' = {}
      BY <1>1, <2>1, <2>4, OrderedMoney
    <3>2. /\ pending'[1].step = "diagnosis" /\ pending'[2].step = "fixing"
          /\ pending'[3].step = "ordering" /\ pending'[3].stage = "fix"
      BY <2>1, <2>4 DEF Step, Status
    <3>3. \A i \in DOMAIN pending' :
            /\ pending'[i].step = "ordering" => i = 3
            /\ pending'[i].step \in Telling => pending'[i].stage = "fix" /\ i \notin {1, 2, 3}
            /\ pending'[i].step \in Reasons => step' = "stopped"
            /\ pending'[i].step \notin {"settled", "selected", "payment_failed", "service_failed", "none_left"}
      BY <2>4, <3>2 DEF OpeningKinds, Telling, Endings, Reasons, Shopping
    <3>4. \A j \in DOMAIN pending' : j < 3 => j \in {1, 2}
      <4>1. DOMAIN pending' \subseteq Nat \ {0}
        BY <1>1, <1>6, PlanDoes
      <4> QED
        BY <4>1
    <3>5. Due("ordering")'
      BY <2>4, <3>2 DEF Due
    <3>6. order' = order + 1 /\ order # 0 /\ order' # 1
      BY <2>1, <2>4
    <3>7. Reordered
      BY <2>1, <2>2, <2>4, <3>1, <3>2, <3>3, <3>4, <3>5, <3>6 DEF Reordered, incidentVars
    <3> QED
      BY <3>7 DEF Shapes
  <2> QED
    BY <2>1, <2>3, <2>4
<1>7. CASE Repaired
  <2>1. /\ course = "fixing" /\ step = "bought" /\ order >= 2 /\ order \in Orders /\ busy = "response"
        /\ Drained /\ result = "none"
        /\ UNCHANGED <<busy, result, incidentVars, bills, phase, sent, answered>>
        /\ 1 \in DOMAIN pending' /\ pending'[1] = Step("fix", "repaired", NoOne) /\ 2 \in DOMAIN pending'
        /\ \/ /\ DOMAIN pending' = {1, 2} /\ pending'[2] = Status("verifying") /\ UNCHANGED orderVars
           \/ /\ order' = order + 1 /\ order' \in Orders /\ step' \in {"trying", "stopped"}
              /\ pending'[2] = Step("fix", "ordering", NoOne)
              /\ \A i \in DOMAIN pending' \ {1, 2} :
                   /\ pending'[i].stage = "fix"
                   /\ pending'[i].step \in OpeningKinds
                   /\ pending'[i].step \in {"no_provider", "over_budget"} => step' = "stopped"
    BY <1>1, <1>7, RepairedDoes
  <2>2. status # "blocked"
    BY <1>2, <2>1
  <2>3. CASE DOMAIN pending' = {1, 2} /\ pending'[2] = Status("verifying") /\ UNCHANGED orderVars
    <3>1. \A i \in DOMAIN pending' : pending'[i].step \notin Telling \cup {"ordering"}
      BY <2>1, <2>3 DEF Step, Status, Telling, Endings, Reasons, Shopping
    <3>2. Still
      BY <2>1, <2>2, <2>3, <3>1, StillSame DEF orderVars, incidentVars
    <3> QED
      BY <3>2 DEF Shapes
  <2>4. CASE /\ order' = order + 1 /\ order' \in Orders /\ step' \in {"trying", "stopped"}
             /\ pending'[2] = Step("fix", "ordering", NoOne)
             /\ \A i \in DOMAIN pending' \ {1, 2} :
                  /\ pending'[i].stage = "fix"
                  /\ pending'[i].step \in OpeningKinds
                  /\ pending'[i].step \in {"no_provider", "over_budget"} => step' = "stopped"
    <3>1. \A m \in Orders : /\ m # order' => Kept(m) /\ Less(m)
                            /\ m = order' => BillFor(m)' = {}
      BY <1>1, <2>1, <2>4, OrderedMoney
    <3>2. /\ pending'[1].step = "repaired"
          /\ pending'[2].step = "ordering" /\ pending'[2].stage = "fix"
      BY <2>1, <2>4 DEF Step
    <3>3. \A i \in DOMAIN pending' :
            /\ pending'[i].step = "ordering" => i = 2
            /\ pending'[i].step \in Telling => pending'[i].stage = "fix" /\ i \notin {1, 2}
            /\ pending'[i].step \in Reasons => step' = "stopped"
            /\ pending'[i].step \notin {"settled", "selected", "payment_failed", "service_failed", "none_left"}
      BY <2>4, <3>2 DEF OpeningKinds, Telling, Endings, Reasons, Shopping
    <3>4. \A j \in DOMAIN pending' : j < 2 => j = 1
      <4>1. DOMAIN pending' \subseteq Nat \ {0}
        BY <1>1, <1>7, RepairedDoes
      <4> QED
        BY <4>1
    <3>5. Due("ordering")'
      BY <2>1, <3>2 DEF Due
    <3>6. order # 0 /\ order' # 1
      <4>1. order \in Nat
        BY <2>1, PurchaseAssumption DEF Orders
      <4> QED
        BY <2>1, <2>4, <4>1
    <3>7. Reordered
      BY <2>1, <2>2, <2>4, <3>1, <3>2, <3>3, <3>4, <3>5, <3>6 DEF Reordered, incidentVars
    <3> QED
      BY <3>7 DEF Shapes
  <2> QED
    BY <2>1, <2>3, <2>4
<1>8. CASE CheckOrSwitch
  <2>1. UNCHANGED <<purchaseVars, lockVars, taskVars, responseVars, pending, incidentVars, bills>>
    BY <1>8 DEF CheckOrSwitch
  <2>2. Still
    BY <2>1, StillSame DEF purchaseVars, orderVars, lockVars, taskVars, responseVars, incidentVars
  <2> QED
    BY <2>2 DEF Shapes
<1>9. CASE Blocked
  <2>1. /\ step = "stopped" /\ Drained
        /\ UNCHANGED <<purchaseVars, lockVars, taskVars, pending, incidentVars, bills>>
    BY <1>9 DEF Blocked
  <2>2. order # 0
    BY <1>1, <2>1 DEF TurnInv
  <2>3. Still
    BY <2>1, <2>2, StillSame DEF purchaseVars, orderVars, lockVars, taskVars, incidentVars
  <2> QED
    BY <2>3 DEF Shapes
<1>10. CASE Verify
  <2>1. /\ course = "verifying" /\ Drained /\ result' # "blocked"
        /\ UNCHANGED <<purchaseVars, lockVars, taskVars, incidentVars, bills>>
        /\ \/ pending' = <<Step("verify", "recovered", NoOne)>>
           \/ pending' = <<>>
           \/ pending' = <<Step("verify", "still_failing", NoOne)>>
    BY <1>10 DEF Verify, Return
  <2>2. \A i \in DOMAIN pending' : pending'[i].step \in {"recovered", "still_failing"}
    BY <2>1 DEF Step
  <2>3. \A i \in DOMAIN pending' : pending'[i].step \notin Telling \cup {"ordering"}
    BY <2>2 DEF Telling, Endings, Reasons, Shopping
  <2>4. step = "bought"
    BY <1>1, <2>1 DEF TurnInv
  <2>5. Still
    BY <2>1, <2>3, <2>4, StillSame DEF purchaseVars, orderVars, lockVars, taskVars, incidentVars
  <2> QED
    BY <2>5 DEF Shapes
<1>11. CASE GiveTurn
  <2>1. /\ Drained /\ order' = 0 /\ step' = "none" /\ busy = "response"
        /\ UNCHANGED <<deskVars, responseVars, pending, incidentVars>>
    BY <1>1, <1>11, GiveTurnDoes
  <2>2. \A n \in Orders : Kept(n) /\ Less(n)
    BY <1>1, <1>11, KeptTurn
  <2>3. result # "none" /\ order' = order => \A p \in Providers : ~OnlyTry(p)
    BY <1>1, <2>1 DEF TurnInv, OnlyTry
  <2>4. result # "none"
    BY <1>1, <1>11, GiveTurnDoes
  <2>5. Still
    BY <2>1, <2>2, <2>3, <2>4 DEF Still, Drained, responseVars, incidentVars
  <2> QED
    BY <2>5 DEF Shapes
<1>12. CASE CloseIncident
  <2>1. /\ UNCHANGED <<purchaseVars, lockVars, taskVars, pending, log, bills>>
        /\ status' = result /\ result' = "none"
    BY <1>12 DEF CloseIncident
  <2>2. Still
    BY <2>1, StillSame DEF purchaseVars, orderVars, lockVars, taskVars
  <2> QED
    BY <2>2 DEF Shapes
<1>13. CASE GatewaysServe
  <2>1. /\ UNCHANGED <<order, step, offers, sent, pending, responseVars, incidentVars>>
        /\ \A q \in Quotes : phase[q] \in {"forfeited", "lapsed", "charged"} => phase'[q] = phase[q]
    BY <1>1, <1>13, ServeDoes
  <2>2. \A n \in Orders : Kept(n) /\ Less(n)
    BY <1>1, <1>13, KeptServed
  <2>3. sent \subseteq Quotes
    BY <1>1 DEF ViewTypeInv, PurchaseTypes, PurchaseTypeOK
  <2>4. \A p \in Providers : OnlyTry(p) => OnlyTry(p)'
    BY <2>1, <2>3 DEF OnlyTry, Quote
  <2>5. Still
    BY <2>1, <2>2, <2>4 DEF Still, responseVars, incidentVars
  <2> QED
    BY <2>5 DEF Shapes
<1>14. CASE UNCHANGED viewVars
  <2>1. Still
    BY <1>14, StillSame DEF viewVars, purchaseVars, orderVars, lockVars, taskVars, responseVars,
       incidentVars
  <2> QED
    BY <2>1 DEF Shapes
<1>15. CASE Write \/ \E p \in Providers : TryOffer(p) \/ PayOffer(p)
  BY <1>15 DEF Shapes
<1> QED
  BY <1>3, <1>4, <1>5, <1>6, <1>7, <1>8, <1>9, <1>10, <1>11, <1>12, <1>13, <1>14, <1>15 DEF ViewNext


-----------------------------------------------------------------------------
(* The steps of the latest order are the last that were written.           *)

CountInv ==
  /\ Latest \in Orders
  /\ order # 0 => Latest = IF Due("ordering") THEN order - 1 ELSE order
  /\ \A i \in DOMAIN pending : pending[i].step = "ordering" =>
       /\ pending[i].stage = "fix"
       /\ \A j \in DOMAIN pending : j < i => pending[j].step \notin Telling
       /\ \A j \in DOMAIN pending : pending[j].step = "ordering" => j = i
  /\ \A i \in DOMAIN pending : pending[i].step \in Telling =>
       pending[i].stage = IF order = 1 THEN "diagnose" ELSE "fix"
  /\ \A i, w, n : Said(i, w, n) /\ w.step \in Telling =>
       w.stage = IF n = 1 THEN "diagnose" ELSE "fix"

LEMMA LatestAt ==
  ASSUME LanesInv, CountInv
  PROVE  /\ Latest \in Nat /\ order \in Nat
         /\ order # 0 => Latest <= order
         /\ Drained /\ order # 0 => Latest = order
         /\ ~Drained => order # 0
         /\ \A i, w, n : Said(i, w, n) => n \in Orders /\ n <= Latest /\ w \in Entries
<1>1. Latest \in Nat /\ order \in Nat
  BY PurchaseAssumption DEF LanesInv, ViewTypeInv, PurchaseTypes, PurchaseTypeOK, Orders, CountInv
<1>2. order # 0 => Latest <= order
  BY <1>1 DEF CountInv
<1>3. Drained /\ order # 0 => Latest = order
  BY DEF CountInv, Drained, Due
<1>4. ~Drained => order # 0
  BY DEF LanesInv, TurnInv
<1>5. \A i, w, n : Said(i, w, n) => n \in 1..Latest /\ w \in Entries
  BY SaidType DEF LanesInv
<1>6. \A n \in 1..Latest : n \in Orders /\ n <= Latest
  BY <1>1, PurchaseAssumption DEF CountInv, Orders
<1> QED
  BY <1>1, <1>2, <1>3, <1>4, <1>5, <1>6

\* What is written of a purchase is about the order under way.
LEMMA WriteAt ==
  ASSUME LanesInv, CountInv, Write
  PROVE  /\ order # 0 /\ 1 \in DOMAIN pending /\ pending[1] \in Entries
         /\ pending[1].step \in Telling => ~Due("ordering") /\ Latest = order /\ pending[1].stage # "status"
         /\ \/ /\ pending[1].stage = "status" /\ UNCHANGED log /\ Latest' = Latest
               /\ \A i, w, n : Said(i, w, n)' <=> Said(i, w, n)
            \/ /\ pending[1].stage # "status"
               /\ Latest' = Latest + IF pending[1].step = "ordering" THEN 1 ELSE 0
               /\ \A i, w, n : Said(i, w, n)' <=> \/ Said(i, w, n)
                                                  \/ i = Len(log) + 1 /\ w = pending[1] /\ n = Latest'
               /\ Len(log') = Len(log) + 1 /\ Len(log) \in Nat /\ log' # <<>>
               /\ log'[Len(log')] = pending[1]
         /\ pending[1].step \in Telling => Latest' = order
<1>1. /\ ~Drained /\ 1 \in DOMAIN pending /\ pending[1] \in Entries
      /\ \/ pending[1].stage = "status" /\ UNCHANGED log
         \/ pending[1].stage # "status" /\ log' = Append(log, pending[1])
  BY WriteDoes DEF LanesInv
<1>2. order # 0
  BY <1>1, LatestAt
<1>3. ASSUME pending[1].step \in Telling
      PROVE  ~Due("ordering") /\ Latest = order /\ pending[1].stage # "status"
  <2>1. DOMAIN pending \subseteq Nat \ {0}
    BY DEF LanesInv, ViewTypeInv
  <2>2. "ordering" \notin Telling
    BY DEF Telling, Endings, Reasons, Shopping
  <2>3. \A i \in DOMAIN pending : pending[i].step = "ordering" => i # 1 /\ 1 < i
    BY <1>3, <2>1, <2>2
  <2>4. ~Due("ordering")
    BY <1>1, <1>3, <2>3 DEF CountInv, Due
  <2>5. pending[1].stage # "status"
    BY <1>1, <1>3 DEF CountInv
  <2> QED
    BY <1>2, <2>4, <2>5 DEF CountInv
<1>4. CASE pending[1].stage = "status" /\ UNCHANGED log
  BY <1>1, <1>2, <1>3, <1>4, SaidSame
<1>5. CASE pending[1].stage # "status" /\ log' = Append(log, pending[1])
  <2>1. /\ Latest' = Latest + IF pending[1].step = "ordering" THEN 1 ELSE 0
        /\ \A i, w, n : Said(i, w, n)' <=> \/ Said(i, w, n)
                                           \/ i = Len(log) + 1 /\ w = pending[1] /\ n = Latest'
        /\ Len(log') = Len(log) + 1 /\ Len(log) \in Nat /\ log' # <<>>
        /\ log'[Len(log')] = pending[1]
    BY <1>1, <1>5, SaidGrows DEF LanesInv
  <2>2. pending[1].step \in Telling => Latest' = order
    <3>1. Latest \in Nat /\ "ordering" \notin Telling
      BY LatestAt DEF Telling, Endings, Reasons, Shopping
    <3> QED
      BY <1>3, <2>1, <3>1
  <2> QED
    BY <1>1, <1>2, <1>3, <1>5, <2>1, <2>2
<1> QED
  BY <1>1, <1>4, <1>5

\* What an offer or a payment comes to is said of its order.
LEMMA CountBought ==
  ASSUME LanesInv, CountInv, Drained, UNCHANGED <<log, order>>,
         \A i \in DOMAIN pending' : pending'[i].stage = Here /\ pending'[i].step # "ordering"
  PROVE  CountInv'
<1>1. Latest' = Latest /\ \A i, w, n : Said(i, w, n)' <=> Said(i, w, n)
  BY SaidSame
<1>2. ~Due("ordering")' /\ ~Due("ordering")
  BY DEF Due, Drained
<1> QED
  BY <1>1, <1>2 DEF CountInv, Here

LEMMA CountStep ==
  ASSUME LanesInv, LanesInv', CountInv, [ViewNext]_viewVars
  PROVE  CountInv'
<1>1. Shapes
  BY StepIs
<1>2. /\ Latest \in Nat /\ order \in Nat
      /\ order # 0 => Latest <= order
      /\ Drained /\ order # 0 => Latest = order
  BY LatestAt
<1>3. CASE Renewed
  <2>1. log' = <<>> /\ pending' = <<>> /\ order' = 0
    BY <1>3 DEF Renewed
  <2>2. Latest' = 1
    <3>1. Len(log') = 0
      BY <2>1
    <3> QED
      BY <3>1, OrderedNone DEF Latest
  <2>3. 1 \in Orders
    BY PurchaseAssumption DEF Orders
  <2>4. \A i, w, n : ~Said(i, w, n)'
    BY <2>1 DEF Said
  <2> QED
    BY <2>1, <2>2, <2>3, <2>4 DEF CountInv
<1>4. CASE Still
  <2>1. Latest' = Latest /\ \A i, w, n : Said(i, w, n)' <=> Said(i, w, n)
    BY <1>4, SaidSame DEF Still
  <2>2. CASE UNCHANGED <<order, step, pending>>
    BY <2>1, <2>2 DEF CountInv, Due
  <2>3. CASE /\ UNCHANGED <<order, step>> /\ Drained
             /\ \A i \in DOMAIN pending' : pending'[i].step \notin Telling \cup {"ordering"}
    <3>1. ~Due("ordering")' /\ ~Due("ordering")
      BY <2>3 DEF Due, Drained
    <3> QED
      BY <2>1, <2>3, <3>1 DEF CountInv
  <2>4. CASE order' = 0 /\ step' = "none" /\ pending' = <<>>
    BY <2>1, <2>4 DEF CountInv
  <2> QED
    BY <1>4, <2>2, <2>3, <2>4 DEF Still
<1>5. CASE Reordered
  <2>1. Latest' = Latest /\ \A i, w, n : Said(i, w, n)' <=> Said(i, w, n)
    BY <1>5, SaidSame DEF Reordered
  <2>2. Latest' = IF Due("ordering")' THEN order' - 1 ELSE order'
    <3>1. CASE order = 0
      <4>1. log = <<>> /\ ~Due("ordering")' /\ order' = 1
        BY <1>5, <3>1 DEF Reordered
      <4>2. Len(log) = 0
        BY <4>1
      <4>3. Latest = 1
        BY <4>2, OrderedNone DEF Latest
      <4> QED
        BY <2>1, <4>1, <4>3
    <3>2. CASE order # 0
      BY <1>2, <1>5, <2>1, <3>2 DEF Reordered
    <3> QED
      BY <3>1, <3>2
  <2> QED
    BY <1>5, <2>1, <2>2 DEF CountInv, Reordered
<1>6. ASSUME NEW p \in Providers, TryOffer(p) PROVE CountInv'
  <2>1. /\ Drained /\ UNCHANGED <<order, incidentVars>>
        /\ \A i \in DOMAIN pending' : pending'[i].stage = Here /\ pending'[i].step \in TryKinds
    BY <1>6, TryDoes DEF LanesInv
  <2>2. "ordering" \notin TryKinds
    BY DEF TryKinds
  <2> QED
    BY <2>1, <2>2, CountBought DEF incidentVars
<1>7. ASSUME NEW p \in Providers, PayOffer(p) PROVE CountInv'
  <2>1. /\ Drained /\ UNCHANGED <<order, incidentVars>>
        /\ \A i \in DOMAIN pending' : pending'[i].stage = Here
        /\ \/ \A i \in DOMAIN pending' : pending'[i].step \in {"settled", "result"}
           \/ DOMAIN pending' = {1} /\ pending'[1].step \in {"service_failed", "none_left"}
           \/ DOMAIN pending' = {1} /\ pending'[1].step \in {"payment_failed", "refused"}
    BY <1>7, PayDoes DEF LanesInv
  <2>2. \A i \in DOMAIN pending' : pending'[i].step # "ordering"
    BY <2>1
  <2> QED
    BY <2>1, <2>2, CountBought DEF incidentVars
<1>8. CASE Write
  <2>1. /\ UNCHANGED purchaseVars
        /\ 1 \in DOMAIN pending
        /\ \A i \in DOMAIN pending' : i + 1 \in DOMAIN pending /\ pending'[i] = pending[i + 1]
        /\ \A i \in DOMAIN pending : i # 1 => i - 1 \in DOMAIN pending' /\ pending'[i - 1] = pending[i]
        /\ DOMAIN pending' \subseteq Nat
    BY <1>8, WriteDoes DEF LanesInv
  <2>2. UNCHANGED order
    BY <2>1 DEF purchaseVars, orderVars
  <2>3. /\ order # 0
        /\ pending[1].step \in Telling => ~Due("ordering") /\ Latest = order
        /\ \/ /\ pending[1].stage = "status" /\ Latest' = Latest
              /\ \A i, w, n : Said(i, w, n)' <=> Said(i, w, n)
           \/ /\ pending[1].stage # "status"
              /\ Latest' = Latest + IF pending[1].step = "ordering" THEN 1 ELSE 0
              /\ \A i, w, n : Said(i, w, n)' <=> \/ Said(i, w, n)
                                                 \/ i = Len(log) + 1 /\ w = pending[1] /\ n = Latest'
        /\ pending[1].step \in Telling => Latest' = order
    BY <1>8, WriteAt
  <2>4. \A i \in DOMAIN pending' : pending'[i].step = "ordering" =>
          /\ pending'[i].stage = "fix"
          /\ \A j \in DOMAIN pending' : j < i => pending'[j].step \notin Telling
          /\ \A j \in DOMAIN pending' : pending'[j].step = "ordering" => j = i
    <3>1. SUFFICES ASSUME NEW i \in DOMAIN pending', pending'[i].step = "ordering"
                   PROVE  /\ pending'[i].stage = "fix"
                          /\ \A j \in DOMAIN pending' : j < i => pending'[j].step \notin Telling
                          /\ \A j \in DOMAIN pending' : pending'[j].step = "ordering" => j = i
      OBVIOUS
    <3>2. /\ i + 1 \in DOMAIN pending /\ pending[i + 1].step = "ordering" /\ pending'[i] = pending[i + 1]
          /\ i \in Nat
      BY <2>1, <3>1
    <3>3. /\ pending[i + 1].stage = "fix"
          /\ \A j \in DOMAIN pending : j < i + 1 => pending[j].step \notin Telling
          /\ \A j \in DOMAIN pending : pending[j].step = "ordering" => j = i + 1
      BY <3>2 DEF CountInv
    <3>4. \A j \in DOMAIN pending' : j \in Nat /\ j + 1 \in DOMAIN pending /\ pending'[j] = pending[j + 1]
      BY <2>1
    <3> QED
      BY <3>2, <3>3, <3>4
  <2>5. \A i \in DOMAIN pending' : pending'[i].step \in Telling =>
          pending'[i].stage = IF order' = 1 THEN "diagnose" ELSE "fix"
    BY <2>1, <2>2 DEF CountInv
  <2>6. CASE pending[1].step = "ordering"
    <3>1. Due("ordering") /\ pending[1].stage = "fix"
      BY <2>1, <2>6 DEF Due, CountInv
    <3>2. Latest' = order
      BY <1>2, <2>3, <2>6, <3>1 DEF CountInv
    <3>3. ~Due("ordering")'
      <4>1. ASSUME NEW i \in DOMAIN pending', pending'[i].step = "ordering" PROVE FALSE
        <5>1. i + 1 \in DOMAIN pending /\ pending[i + 1].step = "ordering" /\ i \in Nat
          BY <2>1, <4>1
        <5>2. i + 1 = 1
          BY <2>1, <2>6, <5>1 DEF CountInv
        <5>3. 0 \notin DOMAIN pending'
          BY DEF LanesInv, ViewTypeInv
        <5> QED
          BY <4>1, <5>1, <5>2, <5>3
      <4> QED
        BY <4>1 DEF Due
    <3>4. order \in Orders
      BY <2>3 DEF LanesInv, ViewTypeInv, PurchaseTypes, PurchaseTypeOK
    <3>5. "ordering" \notin Telling
      BY DEF Telling, Endings, Reasons, Shopping
    <3>6. \A i, w, n : Said(i, w, n)' /\ w.step \in Telling =>
            w.stage = IF n = 1 THEN "diagnose" ELSE "fix"
      BY <2>3, <2>6, <3>5 DEF CountInv
    <3> QED
      BY <2>2, <2>4, <2>5, <3>2, <3>3, <3>4, <3>6 DEF CountInv
  <2>7. CASE pending[1].step # "ordering"
    <3>1. Latest' = Latest
      BY <1>2, <2>3, <2>7
    <3>2. Due("ordering")' <=> Due("ordering")
      BY <2>1, <2>7 DEF Due
    <3>3. \A i, w, n : Said(i, w, n)' /\ w.step \in Telling =>
            w.stage = IF n = 1 THEN "diagnose" ELSE "fix"
      <4>1. pending[1].step \in Telling => pending[1].stage = IF order = 1 THEN "diagnose" ELSE "fix"
        BY <2>1 DEF CountInv
      <4> QED
        BY <2>3, <4>1 DEF CountInv
    <3> QED
      BY <2>2, <2>3, <2>4, <2>5, <3>1, <3>2, <3>3 DEF CountInv
  <2> QED
    BY <2>6, <2>7
<1> QED
  BY <1>1, <1>3, <1>4, <1>5, <1>6, <1>7, <1>8 DEF Shapes


-----------------------------------------------------------------------------
(* What is said of an order, against what became of its money.             *)

\* Whom w names was not charged, or nobody was.
Right(w, n) ==
  /\ w.step \in {"service_failed", "none_left"} => Gone(n, w.provider)
  /\ w.step \in Reasons \ {"payment_failed"} => Clear(n)

\* The last offer that order n is said to have chosen.
LastChosen(j, v, n) ==
  /\ Said(j, v, n) /\ v.step = "selected"
  /\ \A k, u : Said(k, u, n) /\ u.step = "selected" => k <= j

SettledTo(n) == \E j, v : LastChosen(j, v, n) /\ PaidTo(n, v.provider)

\* A payment that failed is the one thing that leaves it open.
ToldOfLoss(n) == BillFor(n) = {} \/ \E i, w : Said(i, w, n) /\ w.step = "payment_failed"

\* What is about to be written.
PendingInv ==
  /\ \A w, n : \A i \in DOMAIN pending : w = pending[i] /\ n = order => Right(w, n)
  /\ \A n : n = order /\ Due("settled") => SettledTo(n)
  /\ \A w : \A i \in DOMAIN pending : w = pending[i] /\ w.step = "selected" =>
       step \in {"paying", "stopped"} /\ (step = "paying" => OnlyTry(w.provider))
  /\ Due("payment_failed") => Len(pending) = 1 /\ step = "stopped"
  /\ step = "paying" /\ ~Drained => pending[Len(pending)].step = "paying"
  /\ \A n : n = order /\ step # "paying" /\ (\E i \in DOMAIN pending : pending[i].step \in Shopping) =>
       BillFor(n) = {}

\* What is written.
LogInv ==
  /\ \A i, w, n : Said(i, w, n) => Right(w, n)
  /\ \A i, w, n : Said(i, w, n) /\ w.step = "settled" => SettledTo(n)
  /\ \A i, w, n : Said(i, w, n) /\ w.step = "payment_failed" =>
       /\ \A k, u : Said(k, u, n) /\ k > i => u.step \notin Endings
       /\ n = order => step = "stopped" /\ \A k \in DOMAIN pending : pending[k].step \notin Endings
  /\ \A n : n = order /\ step \in {"paying", "bought"} =>
       Due("selected") \/ \E j, v : LastChosen(j, v, n) /\ OnlyTry(v.provider)
  /\ \A n : n = Latest /\ log # <<>> /\ log[Len(log)].step \in Shopping =>
       BillFor(n) = {} \/ (Announced /\ n = order)

\* That a payment failed is said of an order before it counts as stopped.
LossInv ==
  /\ \A n : n = order /\ step = "stopped" => Due("payment_failed") \/ ToldOfLoss(n)
  /\ \A n : n = Latest /\ (result = "blocked" \/ status = "blocked") => ToldOfLoss(n)

MoneyInv == LanesInv /\ CountInv /\ PendingInv /\ LogInv /\ LossInv

LEMMA RightKept ==
  ASSUME NEW w, NEW n, Kept(n), Right(w, n)
  PROVE  Right(w, n)'
<1>1. w.step \in {"service_failed", "none_left"} => Gone(n, w.provider)'
  BY DEF Right, Kept, Gone
<1>2. w.step \in Reasons \ {"payment_failed"} => Clear(n)'
  BY DEF Right, Kept
<1> QED
  BY <1>1, <1>2 DEF Right

LEMMA SettledKept ==
  ASSUME ViewTypeInv, NEW n \in Orders, Kept(n), SettledTo(n),
         \A j, v : LastChosen(j, v, n) => LastChosen(j, v, n)'
  PROVE  SettledTo(n)'
<1>1. PICK j, v : LastChosen(j, v, n) /\ PaidTo(n, v.provider)
  BY DEF SettledTo
<1>2. v.provider \in Providers
  BY <1>1, BillType DEF PaidTo
<1>3. PaidTo(n, v.provider)' /\ LastChosen(j, v, n)'
  BY <1>1, <1>2 DEF Kept
<1> QED
  BY <1>3 DEF SettledTo

LEMMA LossKept ==
  ASSUME NEW n, Less(n), ToldOfLoss(n), \A i, w : Said(i, w, n) => Said(i, w, n)'
  PROVE  ToldOfLoss(n)'
<1>1. CASE BillFor(n) = {}
  BY <1>1 DEF ToldOfLoss, Less
<1>2. CASE \E i, w : Said(i, w, n) /\ w.step = "payment_failed"
  BY <1>2 DEF ToldOfLoss
<1> QED
  BY <1>1, <1>2 DEF ToldOfLoss

LEMMA ChosenSame ==
  ASSUME UNCHANGED log
  PROVE  \A j, v, n : LastChosen(j, v, n)' <=> LastChosen(j, v, n)
BY SaidSame DEF LastChosen

LEMMA PendingNone == ASSUME pending' = <<>> PROVE PendingInv'
<1>1. DOMAIN pending' = {} /\ Drained'
  BY DEF Drained
<1>2. \A kind : ~Due(kind)'
  BY <1>1 DEF Due
<1> QED
  BY <1>1, <1>2 DEF PendingInv

LEMMA PendingStep ==
  ASSUME LanesInv, LanesInv', CountInv, PendingInv, LogInv, [ViewNext]_viewVars
  PROVE  PendingInv'
<1>1. Shapes
  BY StepIs
<1>2. ~Drained => order # 0 /\ order \in Orders
  BY LatestAt DEF LanesInv, ViewTypeInv, PurchaseTypes, PurchaseTypeOK
<1>3. CASE Renewed
  BY <1>3, PendingNone DEF Renewed
<1>4. CASE Still
  <2>1. UNCHANGED log /\ \A n \in Orders : Kept(n) /\ Less(n)
    BY <1>4 DEF Still
  <2>2. CASE UNCHANGED <<order, step, pending>>
    <3>1. CASE Drained
      BY <2>2, <3>1, PendingNone DEF Drained
    <3>2. CASE ~Drained
      <4>1. \A w, n : \A i \in DOMAIN pending' : w = pending'[i] /\ n = order' => Right(w, n)'
        BY <1>2, <2>1, <2>2, <3>2, RightKept DEF PendingInv
      <4>2. \A n : n = order' /\ Due("settled")' => SettledTo(n)'
        <5>1. SUFFICES ASSUME NEW n, n = order', Due("settled")' PROVE SettledTo(n)'
          OBVIOUS
        <5>2. n \in Orders /\ n = order /\ Due("settled")
          BY <1>2, <2>2, <3>2, <5>1 DEF Due
        <5>3. SettledTo(n) /\ Kept(n)
          BY <2>1, <5>2 DEF PendingInv
        <5>4. ViewTypeInv
          BY DEF LanesInv
        <5> QED
          BY <2>1, <5>2, <5>3, <5>4, SettledKept, ChosenSame
      <4>3. \A w : \A i \in DOMAIN pending' : w = pending'[i] /\ w.step = "selected" =>
              step' \in {"paying", "stopped"} /\ (step' = "paying" => OnlyTry(w.provider)')
        BY <1>4, <2>2 DEF PendingInv, OnlyTry, Still
      <4>4. \A n : n = order' /\ step' # "paying" /\ (\E i \in DOMAIN pending' : pending'[i].step \in Shopping) =>
              BillFor(n)' = {}
        BY <1>2, <2>1, <2>2, <3>2 DEF PendingInv, Less
      <4> QED
        BY <2>2, <4>1, <4>2, <4>3, <4>4 DEF PendingInv, Due, Drained
    <3> QED
      BY <3>1, <3>2
  <2>3. CASE /\ UNCHANGED <<order, step>> /\ Drained /\ step # "paying"
             /\ \A i \in DOMAIN pending' : pending'[i].step \notin Telling \cup {"ordering"}
    <3>1. \A i \in DOMAIN pending' :
            /\ pending'[i].step \notin Reasons \cup {"service_failed", "none_left"}
            /\ pending'[i].step \notin Shopping \cup {"settled", "selected", "payment_failed"}
      BY <2>3 DEF Telling, Endings, Reasons, Shopping
    <3>2. ~Due("settled")' /\ ~Due("payment_failed")'
      BY <3>1 DEF Due
    <3> QED
      BY <2>3, <3>1, <3>2 DEF PendingInv, Right
  <2>4. CASE order' = 0 /\ step' = "none" /\ pending' = <<>>
    BY <2>4, PendingNone
  <2> QED
    BY <1>4, <2>2, <2>3, <2>4 DEF Still
<1>5. CASE Reordered
  <2>1. \A n : n = order' => BillFor(n)' = {}
    BY <1>5 DEF Reordered
  <2>2. \A i \in DOMAIN pending' :
          /\ pending'[i].step \in Reasons => step' = "stopped"
          /\ pending'[i].step \notin {"settled", "selected", "payment_failed", "service_failed", "none_left"}
    BY <1>5 DEF Reordered
  <2>3. ~Due("settled")' /\ ~Due("payment_failed")' /\ step' # "paying"
    BY <1>5, <2>2 DEF Due, Reordered
  <2>4. \A w, n : \A i \in DOMAIN pending' : w = pending'[i] /\ n = order' => Right(w, n)'
    BY <2>1, <2>2 DEF Right, Clear
  <2> QED
    BY <2>1, <2>2, <2>3, <2>4 DEF PendingInv
<1>6. ASSUME NEW p \in Providers, TryOffer(p) PROVE PendingInv'
  <2>1. /\ order \in Orders /\ UNCHANGED order
        /\ pending' \in Seq(Entries)
        /\ step' \in {"trying", "stopped", "paying"}
        /\ \A i \in DOMAIN pending' :
              /\ pending'[i].step \in TryKinds
              /\ pending'[i].step \in {"denied", "refused"} => step' = "stopped"
              /\ pending'[i].step = "selected" =>
                   pending'[i].provider = p /\ step' \in {"paying", "stopped"}
        /\ step' = "paying" => Len(pending') = 4 /\ pending'[4].step = "paying"
    BY <1>6, TryDoes DEF LanesInv
  <2>2. \A n : n = order' =>
          /\ step' # "paying" => BillFor(n)' = {}
          /\ step' = "paying" => OnlyTry(p)'
    BY <1>6, <2>1, TryKept DEF LanesInv
  <2>3. \A i \in DOMAIN pending' :
          /\ pending'[i].step \in Reasons => step' = "stopped"
          /\ pending'[i].step \notin {"settled", "payment_failed", "service_failed", "none_left"}
    BY <2>1 DEF TryKinds, Reasons
  <2>4. ~Due("settled")' /\ ~Due("payment_failed")'
    BY <2>3 DEF Due
  <2>5. \A w, n : \A i \in DOMAIN pending' : w = pending'[i] /\ n = order' => Right(w, n)'
    BY <2>2, <2>3 DEF Right, Clear
  <2>6. step' = "paying" => pending'[Len(pending')].step = "paying"
    BY <2>1
  <2> QED
    BY <2>1, <2>2, <2>4, <2>5, <2>6 DEF PendingInv
<1>7. ASSUME NEW p \in Providers, PayOffer(p) PROVE PendingInv'
  <2>1. ViewTypeInv /\ TurnInv /\ ShopInv
    BY DEF LanesInv
  <2>2. /\ order \in Orders /\ UNCHANGED <<order, incidentVars>> /\ Drained /\ step = "paying"
        /\ \A other \in Providers : OnlyTry(other) => other = p
        /\ step' \in {"bought", "trying", "stopped"}
        /\ \/ step' = "bought" /\ \A i \in DOMAIN pending' : pending'[i].step \in {"settled", "result"}
           \/ /\ phase[Quote(p)] = "forfeited" /\ DOMAIN pending' = {1} /\ pending'[1].provider = p
              /\ step' # "bought"
              /\ pending'[1].step \in {"service_failed", "none_left"}
              /\ pending'[1].step = "none_left" => step' = "stopped"
           \/ /\ DOMAIN pending' = {1} /\ Len(pending') = 1 /\ step' = "stopped"
              /\ pending'[1].step = "payment_failed"
           \/ DOMAIN pending' = {1} /\ step' = "stopped" /\ pending'[1].step = "refused"
    BY <1>7, <2>1, PayDoes
  <2>3. \A n : n = order' =>
          /\ Kept(n)
          /\ step' # "bought" => BillFor(n)' = {} \/ pending'[1].step = "payment_failed"
          /\ step' = "bought" => PaidTo(n, p)'
          /\ phase[Quote(p)] = "forfeited" => Gone(n, p)'
    BY <1>7, <2>1, <2>2, PayKept
  <2>4. \A w, n : \A i \in DOMAIN pending' : w = pending'[i] /\ n = order' => Right(w, n)'
    BY <2>2, <2>3 DEF Right, Clear, Reasons
  <2>5. \A n : n = order' /\ Due("settled")' => SettledTo(n)'
    <3>1. SUFFICES ASSUME NEW n, n = order', Due("settled")' PROVE SettledTo(n)'
      OBVIOUS
    <3>2. n = order /\ n \in Orders /\ step' = "bought"
      BY <2>2, <3>1 DEF Due
    <3>3. ~Due("selected")
      BY <2>2 DEF Due, Drained
    <3>4. PICK j, v : LastChosen(j, v, n) /\ OnlyTry(v.provider)
      BY <2>2, <3>2, <3>3 DEF LogInv
    <3>5. v.provider = p
      BY <2>2, <3>4 DEF OnlyTry
    <3>6. LastChosen(j, v, n)'
      BY <2>2, <3>4, ChosenSame DEF incidentVars
    <3>7. PaidTo(n, v.provider)'
      BY <2>3, <3>1, <3>2, <3>5
    <3> QED
      BY <3>6, <3>7 DEF SettledTo
  <2>6. \A i \in DOMAIN pending' : pending'[i].step \notin Shopping \cup {"selected"}
    BY <2>2 DEF Shopping
  <2>7. Due("payment_failed")' => Len(pending') = 1 /\ step' = "stopped"
    BY <2>2 DEF Due
  <2> QED
    BY <2>2, <2>4, <2>5, <2>6, <2>7 DEF PendingInv
<1>8. CASE Write
  <2>1. /\ UNCHANGED <<purchaseVars, lockVars, taskVars, deskVars, responseVars, closed, bills>> /\ ~Drained
        /\ \A i \in DOMAIN pending' : i + 1 \in DOMAIN pending /\ pending'[i] = pending[i + 1]
        /\ Len(pending') = Len(pending) - 1 /\ Len(pending) \in Nat /\ pending' \in Seq(Entries)
    BY <1>8, WriteDoes DEF LanesInv
  <2>2. UNCHANGED <<busy, bills, phase, sent, answered, order, step, offers>>
    BY <2>1 DEF purchaseVars, orderVars, lockVars, taskVars
  <2>3. /\ order \in Orders
        /\ \A n \in Orders : Kept(n) /\ Less(n)
    BY <1>2, <2>1, <2>2, KeptElsewhere
  <2>4. \A w, n : \A i \in DOMAIN pending' : w = pending'[i] /\ n = order' => Right(w, n)'
    BY <2>1, <2>2, <2>3, RightKept DEF PendingInv
  <2>5. \A n : n = order' /\ Due("settled")' => SettledTo(n)'
    <3>1. SUFFICES ASSUME NEW n, n = order', Due("settled")' PROVE SettledTo(n)'
      OBVIOUS
    <3>2. n = order /\ n \in Orders /\ Due("settled")
      BY <2>1, <2>2, <2>3, <3>1 DEF Due
    <3>3. SettledTo(n)
      BY <3>2 DEF PendingInv
    <3>4. step = "bought"
      BY <3>2, <3>3 DEF SettledTo, PaidTo
    <3>5. 1 \in DOMAIN pending /\ pending[1].step # "selected"
      BY <1>8, <3>4, WriteAt DEF PendingInv
    <3>6. ASSUME NEW j, NEW v, LastChosen(j, v, n) PROVE LastChosen(j, v, n)'
      BY <1>8, <3>5, <3>6, WriteAt DEF LastChosen
    <3>7. ViewTypeInv
      BY DEF LanesInv
    <3> QED
      BY <2>3, <3>2, <3>3, <3>6, <3>7, SettledKept
  <2>6. \A w : \A i \in DOMAIN pending' : w = pending'[i] /\ w.step = "selected" =>
          step' \in {"paying", "stopped"} /\ (step' = "paying" => OnlyTry(w.provider)')
    BY <2>1, <2>2 DEF PendingInv, OnlyTry, Quote
  <2>7. ~Due("payment_failed")'
    <3>1. ASSUME Due("payment_failed")' PROVE FALSE
      <4>1. Due("payment_failed")
        BY <2>1, <3>1 DEF Due
      <4>2. Len(pending') = 0
        BY <2>1, <4>1 DEF PendingInv
      <4>3. DOMAIN pending' = {}
        BY <2>1, <4>2
      <4> QED
        BY <3>1, <4>3 DEF Due
    <3> QED
      BY <3>1
  <2>8. step' = "paying" /\ ~Drained' => pending'[Len(pending')].step = "paying"
    <3>1. SUFFICES ASSUME step' = "paying", ~Drained' PROVE pending'[Len(pending')].step = "paying"
      OBVIOUS
    <3>2. pending[Len(pending)].step = "paying"
      BY <2>1, <2>2, <3>1 DEF PendingInv
    <3>3. Len(pending') \in DOMAIN pending'
      BY <2>1, <3>1 DEF Drained
    <3>4. pending'[Len(pending')] = pending[Len(pending') + 1] /\ Len(pending') + 1 = Len(pending)
      BY <2>1, <3>3
    <3> QED
      BY <3>2, <3>4
  <2>9. \A n : n = order' /\ step' # "paying" /\ (\E i \in DOMAIN pending' : pending'[i].step \in Shopping) =>
          BillFor(n)' = {}
    BY <2>1, <2>2, <2>3 DEF PendingInv, Less
  <2> QED
    BY <2>4, <2>5, <2>6, <2>7, <2>8, <2>9 DEF PendingInv
<1> QED
  BY <1>1, <1>3, <1>4, <1>5, <1>6, <1>7, <1>8 DEF Shapes


\* A step that writes nothing leaves what is written as right as it was.
LEMMA LogSame ==
  ASSUME LanesInv, CountInv, LogInv, UNCHANGED log,
         \A n \in Orders : n <= order \/ order = 0 => Kept(n)
  PROVE  /\ \A i, w, n : Said(i, w, n)' => Right(w, n)'
         /\ \A i, w, n : Said(i, w, n)' /\ w.step = "settled" => SettledTo(n)'
         /\ \A i, w, n : Said(i, w, n)' /\ w.step = "payment_failed" =>
              /\ \A k, u : Said(k, u, n)' /\ k > i => u.step \notin Endings
              /\ n = order => step = "stopped" /\ \A k \in DOMAIN pending : pending[k].step \notin Endings
<1>1. \A i, w, n : Said(i, w, n)' <=> Said(i, w, n)
  BY SaidSame
<1>2. ASSUME NEW i, NEW w, NEW n, Said(i, w, n) PROVE n \in Orders /\ Kept(n)
  <2>1. n \in Orders /\ n <= Latest /\ Latest \in Nat /\ order \in Nat
    BY <1>2, LatestAt
  <2>2. order # 0 => Latest <= order
    BY LatestAt
  <2>3. n \in Nat
    BY <2>1, PurchaseAssumption DEF Orders
  <2>4. n <= order \/ order = 0
    BY <2>1, <2>2, <2>3
  <2> QED
    BY <2>1, <2>4
<1>3. \A i, w, n : Said(i, w, n)' => Right(w, n)'
  BY <1>1, <1>2, RightKept DEF LogInv
<1>4. \A i, w, n : Said(i, w, n)' /\ w.step = "settled" => SettledTo(n)'
  <2>1. SUFFICES ASSUME NEW i, NEW w, NEW n, Said(i, w, n)', w.step = "settled"
                 PROVE  SettledTo(n)'
    OBVIOUS
  <2>2. n \in Orders /\ Kept(n) /\ SettledTo(n)
    BY <1>1, <1>2, <2>1 DEF LogInv
  <2>3. ViewTypeInv
    BY DEF LanesInv
  <2> QED
    BY <2>2, <2>3, SettledKept, ChosenSame
<1>5. \A i, w, n : Said(i, w, n)' /\ w.step = "payment_failed" =>
        /\ \A k, u : Said(k, u, n)' /\ k > i => u.step \notin Endings
        /\ n = order => step = "stopped" /\ \A k \in DOMAIN pending : pending[k].step \notin Endings
  BY <1>1 DEF LogInv
<1> QED
  BY <1>3, <1>4, <1>5

LEMMA LogStep ==
  ASSUME LanesInv, LanesInv', CountInv, CountInv', PendingInv, LogInv, [ViewNext]_viewVars
  PROVE  LogInv'
<1>1. Shapes
  BY StepIs
<1>2. ViewTypeInv /\ TurnInv /\ ShopInv /\ LaneInv
  BY DEF LanesInv
<1>3. /\ Latest \in Nat /\ order \in Nat
      /\ order # 0 => Latest <= order
      /\ Drained /\ order # 0 => Latest = order
      /\ ~Drained => order # 0
      /\ \A i, w, n : Said(i, w, n) => n \in Orders /\ n <= Latest /\ w \in Entries
  BY LatestAt
<1>4. CASE Renewed
  <2>1. log' = <<>> /\ step' = "none"
    BY <1>4 DEF Renewed
  <2>2. \A i, w, n : ~Said(i, w, n)'
    BY <2>1 DEF Said
  <2> QED
    BY <2>1, <2>2 DEF LogInv
<1>5. CASE Still
  <2>1. /\ UNCHANGED log /\ \A n \in Orders : Kept(n) /\ Less(n)
        /\ order' = order => \A p \in Providers : OnlyTry(p) => OnlyTry(p)'
    BY <1>5 DEF Still
  <2>2. /\ \A i, w, n : Said(i, w, n)' => Right(w, n)'
        /\ \A i, w, n : Said(i, w, n)' /\ w.step = "settled" => SettledTo(n)'
        /\ \A i, w, n : Said(i, w, n)' /\ w.step = "payment_failed" =>
             /\ \A k, u : Said(k, u, n)' /\ k > i => u.step \notin Endings
             /\ n = order => step = "stopped" /\ \A k \in DOMAIN pending : pending[k].step \notin Endings
    BY <2>1, LogSame
  <2>3. Latest' = Latest /\ Latest \in Orders
    BY <2>1, SaidSame DEF CountInv
  <2>4. \A j, v, n : LastChosen(j, v, n)' <=> LastChosen(j, v, n)
    BY <2>1, ChosenSame
  <2>5. \A p : OnlyTry(p) => p \in Providers
    BY DEF OnlyTry
  <2>6. CASE UNCHANGED <<order, step, pending>>
    <3>1. \A n : n = order' /\ step' \in {"paying", "bought"} =>
            Due("selected")' \/ \E j, v : LastChosen(j, v, n)' /\ OnlyTry(v.provider)'
      BY <2>1, <2>4, <2>5, <2>6 DEF LogInv, Due
    <3>2. Announced' <=> Announced
      BY <2>6 DEF Announced, Drained
    <3>3. \A n : n = Latest' /\ log' # <<>> /\ log'[Len(log')].step \in Shopping =>
            BillFor(n)' = {} \/ (Announced' /\ n = order')
      BY <2>1, <2>3, <2>6, <3>2 DEF LogInv, Less
    <3>4. \A i, w, n : Said(i, w, n)' /\ w.step = "payment_failed" /\ n = order' =>
            step' = "stopped" /\ \A k \in DOMAIN pending' : pending'[k].step \notin Endings
      BY <2>2, <2>6
    <3> QED
      BY <2>2, <3>1, <3>3, <3>4 DEF LogInv
  <2>7. CASE /\ UNCHANGED <<order, step>> /\ Drained /\ step # "paying"
             /\ \A i \in DOMAIN pending' : pending'[i].step \notin Telling \cup {"ordering"}
    <3>1. ~Due("selected")
      BY <2>7 DEF Due, Drained
    <3>2. \A n : n = order' /\ step' \in {"paying", "bought"} =>
            \E j, v : LastChosen(j, v, n)' /\ OnlyTry(v.provider)'
      BY <2>1, <2>4, <2>5, <2>7, <3>1 DEF LogInv
    <3>3. \A n : n = Latest' /\ log' # <<>> /\ log'[Len(log')].step \in Shopping => BillFor(n)' = {}
      BY <2>1, <2>3, <2>7 DEF LogInv, Less, Announced
    <3>4. \A i, w, n : Said(i, w, n)' /\ w.step = "payment_failed" /\ n = order' =>
            step' = "stopped" /\ \A k \in DOMAIN pending' : pending'[k].step \notin Endings
      BY <2>2, <2>7 DEF Telling
    <3> QED
      BY <2>2, <3>2, <3>3, <3>4 DEF LogInv
  <2>8. CASE order' = 0 /\ step' = "none" /\ Drained /\ pending' = <<>>
    <3>1. \A n : n = Latest' /\ log' # <<>> /\ log'[Len(log')].step \in Shopping => BillFor(n)' = {}
      BY <2>1, <2>3, <2>8 DEF LogInv, Less, Announced
    <3>2. \A i, w, n : Said(i, w, n)' => n # order'
      <4>1. \A i, w, n : Said(i, w, n)' => n \in Orders
        BY <1>3, <2>1, SaidSame
      <4>2. 0 \notin Orders
        BY PurchaseAssumption DEF Orders
      <4> QED
        BY <2>8, <4>1, <4>2
    <3> QED
      BY <2>2, <2>8, <3>1, <3>2 DEF LogInv
  <2> QED
    BY <1>5, <2>6, <2>7, <2>8 DEF Still
<1>6. CASE Reordered
  <2>1. /\ UNCHANGED log /\ Drained /\ order' = order + 1 /\ step' \in {"trying", "stopped"}
        /\ order = 0 => log = <<>>
        /\ \A n \in Orders : n # order' => Kept(n) /\ Less(n)
    BY <1>6 DEF Reordered
  <2>2. CASE order = 0
    <3>1. log' = <<>>
      BY <2>1, <2>2
    <3>2. \A i, w, n : ~Said(i, w, n)'
      BY <3>1 DEF Said
    <3> QED
      BY <2>1, <3>1, <3>2 DEF LogInv
  <2>3. CASE order # 0
    <3>1. \A n \in Orders : n <= order => n # order' /\ Kept(n) /\ Less(n)
      <4>1. TAKE n \in Orders
      <4>2. n \in Nat
        BY PurchaseAssumption DEF Orders
      <4>3. n <= order => n # order'
        BY <1>3, <2>1, <4>2
      <4> QED
        BY <2>1, <4>3
    <3>2. /\ \A i, w, n : Said(i, w, n)' => Right(w, n)'
          /\ \A i, w, n : Said(i, w, n)' /\ w.step = "settled" => SettledTo(n)'
          /\ \A i, w, n : Said(i, w, n)' /\ w.step = "payment_failed" =>
               \A k, u : Said(k, u, n)' /\ k > i => u.step \notin Endings
      BY <2>1, <2>3, <3>1, LogSame
    <3>3. Latest' = Latest /\ Latest \in Orders /\ Latest = order
      BY <1>3, <2>1, <2>3, SaidSame DEF CountInv
    <3>4. \A n : n = Latest' /\ log' # <<>> /\ log'[Len(log')].step \in Shopping => BillFor(n)' = {}
      <4>1. SUFFICES ASSUME NEW n, n = Latest', log' # <<>>, log'[Len(log')].step \in Shopping
                     PROVE  BillFor(n)' = {}
        OBVIOUS
      <4>2. BillFor(n) = {}
        BY <2>1, <3>3, <4>1 DEF LogInv, Announced
      <4>3. n \in Orders /\ n <= order
        BY <1>3, <3>3, <4>1
      <4> QED
        BY <3>1, <4>2, <4>3 DEF Less
    <3>5. \A i, w, n : Said(i, w, n)' => n # order'
      <4>1. \A i, w, n : Said(i, w, n)' => n \in Orders /\ n <= Latest
        BY <1>3, <2>1, SaidSame
      <4> QED
        BY <3>1, <3>3, <4>1
    <3> QED
      BY <2>1, <3>2, <3>4, <3>5 DEF LogInv
  <2> QED
    BY <2>2, <2>3
<1>7. ASSUME NEW p \in Providers, TryOffer(p) PROVE LogInv'
  <2>1. /\ step = "trying" /\ Drained /\ order \in Orders /\ UNCHANGED <<order, incidentVars>>
        /\ step' \in {"trying", "stopped", "paying"}
        /\ step' = "paying" => /\ Len(pending') = 4
                               /\ 2 \in DOMAIN pending' /\ pending'[2].step = "selected"
    BY <1>2, <1>7, TryDoes
  <2>2. \A n \in Orders : /\ Kept(n)
                          /\ n = order /\ step' # "paying" => BillFor(n)' = {}
    BY <1>2, <1>7, TryKept
  <2>3. UNCHANGED log
    BY <2>1 DEF incidentVars
  <2>4. /\ \A i, w, n : Said(i, w, n)' => Right(w, n)'
        /\ \A i, w, n : Said(i, w, n)' /\ w.step = "settled" => SettledTo(n)'
        /\ \A i, w, n : Said(i, w, n)' /\ w.step = "payment_failed" =>
             /\ \A k, u : Said(k, u, n)' /\ k > i => u.step \notin Endings
             /\ n = order => step = "stopped"
    BY <2>2, <2>3, LogSame
  <2>5. order # 0
    BY <2>1, PurchaseAssumption DEF Orders
  <2>6. Latest' = Latest /\ Latest = order
    BY <1>3, <2>1, <2>3, <2>5, SaidSame
  <2>7. step' = "paying" => Due("selected")' /\ Announced'
    BY <2>1 DEF Due, Announced, Drained
  <2>8. \A n : n = Latest' => BillFor(n)' = {} \/ (Announced' /\ n = order')
    BY <2>1, <2>2, <2>6, <2>7
  <2>9. \A i, w, n : Said(i, w, n)' /\ w.step = "payment_failed" => n # order'
    BY <2>1, <2>4
  <2> QED
    BY <2>1, <2>4, <2>7, <2>8, <2>9 DEF LogInv
<1>8. ASSUME NEW p \in Providers, PayOffer(p) PROVE LogInv'
  <2>1. /\ step = "paying" /\ Drained /\ order \in Orders /\ UNCHANGED <<order, sent, phase, incidentVars>>
        /\ \A other \in Providers : OnlyTry(other) => other = p
        /\ OnlyTry(p)
        /\ step' \in {"trying", "stopped", "bought"}
        /\ step' = "bought" => offers' = offers
    BY <1>2, <1>8, PayDoes
  <2>2. \A n \in Orders : Kept(n) /\ Less(n)
    BY <1>2, <1>8, PayKept
  <2>3. UNCHANGED log
    BY <2>1 DEF incidentVars
  <2>4. /\ \A i, w, n : Said(i, w, n)' => Right(w, n)'
        /\ \A i, w, n : Said(i, w, n)' /\ w.step = "settled" => SettledTo(n)'
        /\ \A i, w, n : Said(i, w, n)' /\ w.step = "payment_failed" =>
             /\ \A k, u : Said(k, u, n)' /\ k > i => u.step \notin Endings
             /\ n = order => step = "stopped"
    BY <2>2, <2>3, LogSame
  <2>5. Latest' = Latest /\ Latest \in Orders
    BY <2>3, SaidSame DEF CountInv
  <2>6. \A n : n = Latest' /\ log' # <<>> /\ log'[Len(log')].step \in Shopping => BillFor(n)' = {}
    BY <2>1, <2>2, <2>3, <2>5 DEF LogInv, Less, Announced
  <2>7. \A n : n = order' /\ step' = "bought" =>
          \E j, v : LastChosen(j, v, n)' /\ OnlyTry(v.provider)'
    <3>1. SUFFICES ASSUME NEW n, n = order', step' = "bought"
                   PROVE  \E j, v : LastChosen(j, v, n)' /\ OnlyTry(v.provider)'
      OBVIOUS
    <3>2. ~Due("selected")
      BY <2>1 DEF Due, Drained
    <3>3. PICK j, v : LastChosen(j, v, n) /\ OnlyTry(v.provider)
      BY <2>1, <3>1, <3>2 DEF LogInv
    <3>4. OnlyTry(v.provider)'
      BY <2>1, <3>1, <3>3 DEF OnlyTry, Quote
    <3> QED
      BY <2>3, <3>3, <3>4, ChosenSame
  <2>8. \A i, w, n : Said(i, w, n)' /\ w.step = "payment_failed" => n # order'
    BY <2>1, <2>4
  <2> QED
    BY <2>1, <2>4, <2>6, <2>7, <2>8 DEF LogInv
<1>9. CASE Write
  <2>1. /\ UNCHANGED <<purchaseVars, lockVars, taskVars, deskVars, responseVars, closed, bills>> /\ ~Drained
        /\ 1 \in DOMAIN pending /\ pending \in Seq(Entries)
        /\ \A i \in DOMAIN pending' : i + 1 \in DOMAIN pending /\ pending'[i] = pending[i + 1]
        /\ \A i \in DOMAIN pending : i # 1 => i - 1 \in DOMAIN pending' /\ pending'[i - 1] = pending[i]
        /\ Len(pending') = Len(pending) - 1 /\ Len(pending) \in Nat /\ pending' \in Seq(Entries)
    BY <1>2, <1>9, WriteDoes DEF ViewTypeInv
  <2>2. UNCHANGED <<busy, bills, phase, sent, answered, order, step, offers>>
    BY <2>1 DEF purchaseVars, orderVars, lockVars, taskVars
  <2>3. \A n \in Orders : Kept(n) /\ Less(n)
    BY <2>2, KeptElsewhere
  <2>4. \A p : OnlyTry(p) => OnlyTry(p)'
    BY <2>2 DEF OnlyTry, Quote
  <2>5. /\ order # 0 /\ order \in Orders
        /\ pending[1].step \in Telling => ~Due("ordering") /\ Latest = order /\ Latest' = order
        /\ pending[1].step \in Telling => pending[1].stage # "status"
    BY <1>2, <1>9, WriteAt DEF ViewTypeInv, PurchaseTypes, PurchaseTypeOK
  <2>6. CASE /\ pending[1].stage = "status" /\ UNCHANGED log /\ Latest' = Latest
             /\ \A i, w, n : Said(i, w, n)' <=> Said(i, w, n)
    <3>1. /\ \A i, w, n : Said(i, w, n)' => Right(w, n)'
          /\ \A i, w, n : Said(i, w, n)' /\ w.step = "settled" => SettledTo(n)'
          /\ \A i, w, n : Said(i, w, n)' /\ w.step = "payment_failed" =>
               /\ \A k, u : Said(k, u, n)' /\ k > i => u.step \notin Endings
               /\ n = order => step = "stopped" /\ \A k \in DOMAIN pending : pending[k].step \notin Endings
      BY <2>3, <2>6, LogSame
    <3>2. \A i, w, n : Said(i, w, n)' /\ w.step = "payment_failed" /\ n = order' =>
            step' = "stopped" /\ \A k \in DOMAIN pending' : pending'[k].step \notin Endings
      BY <2>1, <2>2, <3>1
    <3>3. Due("selected") => Due("selected")'
      <4>1. pending[1].step # "selected"
        BY <2>5, <2>6 DEF Telling, Shopping
      <4> QED
        BY <2>1, <4>1 DEF Due
    <3>4. \A n : n = order' /\ step' \in {"paying", "bought"} =>
            Due("selected")' \/ \E j, v : LastChosen(j, v, n)' /\ OnlyTry(v.provider)'
      BY <2>2, <2>4, <2>6, <3>3, ChosenSame DEF LogInv
    <3>5. Announced => Announced'
      <4>1. SUFFICES ASSUME step = "paying" PROVE ~Drained'
        BY <2>2 DEF Announced
      <4>2. pending[Len(pending)].step = "paying"
        BY <2>1, <4>1 DEF PendingInv
      <4>3. pending[1].step # "paying"
        BY <1>2, <2>1, <2>6 DEF LaneInv
      <4>4. Len(pending) # 1
        BY <4>2, <4>3
      <4> QED
        BY <2>1, <4>4 DEF Drained
    <3>6. Latest \in Orders
      BY DEF CountInv
    <3>7. \A n : n = Latest' /\ log' # <<>> /\ log'[Len(log')].step \in Shopping =>
            BillFor(n)' = {} \/ (Announced' /\ n = order')
      BY <2>2, <2>3, <2>6, <3>5, <3>6 DEF LogInv, Less
    <3> QED
      BY <3>1, <3>2, <3>4, <3>7 DEF LogInv
  <2>7. CASE /\ pending[1].stage # "status"
             /\ \A i, w, n : Said(i, w, n)' <=> \/ Said(i, w, n)
                                                \/ i = Len(log) + 1 /\ w = pending[1] /\ n = Latest'
             /\ Len(log) \in Nat /\ log' # <<>> /\ log'[Len(log')] = pending[1]
    <3>1. \A i, w, n : Said(i, w, n) => i \in 1..Len(log) /\ n \in Orders /\ n <= Latest
      BY <1>2, <1>3, SaidType
    <3>2. \A i, w, n : Said(i, w, n) => i < Len(log) + 1 /\ ~(Len(log) + 1 <= i) /\ i # Len(log) + 1
      BY <2>7, <3>1
    <3>3. \A i, w, n : Said(i, w, n)' => Right(w, n)'
      <4>1. \A i, w, n : Said(i, w, n) => Right(w, n)'
        BY <2>3, <3>1, RightKept DEF LogInv
      <4>2. \A w, n : w = pending[1] /\ n = Latest' => Right(w, n)'
        <5>1. CASE pending[1].step \in Telling
          <6>1. SUFFICES ASSUME NEW w, NEW n, w = pending[1], n = Latest' PROVE Right(w, n)'
            OBVIOUS
          <6>2. n = order /\ n \in Orders
            BY <2>5, <5>1, <6>1
          <6>3. Right(w, n) /\ Kept(n)
            BY <2>1, <2>3, <6>1, <6>2 DEF PendingInv
          <6> QED
            BY <6>3, RightKept
        <5>2. CASE pending[1].step \notin Telling
          BY <5>2 DEF Right, Telling, Endings, Reasons
        <5> QED
          BY <5>1, <5>2
      <4> QED
        BY <2>7, <4>1, <4>2
    <3>4. \A n \in Orders : SettledTo(n) => SettledTo(n)'
      <4>1. SUFFICES ASSUME NEW n \in Orders, SettledTo(n) PROVE SettledTo(n)'
        OBVIOUS
      <4>2. pending[1].step = "selected" => Latest' # n
        <5>1. SUFFICES ASSUME pending[1].step = "selected" PROVE Latest' # n
          OBVIOUS
        <5>2. Latest' = order /\ step \in {"paying", "stopped"}
          BY <2>1, <2>5, <5>1 DEF PendingInv, Telling, Shopping
        <5>3. n = order => step = "bought"
          BY <4>1 DEF SettledTo, PaidTo
        <5> QED
          BY <5>2, <5>3
      <4>3. \A j, v : LastChosen(j, v, n) => LastChosen(j, v, n)'
        BY <2>7, <4>2 DEF LastChosen
      <4> QED
        BY <1>2, <2>3, <4>1, <4>3, SettledKept
    <3>5. \A i, w, n : Said(i, w, n)' /\ w.step = "settled" => SettledTo(n)'
      <4>1. \A i, w, n : Said(i, w, n) /\ w.step = "settled" => SettledTo(n)'
        BY <3>1, <3>4 DEF LogInv
      <4>2. ASSUME pending[1].step = "settled" PROVE \A n : n = Latest' => SettledTo(n)'
        <5>1. "settled" \in Telling
          BY DEF Telling, Endings
        <5>2. Latest' = order /\ Due("settled")
          BY <2>1, <2>5, <4>2, <5>1 DEF Due
        <5> QED
          BY <2>5, <3>4, <5>2 DEF PendingInv
      <4> QED
        BY <2>7, <4>1, <4>2
    <3>6. ASSUME NEW i, NEW w, NEW n, Said(i, w, n)', w.step = "payment_failed"
          PROVE  /\ \A k, u : Said(k, u, n)' /\ k > i => u.step \notin Endings
                 /\ n = order' => step' = "stopped" /\ \A k \in DOMAIN pending' : pending'[k].step \notin Endings
      <4>1. CASE Said(i, w, n)
        <5>1. /\ \A k, u : Said(k, u, n) /\ k > i => u.step \notin Endings
              /\ n = order => step = "stopped" /\ \A k \in DOMAIN pending : pending[k].step \notin Endings
          BY <3>6, <4>1 DEF LogInv
        <5>2. pending[1].step \in Endings => n # Latest'
          BY <2>1, <2>5, <5>1 DEF Telling
        <5> QED
          BY <2>1, <2>2, <2>7, <5>1, <5>2
      <4>2. CASE i = Len(log) + 1 /\ w = pending[1] /\ n = Latest'
        <5>1. Len(pending) = 1 /\ step = "stopped"
          BY <2>1, <3>6, <4>2 DEF PendingInv, Due
        <5>2. DOMAIN pending' = {}
          BY <2>1, <5>1
        <5>3. \A k, u, m : Said(k, u, m)' => ~(k > i)
          BY <2>7, <3>1, <4>2
        <5> QED
          BY <2>2, <5>1, <5>2, <5>3
      <4> QED
        BY <2>7, <3>6, <4>1, <4>2
    <3>7. \A n : n = order' /\ step' \in {"paying", "bought"} =>
            Due("selected")' \/ \E j, v : LastChosen(j, v, n)' /\ OnlyTry(v.provider)'
      <4>1. SUFFICES ASSUME NEW n, n = order, step \in {"paying", "bought"}
                     PROVE  Due("selected")' \/ \E j, v : LastChosen(j, v, n)' /\ OnlyTry(v.provider)'
        BY <2>2
      <4>2. CASE pending[1].step = "selected"
        <5>1. Latest' = n
          BY <2>5, <4>1, <4>2 DEF Telling, Shopping
        <5>2. OnlyTry(pending[1].provider)
          BY <2>1, <4>1, <4>2 DEF PendingInv
        <5>3. \A j, v : j = Len(log) + 1 /\ v = pending[1] => LastChosen(j, v, n)' /\ OnlyTry(v.provider)'
          <6>1. \A k, u : Said(k, u, n)' => k <= Len(log) + 1
            BY <2>7, <3>1
          <6> QED
            BY <2>4, <2>7, <4>2, <5>1, <5>2, <6>1 DEF LastChosen
        <5> QED
          BY <5>3
      <4>3. CASE pending[1].step # "selected"
        <5>1. Due("selected") => Due("selected")'
          BY <2>1, <4>3 DEF Due
        <5>2. \A j, v : LastChosen(j, v, n) => LastChosen(j, v, n)'
          BY <2>7, <4>3 DEF LastChosen
        <5> QED
          BY <2>4, <4>1, <5>1, <5>2 DEF LogInv
      <4> QED
        BY <4>2, <4>3
    <3>8. \A n : n = Latest' /\ log'[Len(log')].step \in Shopping =>
            BillFor(n)' = {} \/ (Announced' /\ n = order')
      <4>1. SUFFICES ASSUME NEW n, n = Latest', pending[1].step \in Shopping
                     PROVE  BillFor(n)' = {} \/ (Announced' /\ n = order')
        BY <2>7
      <4>2. n = order /\ n \in Orders
        BY <2>5, <4>1 DEF Telling
      <4>3. CASE step = "paying"
        <5>1. pending[Len(pending)].step = "paying"
          BY <2>1, <4>3 DEF PendingInv
        <5>2. Len(pending) # 1
          BY <4>1, <5>1 DEF Shopping
        <5>3. ~Drained'
          BY <2>1, <5>2 DEF Drained
        <5> QED
          BY <2>2, <4>2, <4>3, <5>3 DEF Announced
      <4>4. CASE step # "paying"
        <5>1. BillFor(n) = {}
          BY <2>1, <4>1, <4>2, <4>4 DEF PendingInv
        <5> QED
          BY <2>3, <4>2, <5>1 DEF Less
      <4> QED
        BY <4>3, <4>4
    <3> QED
      BY <3>3, <3>5, <3>6, <3>7, <3>8 DEF LogInv
  <2> QED
    BY <1>9, <2>6, <2>7, WriteAt
<1> QED
  BY <1>1, <1>4, <1>5, <1>6, <1>7, <1>8, <1>9 DEF Shapes


LEMMA LossStep ==
  ASSUME LanesInv, LanesInv', CountInv, CountInv', PendingInv, LossInv, [ViewNext]_viewVars
  PROVE  LossInv'
<1>1. Shapes
  BY StepIs
<1>2. ViewTypeInv /\ TurnInv /\ ShopInv /\ LaneInv
  BY DEF LanesInv
<1>3. /\ Drained /\ order # 0 => Latest = order
      /\ ~Drained => order # 0
      /\ order # 0 => order \in Orders
      /\ step = "stopped" => order # 0
      /\ Latest \in Orders
  BY <1>2, LatestAt DEF ViewTypeInv, PurchaseTypes, PurchaseTypeOK, TurnInv, CountInv
<1>4. busy = "response" => status # "blocked" /\ ~closed
  BY <1>2 DEF TurnInv, LaneInv
<1>5. CASE Renewed
  BY <1>5 DEF Renewed, LossInv
<1>6. CASE Still
  <2>1. UNCHANGED log /\ \A n \in Orders : Kept(n) /\ Less(n)
    BY <1>6 DEF Still
  <2>2. Latest' = Latest /\ \A i, w, n : Said(i, w, n)' <=> Said(i, w, n)
    BY <2>1, SaidSame
  <2>3. \A n \in Orders : ToldOfLoss(n) => ToldOfLoss(n)'
    BY <2>1, <2>2, LossKept
  <2>4. Drained => ~Due("payment_failed")
    BY DEF Drained, Due
  <2>5. \A n : n = order' /\ step' = "stopped" => Due("payment_failed")' \/ ToldOfLoss(n)'
    <3>1. CASE UNCHANGED <<order, step, pending>>
      BY <1>3, <2>3, <3>1 DEF LossInv, Due
    <3>2. CASE UNCHANGED <<order, step>> /\ Drained
      BY <1>3, <2>3, <2>4, <3>2 DEF LossInv
    <3>3. CASE step' = "none"
      BY <3>3
    <3> QED
      BY <1>6, <3>1, <3>2, <3>3 DEF Still
  <2>6. \A n : n = Latest' /\ (result' = "blocked" \/ status' = "blocked") => ToldOfLoss(n)'
    <3>1. SUFFICES ASSUME NEW n, n = Latest, result' = "blocked" \/ status' = "blocked"
                   PROVE  ToldOfLoss(n)'
      BY <2>2
    <3>2. \/ result = "blocked" \/ status = "blocked"
          \/ step = "stopped" /\ Drained /\ order # 0
      BY <1>6, <3>1 DEF Still
    <3>3. ToldOfLoss(n)
      BY <1>3, <2>4, <3>1, <3>2 DEF LossInv
    <3> QED
      BY <1>3, <2>3, <3>1, <3>3
  <2> QED
    BY <2>5, <2>6 DEF LossInv
<1>7. CASE Reordered
  <2>1. \A n : n = order' => ToldOfLoss(n)'
    BY <1>7 DEF Reordered, ToldOfLoss
  <2> QED
    BY <1>7, <2>1 DEF LossInv, Reordered
<1>8. ASSUME NEW p \in Providers, TryOffer(p) PROVE LossInv'
  <2>1. /\ step = "trying" /\ busy = "response" /\ order \in Orders
        /\ UNCHANGED <<order, result, incidentVars>>
    BY <1>2, <1>8, TryDoes
  <2>2. \A n : n = order' /\ step' = "stopped" => BillFor(n)' = {}
    BY <1>2, <1>8, <2>1, TryKept
  <2>3. result = "none"
    BY <1>2, <2>1 DEF TurnInv
  <2> QED
    BY <1>4, <2>1, <2>2, <2>3 DEF LossInv, ToldOfLoss, incidentVars
<1>9. ASSUME NEW p \in Providers, PayOffer(p) PROVE LossInv'
  <2>1. /\ busy = "response" /\ order \in Orders /\ result = "none"
        /\ UNCHANGED <<order, responseVars, incidentVars>>
    BY <1>2, <1>9, PayDoes
  <2>2. \A n : n = order' /\ step' = "stopped" =>
          BillFor(n)' = {} \/ (DOMAIN pending' = {1} /\ pending'[1].step = "payment_failed")
    BY <1>2, <1>9, <2>1, PayKept
  <2> QED
    BY <1>4, <2>1, <2>2 DEF LossInv, ToldOfLoss, Due, incidentVars, responseVars
<1>10. CASE Write
  <2>1. /\ UNCHANGED <<purchaseVars, lockVars, taskVars, deskVars, responseVars, closed, bills>> /\ ~Drained
        /\ \A i \in DOMAIN pending : i # 1 => i - 1 \in DOMAIN pending' /\ pending'[i - 1] = pending[i]
        /\ \/ pending[1].stage = "status" /\ status' = pending[1].step
           \/ pending[1].stage # "status" /\ UNCHANGED status
        /\ 1 \in DOMAIN pending
    BY <1>2, <1>10, WriteDoes
  <2>2. UNCHANGED <<busy, bills, phase, sent, answered, order, step, result>>
    BY <2>1 DEF purchaseVars, orderVars, lockVars, taskVars, responseVars
  <2>3. \A n \in Orders : Kept(n) /\ Less(n)
    BY <2>2, KeptElsewhere
  <2>4. busy = "response" /\ result # "blocked"
    BY <1>2, <1>3, <2>1 DEF TurnInv
  <2>5. status' # "blocked"
    BY <1>2, <1>4, <2>1, <2>4 DEF LaneInv
  <2>6. \A i, w, n : Said(i, w, n) => Said(i, w, n)'
    BY <1>10, WriteAt
  <2>7. \A n : n = order' /\ step' = "stopped" => Due("payment_failed")' \/ ToldOfLoss(n)'
    <3>1. SUFFICES ASSUME NEW n, n = order, step = "stopped"
                   PROVE  Due("payment_failed")' \/ ToldOfLoss(n)'
      BY <2>2
    <3>2. n \in Orders
      BY <1>3, <3>1
    <3>3. CASE ToldOfLoss(n)
      BY <2>3, <2>6, <3>2, <3>3, LossKept
    <3>4. CASE pending[1].step = "payment_failed"
      <4>1. pending[1].step \in Telling
        BY <3>4 DEF Telling, Endings, Reasons
      <4>2. Latest' = n /\ pending[1].stage # "status"
        BY <1>10, <3>1, <4>1, WriteAt
      <4>3. \A i, w : i = Len(log) + 1 /\ w = pending[1] => Said(i, w, n)'
        BY <1>10, <4>2, WriteAt
      <4> QED
        BY <3>4, <4>3 DEF ToldOfLoss
    <3>5. CASE Due("payment_failed") /\ pending[1].step # "payment_failed"
      BY <2>1, <3>5 DEF Due
    <3> QED
      BY <3>1, <3>3, <3>4, <3>5 DEF LossInv
  <2> QED
    BY <2>2, <2>4, <2>5, <2>7 DEF LossInv
<1> QED
  BY <1>1, <1>5, <1>6, <1>7, <1>8, <1>9, <1>10 DEF Shapes

LEMMA MoneyInit == ViewInit => MoneyInv
<1> SUFFICES ASSUME ViewInit PROVE MoneyInv
  OBVIOUS
<1>1. LanesInv
  BY LanesInit
<1>2. pending = <<>> /\ log = <<>> /\ order = 0 /\ step = "none" /\ status = "failed" /\ result = "none"
  BY DEF ViewInit, PurchaseInit, Idle
<1>3. \A i, w, n : ~Said(i, w, n)
  BY <1>2 DEF Said
<1>4. \A kind : ~Due(kind)
  BY <1>2 DEF Due
<1>5. CountInv
  <2>1. Len(log) = 0
    BY <1>2
  <2>2. Latest = 1
    BY <2>1, OrderedNone DEF Latest
  <2>3. 1 \in Orders
    BY PurchaseAssumption DEF Orders
  <2> QED
    BY <1>2, <1>3, <2>2, <2>3 DEF CountInv
<1>6. PendingInv
  BY <1>2, <1>4 DEF PendingInv, Drained
<1>7. LogInv
  BY <1>2, <1>3 DEF LogInv
<1>8. LossInv
  BY <1>2 DEF LossInv
<1> QED
  BY <1>1, <1>5, <1>6, <1>7, <1>8 DEF MoneyInv

LEMMA MoneyStep == MoneyInv /\ [ViewNext]_viewVars => MoneyInv'
<1> SUFFICES ASSUME MoneyInv, [ViewNext]_viewVars PROVE MoneyInv'
  OBVIOUS
<1>1. LanesInv /\ CountInv /\ PendingInv /\ LogInv /\ LossInv
  BY DEF MoneyInv
<1>2. LanesInv'
  BY <1>1, LanesStep
<1>3. CountInv'
  BY <1>1, <1>2, CountStep
<1>4. PendingInv'
  BY <1>1, <1>2, PendingStep
<1>5. LogInv'
  BY <1>1, <1>2, <1>3, LogStep
<1>6. LossInv'
  BY <1>1, <1>2, <1>3, LossStep
<1> QED
  BY <1>2, <1>3, <1>4, <1>5, <1>6 DEF MoneyInv

\* What the page finds of order n is what was said of it.
LEMMA PurchasedSaid ==
  ASSUME LanesInv, CountInv, NEW n \in Nat, NEW i
  PROVE  /\ i \in Purchased(n) /\ log[i].step \in Telling => Said(i, log[i], n)
         /\ Said(i, log[i], n) /\ log[i].step \in Telling => i \in Purchased(n)
<1>1. ASSUME i \in Purchased(n), log[i].step \in Telling PROVE Said(i, log[i], n)
  <2>1. i \in DOMAIN log /\ i \in 1..Len(log) /\ Len(log) \in Nat
    BY <1>1 DEF Purchased, LanesInv, ViewTypeInv
  <2>2. Ordered(log, i) \in Nat
    BY <2>1, OrderedType
  <2>3. Said(i, log[i], 1 + Ordered(log, i))
    BY <2>1 DEF Said
  <2>4. log[i].stage = IF 1 + Ordered(log, i) = 1 THEN "diagnose" ELSE "fix"
    BY <1>1, <2>3 DEF CountInv
  <2>5. CASE n = 1
    BY <1>1, <2>1, <2>2, <2>4, <2>5 DEF Purchased, Said
  <2>6. CASE n # 1
    <3>1. Ordered(log, i) = n - 1 /\ log[i].stage = "fix"
      BY <1>1, <2>6 DEF Purchased
    <3>2. n = 1 + Ordered(log, i)
      BY <2>2, <3>1, <2>1
    <3> QED
      BY <2>3, <3>2
  <2> QED
    BY <2>5, <2>6
<1>2. ASSUME Said(i, log[i], n), log[i].step \in Telling PROVE i \in Purchased(n)
  <2>1. i \in DOMAIN log /\ i \in 1..Len(log) /\ Len(log) \in Nat /\ n = 1 + Ordered(log, i)
    BY <1>2 DEF Said, LanesInv, ViewTypeInv
  <2>2. Ordered(log, i) \in Nat
    BY <2>1, OrderedType
  <2>3. log[i].stage = IF n = 1 THEN "diagnose" ELSE "fix"
    BY <1>2 DEF CountInv
  <2> QED
    BY <2>1, <2>2, <2>3 DEF Purchased
<1> QED
  BY <1>1, <1>2



\* The greatest of some places, which is what the page picks.
LEMMA TheLast ==
  ASSUME NEW m \in Nat, NEW S \in SUBSET (1..m), S # {}
  PROVE  LET last == CHOOSE i \in S : \A j \in S : j <= i
         IN  /\ last \in S /\ \A j \in S : j <= last
             /\ \A i \in S : (\A j \in S : j <= i) => i = last
<1> DEFINE last == CHOOSE i \in S : \A j \in S : j <= i
<1>1. \E i \in S : \A j \in S : j <= i
  BY HasMax
<1>2. last \in S /\ \A j \in S : j <= last
  BY <1>1
<1> HIDE DEF last
<1>3. ASSUME NEW i \in S, \A j \in S : j <= i PROVE i = last
  BY <1>2, <1>3
<1> QED
  BY <1>2, <1>3 DEF last

\* Some of the steps of order n, as the page finds them and as the proof does.
LEMMA ThoseSaid ==
  ASSUME LanesInv, CountInv, NEW n \in Nat, NEW kinds \in SUBSET Telling
  PROVE  /\ Those(Purchased(n), kinds) \in SUBSET (1..Len(log)) /\ Len(log) \in Nat
         /\ \A i : i \in Those(Purchased(n), kinds) <=> Said(i, log[i], n) /\ log[i].step \in kinds
<1>1. \A i : i \in Those(Purchased(n), kinds) <=> i \in Purchased(n) /\ log[i].step \in kinds
  BY DEF Those
<1>2. DOMAIN log = 1..Len(log) /\ Len(log) \in Nat
  BY DEF LanesInv, ViewTypeInv
<1>3. Purchased(n) \subseteq DOMAIN log
  BY DEF Purchased
<1>4. \A i : log[i].step \in kinds => (i \in Purchased(n) <=> Said(i, log[i], n))
  BY PurchasedSaid
<1> QED
  BY <1>1, <1>2, <1>3, <1>4

\* Who is said to be paid.
LEMMA PaidIsTrue ==
  ASSUME MoneyInv, NEW n \in 1..Latest, SaysPaid(Purchased(n))
  PROVE  BillFor(n) = {Chosen(Purchased(n))}
<1> DEFINE S == Those(Purchased(n), {"selected"})
           last == CHOOSE i \in S : \A j \in S : j <= i
<1>1. /\ LanesInv /\ CountInv /\ LogInv /\ n \in Nat
  BY LatestType DEF MoneyInv, LanesInv
<1>2. {"selected"} \in SUBSET Telling /\ {"settled"} \in SUBSET Telling
  BY DEF Telling, Shopping, Endings
<1>3. /\ S \in SUBSET (1..Len(log)) /\ Len(log) \in Nat
      /\ \A i : i \in S <=> Said(i, log[i], n) /\ log[i].step \in {"selected"}
  BY <1>1, <1>2, ThoseSaid
<1>4. \E i : Said(i, log[i], n) /\ log[i].step = "settled"
  <2>1. \A i : i \in Those(Purchased(n), {"settled"}) <=> Said(i, log[i], n) /\ log[i].step \in {"settled"}
    BY <1>1, <1>2, ThoseSaid
  <2> QED
    BY <2>1 DEF SaysPaid
<1>5. PICK j, v : LastChosen(j, v, n) /\ PaidTo(n, v.provider)
  BY <1>1, <1>4 DEF LogInv, SettledTo
<1>6. j \in S /\ v = log[j]
  BY <1>3, <1>5 DEF LastChosen, Said
<1>7. \A k \in S : k <= j
  BY <1>3, <1>5 DEF LastChosen
<1>8. j = last
  <2> HIDE DEF S
  <2>1. S # {}
    BY <1>6
  <2> QED
    BY <1>3, <1>6, <1>7, <2>1, TheLast
<1>9. Chosen(Purchased(n)) = v.provider
  BY <1>6, <1>8 DEF Chosen
<1> QED
  BY <1>5, <1>9 DEF PaidTo

\* Who is said to have failed.
LEMMA FailedIsTrue ==
  ASSUME MoneyInv, NEW n \in 1..Latest, NEW i \in Those(Purchased(n), {"service_failed", "none_left"})
  PROVE  log[i].provider \notin BillFor(n)
<1>1. /\ LanesInv /\ CountInv /\ LogInv /\ n \in Nat
  BY LatestType DEF MoneyInv, LanesInv
<1>2. {"service_failed", "none_left"} \in SUBSET Telling
  BY DEF Telling, Endings, Reasons
<1>3. Said(i, log[i], n) /\ log[i].step \in {"service_failed", "none_left"}
  BY <1>1, <1>2, ThoseSaid
<1>4. Gone(n, log[i].provider)
  BY <1>1, <1>3 DEF LogInv, Right
<1> QED
  BY <1>4 DEF Gone, BillFor, BillOf, MayCharge

\* Why an order is said to have stopped, and where that is.
LEMMA StoppedSaid ==
  ASSUME LanesInv, CountInv, NEW n \in Nat, Stopped(Purchased(n)) # "nothing"
  PROVE  \E i : /\ Said(i, log[i], n) /\ log[i].step = Stopped(Purchased(n)) /\ log[i].step \in Reasons
                /\ \A j : Said(j, log[j], n) /\ log[j].step \in Endings => j <= i
<1> DEFINE S == Those(Purchased(n), Endings)
           last == CHOOSE i \in S : \A j \in S : j <= i
<1>1. Endings \in SUBSET Telling
  BY DEF Telling
<1>2. /\ S \in SUBSET (1..Len(log)) /\ Len(log) \in Nat
      /\ \A i : i \in S <=> Said(i, log[i], n) /\ log[i].step \in Endings
  BY <1>1, ThoseSaid
<1>3. Stopped(Purchased(n)) = IF S # {} /\ log[last].step \in Reasons THEN log[last].step ELSE "nothing"
  BY DEF Stopped
<1>4. S # {} /\ log[last].step \in Reasons /\ Stopped(Purchased(n)) = log[last].step
  BY <1>3
<1>5. last \in S /\ \A j \in S : j <= last
  <2> HIDE DEF S
  <2> QED
    BY <1>2, <1>4, TheLast
<1> HIDE DEF last
<1> QED
  BY <1>2, <1>4, <1>5

LEMMA StoppedIsTrue ==
  ASSUME MoneyInv, NEW n \in 1..Latest, Stopped(Purchased(n)) \notin {"nothing", "payment_failed"}
  PROVE  BillFor(n) = {}
<1>1. /\ LanesInv /\ CountInv /\ LogInv /\ n \in Nat
  BY LatestType DEF MoneyInv, LanesInv
<1>2. PICK i : Said(i, log[i], n) /\ log[i].step = Stopped(Purchased(n)) /\ log[i].step \in Reasons
  BY <1>1, StoppedSaid
<1>3. log[i].step \in Reasons \ {"payment_failed"}
  BY <1>2
<1>4. Right(log[i], n)
  BY <1>1, <1>2 DEF LogInv
<1> QED
  BY <1>3, <1>4 DEF Right, Clear

\* Who is said to be shopping.
LEMMA VerbIsTrue ==
  ASSUME MoneyInv, Verb \in {"shopping for a provider", "comparing quotes", "checking its policy"}
  PROVE  BillFor(Latest) = {} \/ Announced
<1>1. log # <<>> /\ log[Len(log)].step \in {"briefed", "discovered", "quote", "authorization", "selected"}
  BY DEF Verb
<1> QED
  BY <1>1 DEF MoneyInv, LogInv, Shopping

\* That nothing was paid for the one repair.
LEMMA NoRepairIsTrue ==
  ASSUME MoneyInv, SaysNoRepairPaid, Latest = 2, Stopped(Purchased(2)) # "payment_failed"
  PROVE  BillFor(2) = {}
<1>1. LanesInv /\ CountInv /\ LogInv /\ LossInv
  BY DEF MoneyInv
<1>2. ToldOfLoss(2)
  BY <1>1 DEF SaysNoRepairPaid, LossInv
<1>3. ASSUME NEW i, NEW w, Said(i, w, 2), w.step = "payment_failed" PROVE FALSE
  <2> DEFINE S == Those(Purchased(2), Endings)
             last == CHOOSE j \in S : \A k \in S : k <= j
  <2>1. w = log[i]
    BY <1>3 DEF Said
  <2>2. /\ S \in SUBSET (1..Len(log)) /\ Len(log) \in Nat
        /\ \A j : j \in S <=> Said(j, log[j], 2) /\ log[j].step \in Endings
    <3>1. Endings \in SUBSET Telling
      BY DEF Telling
    <3> QED
      BY <1>1, <3>1, ThoseSaid
  <2>3. i \in S /\ "payment_failed" \in Reasons
    BY <1>3, <2>1, <2>2 DEF Endings, Reasons
  <2>4. \A j \in S : ~(j > i)
    BY <1>1, <1>3, <2>2 DEF LogInv
  <2>5. \A j \in S : j <= i
    BY <2>2, <2>3, <2>4
  <2>6. i = last
    <3> HIDE DEF S
    <3> QED
      BY <2>2, <2>3, <2>5, TheLast
  <2>7. Stopped(Purchased(2)) = IF S # {} /\ log[last].step \in Reasons THEN log[last].step ELSE "nothing"
    BY DEF Stopped
  <2> HIDE DEF S, last
  <2> QED
    BY <1>3, <2>1, <2>3, <2>6, <2>7
<1> QED
  BY <1>2, <1>3 DEF ToldOfLoss

LEMMA MoneyFollows == MoneyInv => MoneyIsTrue
<1> SUFFICES ASSUME MoneyInv PROVE MoneyIsTrue
  OBVIOUS
<1>1. ASSUME NEW n \in 1..Latest, SaysPaid(Purchased(n)) PROVE BillFor(n) = {Chosen(Purchased(n))}
  BY <1>1, PaidIsTrue
<1>2. ASSUME NEW n \in 1..Latest, NEW i \in Those(Purchased(n), {"service_failed", "none_left"})
      PROVE  log[i].provider \notin BillFor(n)
  BY <1>2, FailedIsTrue
<1>3. ASSUME NEW n \in 1..Latest, Stopped(Purchased(n)) \notin {"nothing", "payment_failed"}
      PROVE  BillFor(n) = {}
  BY <1>3, StoppedIsTrue
<1>4. Verb \in {"shopping for a provider", "comparing quotes", "checking its policy"} =>
        BillFor(Latest) = {} \/ Announced
  BY VerbIsTrue
<1>5. SaysNoRepairPaid /\ Latest = 2 /\ Stopped(Purchased(2)) # "payment_failed" => BillFor(2) = {}
  BY NoRepairIsTrue
<1> QED
  BY <1>1, <1>2, <1>3, <1>4, <1>5 DEF MoneyIsTrue

\* autopilot.rs:307-463, main.rs:739-838 and Autopilot.tsx:403-424,691-766,
\* 803-847.  However many providers and orders there are, whichever orders
\* fail and however late their gateways answer, what the page says of money,
\* who was paid, who was not, why an order stopped and that nobody has been
\* asked to pay yet, is what became of it.
THEOREM MoneyIsToldTruly == ViewSpec => []MoneyIsTrue
<1>1. ViewInit => MoneyInv
  BY MoneyInit
<1>2. MoneyInv /\ [ViewNext]_viewVars => MoneyInv'
  BY MoneyStep
<1>3. MoneyInv => MoneyIsTrue
  BY MoneyFollows
<1> QED
  BY <1>1, <1>2, <1>3, PTL DEF ViewSpec
=============================================================================
