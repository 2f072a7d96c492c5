------------------------- MODULE HookHandshakeProofs -------------------------
(***************************************************************************)
(* The handshake for any set of renderers and any number of controller     *)
(* restarts, on firmware with and without the guard: Application.Update    *)
(* stays sound (HandshakeInv), and a renderer that considers itself ready  *)
(* renders where it may (ReadyIsPatched).                                  *)
(*                                                                         *)
(* Neither is inductive.  What a step may do to the code depends on what a *)
(* renderer knew when it wrote its request, which the controller may read, *)
(* serve and answer much later, for a renderer that has given up since; so *)
(* the invariant says what every request and every answer is worth,        *)
(* wherever it is: in a renderer, in the files or in the controller's      *)
(* hands.  What it says stays true because the three things it refers to   *)
(* only grow: the guard that is off stays off, an original target is       *)
(* published once, and a hook that is in place stays reachable.            *)
(***************************************************************************)
EXTENDS HookHandshake, TLAPS

------------------------------------------------------------------------------
(***************************************************************************)
(* Chains of hooks, as functions of the published originals o and of what  *)
(* the foreign hook calls, f.                                              *)
(***************************************************************************)
CallsIn(x, o, f) == IF x = "foreign" THEN f ELSE IF x \in Renderers THEN o[x] ELSE x
ClosedIn(S, o, f) == \A z \in S : CallsIn(z, o, f) \in S
ReachesIn(x, y, o, f) ==
    \A S \in SUBSET Callable : x \in S /\ ClosedIn(S, o, f) => y \in S

LEMMA ReachesAre == \A x, y : Reaches(x, y) <=> ReachesIn(x, y, original, foreignNext)
  BY DEF Reaches, Calls, ReachesIn, ClosedIn, CallsIn

\* A hook at the front of a chain reaches what the chain reached.
LEMMA ReachesThrough ==
    ASSUME NEW x, NEW y, NEW o, NEW f, ReachesIn(CallsIn(x, o, f), y, o, f)
    PROVE  ReachesIn(x, y, o, f)
  BY DEF ReachesIn, ClosedIn

\* Giving z, which called nothing, something to call cuts no chain.
LEMMA ReachesStill ==
    ASSUME HandshakeConstants,
           NEW x, NEW y, NEW z \in Callable, y \notin {z, "none"},
           NEW o, NEW f, NEW p, NEW g,
           CallsIn(z, o, f) = "none",
           \A w \in Callable : w # z => CallsIn(w, p, g) = CallsIn(w, o, f),
           ReachesIn(x, y, o, f)
    PROVE  ReachesIn(x, y, p, g)
<1> SUFFICES ASSUME NEW S \in SUBSET Callable, x \in S, ClosedIn(S, p, g)
             PROVE  y \in S
  BY DEF ReachesIn
<1> DEFINE T == S \cup {z, "none"}
<1>1. T \in SUBSET Callable /\ x \in T
  BY DEF Callable
<1>2. CallsIn("none", o, f) = "none"
  BY DEF CallsIn, HandshakeConstants
<1>3. ClosedIn(T, o, f)
  <2> SUFFICES ASSUME NEW w \in T PROVE CallsIn(w, o, f) \in T
    BY DEF ClosedIn
  <2>1. CASE w \in {z, "none"}
    BY <2>1, <1>2
  <2>2. CASE w \in S /\ w # z
    BY <2>2 DEF ClosedIn
  <2> QED BY <2>1, <2>2
<1>4. y \in T
  BY <1>1, <1>3 DEF ReachesIn
<1> QED BY <1>4

------------------------------------------------------------------------------
(***************************************************************************)
(* The inductive invariant.                                                *)
(***************************************************************************)

\* The renderers whose hook has become part of Application.Update, or had when
\* it was torn.
PlacedIn(u, o, f) ==
    {r \in Renderers : o[r] # "none" /\ (u = "torn" \/ ReachesIn(u, r, o, f))}
Placed == PlacedIn(update, original, foreignNext)

\* What a renderer knows that is at stage a, expects e and published o.
Knows(r, a, e, o, g, placed) ==
    /\ a = "guard" => e = "check"
    /\ a \in {"updateProbe", "update"} => ~ Supported
    /\ a \in {"absent", "guardProbe", "guard", "updateProbe"} => o = "none"
    /\ a = "update" => o = e /\ o \in Contents \ {"torn"}
    /\ a = "ready" => g = "ret" \/ r \in placed
RendererInv ==
    \A r \in Renderers : Knows(r, at[r], expected[r], original[r], guard, Placed)

\* A request asks only for what its renderer was entitled to ask for: to disable
\* a guard that is on, or, where there is none, for a hook whose original target
\* is published and was found in Application.Update.
Fair(q, o) ==
    /\ q.kind \in Stages /\ q.from \in Renderers
    /\ q.kind = "guard" => /\ q.nonce = <<"guard", "guard", "none", "none">>
                           /\ q.expected = "check"
    /\ q.kind = "guardProbe" => q.nonce = <<"hook", "guard", q.from, "none">>
    /\ q.kind = "updateProbe" => q.nonce = <<"hook", "update", q.from, "none">>
    /\ q.kind = "update" => /\ ~ Supported
                            /\ q.expected = o[q.from] /\ q.expected \in Contents \ {"torn"}
                            /\ q.nonce = <<"hook", "update", q.from, q.expected>>
RequestInv ==
    /\ requestFile \notin {NoFile, Short} => Fair(requestFile, original)
    /\ cpc \in {"consume", "stop", "patch", "answer"} => Fair(held, original)

\* An answer is worth, to whoever finds it under the nonce n, what its verdict v
\* and the observed bytes b say.
Worth(n, v, b, g, placed) ==
    /\ n = <<"guard", "guard", "none", "none">> =>
          /\ v = "accepted" => g = "ret"
          /\ v = "unsupported" => ~ Supported
    /\ \A r \in Renderers : n = <<"hook", "guard", r, "none">> /\ v = "read" =>
          b \in GuardBytes /\ (b = "ret" => g = "ret")
    /\ \A r \in Renderers : n = <<"hook", "update", r, "none">> /\ v = "read" => b \in Contents
    /\ \A r \in Renderers, x \in Contents :
          n = <<"hook", "update", r, x>> /\ v = "accepted" => r \in placed
AnswerInv ==
    /\ ackFile # NoFile => Worth(ackFile.nonce, ackFile.verdict, ackFile.observed, guard, Placed)
    /\ cpc = "answer" => Worth(held.nonce, verdict, observed, guard, Placed)

ProtocolInv ==
    /\ HandshakeConstants
    /\ TypeOK /\ RendererInv /\ RequestInv /\ AnswerInv
    /\ HooksCallThrough /\ GuardModeLeavesUpdate

------------------------------------------------------------------------------
LEMMA Words ==
    ASSUME HandshakeConstants
    PROVE  /\ "none" \notin Contents /\ "foreign" \notin Renderers /\ "none" \notin Renderers
           /\ "native" \notin Renderers /\ "torn" \notin Renderers
           /\ Renderers \subseteq Contents /\ Contents \subseteq Callable
  BY DEF HandshakeConstants, Contents, Callable

\* What was worth something stays worth it while guard and hooks only grow.
LEMMA WorthStays ==
    ASSUME NEW n, NEW v, NEW b, NEW g, NEW h, NEW P, NEW Q,
           Worth(n, v, b, g, P), g = "ret" => h = "ret", P \subseteq Q
    PROVE  Worth(n, v, b, h, Q)
  BY DEF Worth

LEMMA FairStays ==
    ASSUME HandshakeConstants, NEW q, NEW o, NEW p, Fair(q, o),
           \A r \in Renderers : o[r] # "none" => p[r] = o[r]
    PROVE  Fair(q, p)
  BY Words DEF Fair

LEMMA HandshakeInit == HandshakeConstants /\ Init => ProtocolInv
<1> SUFFICES ASSUME HandshakeConstants, Init PROVE ProtocolInv
  OBVIOUS
<1>1. TypeOK
  BY DEF Init, TypeOK, NoFile, GuardBytes, Contents
<1>2. RendererInv
  BY DEF Init, RendererInv, Knows
<1>3. RequestInv /\ AnswerInv
  BY DEF Init, RequestInv, AnswerInv
<1>4. HooksCallThrough /\ GuardModeLeavesUpdate
  BY DEF Init, HooksCallThrough, Reaches, GuardModeLeavesUpdate
<1> QED BY <1>1, <1>2, <1>3, <1>4 DEF ProtocolInv

\* The part of a step that all the others depend on.
Grows ==
    /\ guard = "ret" => guard' = "ret"
    /\ Placed \subseteq Placed'
    /\ \A r \in Renderers : original[r] # "none" => original'[r] = original[r]
    /\ HooksCallThrough' /\ GuardModeLeavesUpdate'

LEMMA CodeUnchangedGrows ==
    ASSUME ProtocolInv, UNCHANGED <<update, foreignNext, original>>,
           guard = "ret" => guard' = "ret"
    PROVE  Grows
  BY DEF ProtocolInv, Grows, Placed, HooksCallThrough, GuardModeLeavesUpdate, Reaches, Calls

\* A renderer publishes the original target of a hook that is not in place yet.
LEMMA PublishedGrows ==
    ASSUME ProtocolInv, UNCHANGED <<guard, update, foreignNext>>,
           NEW r \in Renderers, original[r] = "none",
           NEW c, original' = [original EXCEPT ![r] = c]
    PROVE  Grows
<1>1. /\ HandshakeConstants /\ original \in [Renderers -> Contents \cup {"none"}]
      /\ foreignNext' = foreignNext /\ update' = update
  BY DEF ProtocolInv, TypeOK
<1>2. \A s \in Renderers : original[s] # "none" => original'[s] = original[s]
  BY <1>1
<1>3. ASSUME NEW y, y \notin {r, "none"}, ReachesIn(update, y, original, foreignNext)
      PROVE  ReachesIn(update, y, original', foreignNext)
  <2>1. r \in Callable /\ CallsIn(r, original, foreignNext) = "none"
    BY <1>1, Words DEF CallsIn
  <2> DEFINE p == [original EXCEPT ![r] = c]
  <2>2. \A w \in Callable : w # r =>
           CallsIn(w, p, foreignNext) = CallsIn(w, original, foreignNext)
    BY <1>1 DEF CallsIn
  <2> HIDE DEF p
  <2>3. ReachesIn(update, y, p, foreignNext)
    BY <1>1, <1>3, <2>1, <2>2, ReachesStill
  <2> QED BY <2>3 DEF p
<1>4. Placed \subseteq Placed'
  <2> SUFFICES ASSUME NEW s \in Placed PROVE s \in PlacedIn(update, original', foreignNext)
    BY <1>1 DEF Placed
  <2>1. /\ s \in Renderers /\ original[s] # "none" /\ s # r /\ s # "none"
        /\ update = "torn" \/ ReachesIn(update, s, original, foreignNext)
    BY <1>1, Words DEF Placed, PlacedIn
  <2> QED BY <1>2, <1>3, <2>1 DEF PlacedIn
<1>5. HooksCallThrough'
  <2>1. "native" \notin {r, "none"}
    BY <1>1, Words
  <2>2. update # "torn" => ReachesIn(update, "native", original', foreignNext)
    BY <1>3, <2>1, ReachesAre DEF ProtocolInv, HooksCallThrough
  <2> QED BY <1>1, <2>2 DEF HooksCallThrough, Reaches, Calls, ReachesIn, ClosedIn, CallsIn
<1>6. GuardModeLeavesUpdate'
  BY <1>1 DEF ProtocolInv, GuardModeLeavesUpdate
<1> QED BY <1>2, <1>4, <1>5, <1>6 DEF Grows

\* The controller puts a hook in front of the one that it calls, or tears the code.
LEMMA HookedGrows ==
    ASSUME ProtocolInv, UNCHANGED <<guard, original, foreignNext>>, ~ Supported,
           NEW r \in Renderers, update = original[r], original[r] \in Contents \ {"torn"},
           update' \in {r, "torn"}
    PROVE  Grows /\ (update' = r => r \in Placed')
<1>1. /\ HandshakeConstants
      /\ foreignNext' = foreignNext /\ original' = original
  BY DEF ProtocolInv
<1>2. ASSUME NEW y, ReachesIn(update, y, original, foreignNext)
      PROVE  ReachesIn(r, y, original, foreignNext)
  <2>1. CallsIn(r, original, foreignNext) = update
    BY <1>1, Words DEF CallsIn
  <2> QED BY <1>2, <2>1, ReachesThrough
<1>3. Placed' = PlacedIn(update', original, foreignNext)
  BY <1>1 DEF Placed
<1>4. Placed \subseteq Placed'
  <2> SUFFICES ASSUME NEW s \in Placed PROVE s \in PlacedIn(update', original, foreignNext)
    BY <1>3
  <2>1. s \in Renderers /\ original[s] # "none" /\ ReachesIn(update, s, original, foreignNext)
    BY DEF Placed, PlacedIn
  <2>2. ReachesIn(r, s, original, foreignNext)
    BY <1>2, <2>1
  <2> QED BY <2>1, <2>2 DEF PlacedIn
<1>5. HooksCallThrough'
  <2>1. ReachesIn(update, "native", original, foreignNext)
    BY ReachesAre DEF ProtocolInv, HooksCallThrough
  <2>2. update' # "torn" => ReachesIn(update', "native", original, foreignNext)
    BY <1>2, <2>1
  <2> QED BY <1>1, <2>2 DEF HooksCallThrough, Reaches, Calls, ReachesIn, ClosedIn, CallsIn
<1>6. GuardModeLeavesUpdate'
  BY DEF GuardModeLeavesUpdate
<1>7. update' = r => r \in Placed'
  <2>1. original[r] # "none"
    BY <1>1, Words
  <2>2. ReachesIn(r, r, original, foreignNext)
    BY DEF ReachesIn
  <2> QED BY <1>3, <2>1, <2>2 DEF PlacedIn
<1> QED BY <1>1, <1>4, <1>5, <1>6, <1>7 DEF Grows

\* Another program does the same.
LEMMA ForeignGrows == ProtocolInv /\ ForeignHook => Grows
<1> SUFFICES ASSUME ProtocolInv, ForeignHook PROVE Grows
  OBVIOUS
<1>1. /\ HandshakeConstants /\ foreignNext = "none" /\ foreignNext' = update
      /\ update' = "foreign" /\ original' = original /\ guard' = guard
      /\ update \in {"native"} \cup Renderers
  BY DEF ProtocolInv, ForeignHook, renderer
<1>2. ASSUME NEW y, y \notin {"foreign", "none"}, ReachesIn(update, y, original, "none")
      PROVE  ReachesIn("foreign", y, original, update)
  <2>1. "foreign" \in Callable /\ CallsIn("foreign", original, "none") = "none"
    BY DEF CallsIn, Callable, Contents
  <2>2. \A w \in Callable : w # "foreign" =>
           CallsIn(w, original, update) = CallsIn(w, original, "none")
    BY DEF CallsIn
  <2>3. ReachesIn(update, y, original, update)
    BY <1>1, <1>2, <2>1, <2>2, ReachesStill
  <2>4. CallsIn("foreign", original, update) = update
    BY DEF CallsIn
  <2> QED BY <2>3, <2>4, ReachesThrough
<1>3. update # "torn"
  BY <1>1, Words
<1>4. Placed \subseteq Placed'
  <2> SUFFICES ASSUME NEW s \in Placed PROVE s \in PlacedIn("foreign", original, update)
    BY <1>1 DEF Placed
  <2>1. s \in Renderers /\ original[s] # "none" /\ ReachesIn(update, s, original, "none")
    BY <1>1, <1>3 DEF Placed, PlacedIn
  <2>2. s \notin {"foreign", "none"}
    BY <1>1, <2>1, Words
  <2> QED BY <1>2, <2>1, <2>2 DEF PlacedIn
<1>5. HooksCallThrough'
  <2>1. ReachesIn(update, "native", original, "none")
    BY <1>1, <1>3, ReachesAre DEF ProtocolInv, HooksCallThrough
  <2>2. ReachesIn("foreign", "native", original, update)
    BY <1>2, <2>1
  <2> QED BY <1>1, <2>2 DEF HooksCallThrough, Reaches, Calls, ReachesIn, ClosedIn, CallsIn
<1>6. GuardModeLeavesUpdate'
  BY <1>1 DEF GuardModeLeavesUpdate
<1> QED BY <1>1, <1>4, <1>5, <1>6 DEF Grows

------------------------------------------------------------------------------
(***************************************************************************)
(* What a step leaves alone stays true.                                    *)
(***************************************************************************)
Handling == {"consume", "stop", "patch", "answer"}

LEMMA KnowsStays ==
    ASSUME NEW r, NEW a, NEW e, NEW o, NEW g, NEW h, NEW P, NEW Q,
           Knows(r, a, e, o, g, P), g = "ret" => h = "ret", P \subseteq Q
    PROVE  Knows(r, a, e, o, h, Q)
  BY DEF Knows

LEMMA RenderersStay ==
    ASSUME ProtocolInv, Grows, UNCHANGED <<at, expected, original>>
    PROVE  RendererInv'
<1> SUFFICES ASSUME NEW r \in Renderers
             PROVE  Knows(r, at[r], expected[r], original[r], guard', Placed')
  BY DEF RendererInv
<1>1. Knows(r, at[r], expected[r], original[r], guard, Placed)
  BY DEF ProtocolInv, RendererInv
<1> QED BY <1>1, KnowsStays DEF Grows

\* One renderer moves on.
LEMMA RendererMoves ==
    ASSUME ProtocolInv, Grows, NEW r \in Renderers, NEW a, NEW e, NEW o,
           at' = [at EXCEPT ![r] = a], expected' = [expected EXCEPT ![r] = e],
           original' = [original EXCEPT ![r] = o],
           Knows(r, a, e, o, guard', Placed')
    PROVE  RendererInv'
<1> SUFFICES ASSUME NEW s \in Renderers
             PROVE  Knows(s, at'[s], expected'[s], original'[s], guard', Placed')
  BY DEF RendererInv
<1>2. CASE s = r
  <2>1. at'[r] = a /\ expected'[r] = e /\ original'[r] = o
    BY DEF ProtocolInv, TypeOK
  <2> QED BY <1>2, <2>1
<1>3. CASE s # r
  <2>1. at'[s] = at[s] /\ expected'[s] = expected[s] /\ original'[s] = original[s]
    BY <1>3 DEF ProtocolInv, TypeOK
  <2>2. Knows(s, at[s], expected[s], original[s], guard, Placed)
    BY DEF ProtocolInv, RendererInv
  <2>3. Knows(s, at[s], expected[s], original[s], guard', Placed')
    BY <2>2, KnowsStays DEF Grows
  <2> QED BY <2>1, <2>3
<1> QED BY <1>2, <1>3

LEMMA RequestsStay ==
    ASSUME ProtocolInv, Grows, requestFile' \in {requestFile, NoFile, Short},
           cpc' \in Handling => cpc \in Handling /\ held' = held
    PROVE  RequestInv'
<1>1. \A q : Fair(q, original) => Fair(q, original')
  BY FairStays DEF ProtocolInv, Grows
<1>2. requestFile' \notin {NoFile, Short} => Fair(requestFile', original')
  BY <1>1 DEF ProtocolInv, RequestInv
<1>3. cpc' \in Handling => Fair(held', original')
  BY <1>1 DEF ProtocolInv, RequestInv, Handling
<1> QED BY <1>2, <1>3 DEF RequestInv, Handling

LEMMA AnswersStay ==
    ASSUME ProtocolInv, Grows, ackFile' \in {ackFile, NoFile},
           cpc' = "answer" => cpc = "answer" /\ UNCHANGED <<held, verdict, observed>>
    PROVE  AnswerInv'
<1>1. ackFile' # NoFile =>
        Worth(ackFile'.nonce, ackFile'.verdict, ackFile'.observed, guard', Placed')
  <2> SUFFICES ASSUME ackFile' # NoFile
               PROVE  Worth(ackFile.nonce, ackFile.verdict, ackFile.observed, guard', Placed')
    OBVIOUS
  <2>1. Worth(ackFile.nonce, ackFile.verdict, ackFile.observed, guard, Placed)
    BY DEF ProtocolInv, AnswerInv
  <2> QED BY <2>1, WorthStays DEF Grows
<1>3. cpc' = "answer" => Worth(held'.nonce, verdict', observed', guard', Placed')
  <2> SUFFICES ASSUME cpc' = "answer" PROVE Worth(held.nonce, verdict, observed, guard', Placed')
    OBVIOUS
  <2>1. Worth(held.nonce, verdict, observed, guard, Placed)
    BY DEF ProtocolInv, AnswerInv
  <2> QED BY <2>1, WorthStays DEF Grows
<1> QED BY <1>1, <1>3 DEF AnswerInv

LEMMA Assemble ==
    ASSUME ProtocolInv, Grows, TypeOK', RendererInv', RequestInv', AnswerInv'
    PROVE  ProtocolInv'
  BY DEF ProtocolInv, Grows, HandshakeConstants

------------------------------------------------------------------------------
(***************************************************************************)
(* The renderer's steps.                                                   *)
(***************************************************************************)
LEMMA BeginPublishKeeps ==
    ASSUME ProtocolInv, NEW r \in Renderers, BeginPublish(r)
    PROVE  ProtocolInv'
<1>1. /\ requestFile' = Short /\ step' = [step EXCEPT ![r] = "writing"]
      /\ UNCHANGED <<ackFile, at, expected, original, online>>
      /\ UNCHANGED <<cpc, held, verdict, observed, injecting, restarts>>
      /\ UNCHANGED <<stopped, guard, update, foreignNext>>
  BY DEF BeginPublish, controller, console
<1>2. Grows
  BY <1>1, CodeUnchangedGrows
<1>3. TypeOK'
  BY <1>1 DEF ProtocolInv, TypeOK, Short
<1>4. RendererInv' /\ RequestInv' /\ AnswerInv'
  BY <1>1, <1>2, RenderersStay, RequestsStay, AnswersStay
<1> QED BY <1>2, <1>3, <1>4, Assemble

LEMMA EndPublishKeeps ==
    ASSUME ProtocolInv, NEW r \in Renderers, EndPublish(r)
    PROVE  ProtocolInv'
<1> DEFINE q == [kind |-> at[r], from |-> r, expected |-> expected[r], nonce |-> Nonce(r, at[r])]
<1>1. /\ requestFile' = q /\ step' = [step EXCEPT ![r] = "waiting"]
      /\ UNCHANGED <<ackFile, at, expected, original, online>>
      /\ UNCHANGED <<cpc, held, verdict, observed, injecting, restarts>>
      /\ UNCHANGED <<stopped, guard, update, foreignNext>>
  BY DEF EndPublish, controller, console
<1>2. Grows
  BY <1>1, CodeUnchangedGrows
<1>3. /\ q.kind = at[r] /\ q.from = r /\ q.expected = expected[r] /\ q.nonce = Nonce(r, at[r])
      /\ at[r] \in Stages
  BY DEF EndPublish, Running
<1>4. TypeOK'
  BY <1>1, <1>3 DEF ProtocolInv, TypeOK
<1>5. Fair(q, original)
  <2>1. Knows(r, at[r], expected[r], original[r], guard, Placed)
    BY DEF ProtocolInv, RendererInv
  <2> HIDE DEF q
  <2> QED BY <1>3, <2>1 DEF Knows, Fair, Nonce, Site, IsProbe, Stages
<1>6. RequestInv'
  <2> HIDE DEF q
  <2> QED BY <1>1, <1>5 DEF ProtocolInv, RequestInv
<1>7. RendererInv' /\ AnswerInv'
  BY <1>1, <1>2, RenderersStay, AnswersStay
<1> QED BY <1>2, <1>4, <1>6, <1>7, Assemble

\* A renderer that gives up leaves behind what it wrote.
LEMMA FailKeeps ==
    ASSUME ProtocolInv, NEW r \in Renderers, Fail(r), UNCHANGED <<files, online, controller, console>>
    PROVE  ProtocolInv'
<1>1. /\ at' = [at EXCEPT ![r] = "failed"] /\ step' = [step EXCEPT ![r] = "idle"]
      /\ UNCHANGED <<requestFile, ackFile, expected, original, online>>
      /\ UNCHANGED <<cpc, held, verdict, observed, injecting, restarts>>
      /\ UNCHANGED <<stopped, guard, update, foreignNext>>
  BY DEF Fail, files, controller, console
<1>2. Grows
  BY <1>1, CodeUnchangedGrows
<1>3. TypeOK'
  BY <1>1 DEF ProtocolInv, TypeOK, Ended
<1>4. RendererInv'
  <2>1. Knows(r, "failed", expected[r], original[r], guard', Placed')
    BY DEF Knows
  <2>2. /\ expected' = [expected EXCEPT ![r] = expected[r]]
        /\ original' = [original EXCEPT ![r] = original[r]]
    BY <1>1 DEF ProtocolInv, TypeOK
  <2>3. at' = [at EXCEPT ![r] = "failed"]
    BY <1>1
  <2> QED BY <1>2, <2>1, <2>2, <2>3, RendererMoves
<1>5. RequestInv' /\ AnswerInv'
  BY <1>1, <1>2, RequestsStay, AnswersStay
<1> QED BY <1>2, <1>3, <1>4, <1>5, Assemble

\* A renderer that found its answer goes on to stage a, expecting e and with the
\* original target o published, if it may know what that stage requires.
LEMMA EnterKeeps ==
    ASSUME ProtocolInv, NEW r \in Renderers, NEW a \in Stages \cup Ended, Enter(r, a),
           NEW e \in Contents \cup GuardBytes \cup {"none"}, expected' = [expected EXCEPT ![r] = e],
           NEW o \in Contents \cup {"none"}, original' = [original EXCEPT ![r] = o],
           original[r] \in {o, "none"},
           UNCHANGED <<files, online, controller, console>>,
           Knows(r, a, e, o, guard, Placed)
    PROVE  ProtocolInv'
<1>1. /\ at' = [at EXCEPT ![r] = a]
      /\ \E s \in {"idle", "publish"} : step' = [step EXCEPT ![r] = s]
      /\ UNCHANGED <<requestFile, ackFile, online>>
      /\ UNCHANGED <<cpc, held, verdict, observed, injecting, restarts>>
      /\ UNCHANGED <<stopped, guard, update, foreignNext>>
  BY DEF Enter, files, controller, console
<1>2. Grows
  <2>1. CASE original[r] = o
    <3>1. original' = original
      BY <2>1 DEF ProtocolInv, TypeOK
    <3> QED BY <1>1, <3>1, CodeUnchangedGrows
  <2>2. CASE original[r] = "none"
    BY <1>1, <2>2, PublishedGrows
  <2> QED BY <2>1, <2>2
<1>3. TypeOK'
  BY <1>1 DEF ProtocolInv, TypeOK
<1>4. RendererInv'
  <2>1. Knows(r, a, e, o, guard', Placed')
    BY <1>2, KnowsStays DEF Grows
  <2> QED BY <1>1, <1>2, <2>1, RendererMoves
<1>5. RequestInv' /\ AnswerInv'
  BY <1>1, <1>2, RequestsStay, AnswersStay
<1> QED BY <1>2, <1>3, <1>4, <1>5, Assemble

LEMMA SeeAckKeeps ==
    ASSUME ProtocolInv, NEW r \in Renderers, SeeAck(r)
    PROVE  ProtocolInv'
<1> DEFINE v == ackFile.verdict
<1> DEFINE b == ackFile.observed
<1>1. /\ HandshakeConstants /\ UNCHANGED <<files, online, controller, console>>
      /\ Knows(r, at[r], expected[r], original[r], guard, Placed)
      /\ Worth(Nonce(r, at[r]), v, b, guard, Placed)
      /\ expected \in [Renderers -> Contents \cup GuardBytes \cup {"none"}]
      /\ original \in [Renderers -> Contents \cup {"none"}]
  BY DEF SeeAck, AckIsMine, ProtocolInv, RendererInv, AnswerInv, TypeOK
<1> HIDE DEF v, b
<1>2. ASSUME UNCHANGED <<expected, original>>
      PROVE  /\ expected' = [expected EXCEPT ![r] = expected[r]]
             /\ original' = [original EXCEPT ![r] = original[r]]
             /\ expected[r] \in Contents \cup GuardBytes \cup {"none"}
             /\ original[r] \in Contents \cup {"none"}
  BY <1>1, <1>2
<1>3. CASE Fail(r)
  BY <1>1, <1>3, FailKeeps
<1>4. CASE SeeGuardProbe(r) /\ ~ Fail(r)
  <2> DEFINE a == IF b = "ret" THEN "ready" ELSE "guard"
  <2>1. /\ at[r] = "guardProbe" /\ v = "read"
        /\ expected' = [expected EXCEPT ![r] = b] /\ original' = original /\ Enter(r, a)
    BY <1>4 DEF SeeGuardProbe, v, b
  <2>2. b \in GuardBytes /\ (b = "ret" => guard = "ret")
    BY <1>1, <2>1 DEF Worth, Nonce, Site, IsProbe
  <2>3. original' = [original EXCEPT ![r] = original[r]] /\ original[r] = "none"
    BY <1>1, <2>1 DEF Knows
  <2>4. Knows(r, a, b, original[r], guard, Placed)
    BY <2>2, <2>3 DEF Knows, GuardBytes
  <2>5. a \in Stages \cup Ended
    BY DEF Stages, Ended
  <2> HIDE DEF a
  <2> QED BY <1>1, <2>1, <2>2, <2>3, <2>4, <2>5, EnterKeeps
<1>5. CASE SeeGuard(r) /\ ~ Fail(r)
  <2>1. /\ at[r] = "guard" /\ UNCHANGED <<expected, original>>
        /\ \/ v = "unsupported" /\ Enter(r, "updateProbe")
           \/ v = "accepted" /\ Enter(r, "ready")
    BY <1>5 DEF SeeGuard, v
  <2>2. /\ v = "accepted" => guard = "ret"
        /\ v = "unsupported" => ~ Supported
    BY <1>1, <2>1 DEF Worth, Nonce
  <2>3. original[r] = "none"
    BY <1>1, <2>1 DEF Knows
  <2>4. CASE v = "unsupported" /\ Enter(r, "updateProbe")
    <3>1. Knows(r, "updateProbe", expected[r], original[r], guard, Placed)
      BY <2>2, <2>3, <2>4 DEF Knows
    <3>2. "updateProbe" \in Stages \cup Ended
      BY DEF Stages
    <3> QED BY <1>1, <1>2, <2>1, <2>4, <3>1, <3>2, EnterKeeps
  <2>5. CASE v = "accepted" /\ Enter(r, "ready")
    <3>1. Knows(r, "ready", expected[r], original[r], guard, Placed)
      BY <2>2, <2>5 DEF Knows
    <3>2. "ready" \in Stages \cup Ended
      BY DEF Ended
    <3> QED BY <1>1, <1>2, <2>1, <2>5, <3>1, <3>2, EnterKeeps
  <2> QED BY <2>1, <2>4, <2>5
<1>6. CASE SeeUpdateProbe(r) /\ ~ Fail(r)
  <2>1. /\ at[r] = "updateProbe" /\ v = "read" /\ b \notin {r, "torn"}
        /\ expected' = [expected EXCEPT ![r] = b]
        /\ original' = [original EXCEPT ![r] = b] /\ Enter(r, "update")
    BY <1>6 DEF SeeUpdateProbe, v, b
  <2>2. b \in Contents
    BY <1>1, <2>1 DEF Worth, Nonce, Site, IsProbe
  <2>3. original[r] = "none" /\ ~ Supported
    BY <1>1, <2>1 DEF Knows
  <2>4. Knows(r, "update", b, b, guard, Placed)
    BY <2>1, <2>2, <2>3 DEF Knows
  <2>5. "update" \in Stages \cup Ended
    BY DEF Stages
  <2> QED BY <1>1, <2>1, <2>2, <2>3, <2>4, <2>5, EnterKeeps
<1>7. CASE SeeUpdate(r) /\ ~ Fail(r)
  <2>1. /\ at[r] = "update" /\ v = "accepted"
        /\ UNCHANGED <<expected, original>> /\ Enter(r, "ready")
    BY <1>7 DEF SeeUpdate, v
  <2>2. original[r] \in Contents
    BY <1>1, <2>1 DEF Knows
  <2>3. r \in Placed
    BY <1>1, <2>1, <2>2 DEF Worth, Nonce, Site, IsProbe
  <2>4. Knows(r, "ready", expected[r], original[r], guard, Placed)
    BY <2>3 DEF Knows
  <2>5. "ready" \in Stages \cup Ended
    BY DEF Ended
  <2> QED BY <1>1, <1>2, <2>1, <2>4, <2>5, EnterKeeps
<1> QED BY <1>3, <1>4, <1>5, <1>6, <1>7 DEF SeeAck

LEMMA WriteMarkerKeeps ==
    ASSUME ProtocolInv, NEW r \in Renderers, WriteMarker(r)
    PROVE  ProtocolInv'
<1>1. /\ online' = TRUE
      /\ UNCHANGED <<requestFile, ackFile, at, step, expected, original>>
      /\ UNCHANGED <<cpc, held, verdict, observed, injecting, restarts>>
      /\ UNCHANGED <<stopped, guard, update, foreignNext>>
  BY DEF WriteMarker, files, controller, console
<1>2. Grows
  BY <1>1, CodeUnchangedGrows
<1>3. TypeOK'
  BY <1>1 DEF ProtocolInv, TypeOK
<1>4. RendererInv' /\ RequestInv' /\ AnswerInv'
  BY <1>1, <1>2, RenderersStay, RequestsStay, AnswersStay
<1> QED BY <1>2, <1>3, <1>4, Assemble

------------------------------------------------------------------------------
(***************************************************************************)
(* The controller's steps.                                                 *)
(***************************************************************************)
LEMMA InjectKeeps ==
    ASSUME ProtocolInv, NEW r \in Renderers, Inject(r)
    PROVE  ProtocolInv'
<1>1. /\ requestFile' = NoFile /\ ackFile' = NoFile
      /\ at' = [at EXCEPT ![r] = "guardProbe"] /\ step' = [step EXCEPT ![r] = "publish"]
      /\ cpc' = "poll" /\ injecting' = FALSE
      /\ UNCHANGED <<expected, original, online, held, verdict, observed, restarts>>
      /\ UNCHANGED <<stopped, guard, update, foreignNext>>
  BY DEF Inject, console
<1>2. Grows
  BY <1>1, CodeUnchangedGrows
<1>3. TypeOK'
  BY <1>1 DEF ProtocolInv, TypeOK, NoFile, Stages
<1>4. RendererInv'
  <2>1. original[r] = "none"
    BY DEF Inject, ProtocolInv, RendererInv, Knows
  <2>2. Knows(r, "guardProbe", expected[r], original[r], guard', Placed')
    BY <2>1 DEF Knows
  <2>3. /\ expected' = [expected EXCEPT ![r] = expected[r]]
        /\ original' = [original EXCEPT ![r] = original[r]]
    BY <1>1 DEF ProtocolInv, TypeOK
  <2>4. at' = [at EXCEPT ![r] = "guardProbe"]
    BY <1>1
  <2> QED BY <1>2, <2>2, <2>3, <2>4, RendererMoves
<1>5. RequestInv' /\ AnswerInv'
  BY <1>1, <1>2, RequestsStay, AnswersStay DEF Handling
<1> QED BY <1>2, <1>3, <1>4, <1>5, Assemble

LEMMA EndWaitKeeps == ProtocolInv /\ EndWait => ProtocolInv'
<1> SUFFICES ASSUME ProtocolInv, EndWait PROVE ProtocolInv'
  OBVIOUS
<1>1. /\ cpc' = "away" /\ UNCHANGED <<held, verdict, observed, injecting, restarts>>
      /\ UNCHANGED <<requestFile, ackFile, at, step, expected, original, online>>
      /\ UNCHANGED <<stopped, guard, update, foreignNext>>
  BY DEF EndWait, files, renderer, console
<1>2. Grows
  BY <1>1, CodeUnchangedGrows
<1>3. TypeOK'
  BY <1>1 DEF ProtocolInv, TypeOK
<1>4. RendererInv' /\ RequestInv' /\ AnswerInv'
  BY <1>1, <1>2, RenderersStay, RequestsStay, AnswersStay DEF Handling
<1> QED BY <1>2, <1>3, <1>4, Assemble

LEMMA ReadRequestKeeps == ProtocolInv /\ ReadRequest => ProtocolInv'
<1> SUFFICES ASSUME ProtocolInv, ReadRequest PROVE ProtocolInv'
  OBVIOUS
<1>1. /\ requestFile \notin {NoFile, Short} /\ held' = requestFile /\ cpc' = "consume"
      /\ UNCHANGED <<verdict, observed, injecting, restarts>>
      /\ UNCHANGED <<requestFile, ackFile, at, step, expected, original, online>>
      /\ UNCHANGED <<stopped, guard, update, foreignNext>>
  BY DEF ReadRequest, files, renderer, console
<1>2. Grows
  BY <1>1, CodeUnchangedGrows
<1>3. TypeOK'
  BY <1>1 DEF ProtocolInv, TypeOK
<1>4. RequestInv'
  <2>1. Fair(requestFile, original)
    BY <1>1 DEF ProtocolInv, RequestInv
  <2> QED BY <1>1, <2>1 DEF RequestInv
<1>5. RendererInv' /\ AnswerInv'
  BY <1>1, <1>2, RenderersStay, AnswersStay
<1> QED BY <1>2, <1>3, <1>4, <1>5, Assemble

LEMMA ConsumeRequestKeeps == ProtocolInv /\ ConsumeRequest => ProtocolInv'
<1> SUFFICES ASSUME ProtocolInv, ConsumeRequest PROVE ProtocolInv'
  OBVIOUS
<1>1. /\ cpc = "consume" /\ requestFile' = NoFile /\ observed' = "none"
      /\ UNCHANGED <<held, injecting, restarts>>
      /\ UNCHANGED <<ackFile, at, step, expected, original, online>>
      /\ UNCHANGED <<stopped, guard, update, foreignNext>>
  BY DEF ConsumeRequest, renderer, console
<1>2. \/ held.kind = "guard" /\ ~ Supported /\ verdict' = "unsupported" /\ cpc' = "answer"
      \/ verdict' = "none" /\ cpc' = "stop"
  BY DEF ConsumeRequest, GuardSupported
<1>3. Grows
  BY <1>1, CodeUnchangedGrows
<1>4. TypeOK'
  BY <1>1, <1>2 DEF ProtocolInv, TypeOK, NoFile
<1>5. RendererInv' /\ RequestInv'
  BY <1>1, <1>2, <1>3, RenderersStay, RequestsStay DEF Handling
<1>6. AnswerInv'
  <2>1. CASE verdict' = "none" /\ cpc' = "stop"
    BY <1>1, <1>3, <2>1, AnswersStay
  <2>2. CASE ~ Supported /\ verdict' = "unsupported" /\ cpc' = "answer"
    <3>1. Worth(held.nonce, "unsupported", "none", guard', Placed')
      BY <2>2 DEF Worth
    <3>2. ackFile # NoFile =>
            Worth(ackFile.nonce, ackFile.verdict, ackFile.observed, guard', Placed')
      BY <1>3, WorthStays DEF ProtocolInv, AnswerInv, Grows
    <3> QED BY <1>1, <2>2, <3>1, <3>2 DEF AnswerInv
  <2> QED BY <1>2, <2>1, <2>2
<1> QED BY <1>3, <1>4, <1>5, <1>6, Assemble

LEMMA StopShellUiKeeps ==
    ASSUME ProtocolInv, NEW ok \in BOOLEAN, StopShellUi(ok)
    PROVE  ProtocolInv'
<1>1. /\ cpc = "stop" /\ stopped' = ok /\ UNCHANGED <<held, observed, injecting, restarts>>
      /\ UNCHANGED <<requestFile, ackFile, at, step, expected, original, online>>
      /\ UNCHANGED <<guard, update, foreignNext>>
  BY DEF StopShellUi, files, renderer
<1>2. cpc' = "patch" \/ (cpc' = "answer" /\ verdict' = "unchanged")
  BY DEF StopShellUi
<1>3. Grows
  BY <1>1, CodeUnchangedGrows
<1>4. TypeOK'
  BY <1>1, <1>2 DEF ProtocolInv, TypeOK
<1>5. RendererInv' /\ RequestInv'
  BY <1>1, <1>2, <1>3, RenderersStay, RequestsStay DEF Handling
<1>6. AnswerInv'
  <2>1. Worth(held.nonce, "unchanged", observed, guard', Placed')
    BY DEF Worth
  <2>2. ackFile # NoFile =>
          Worth(ackFile.nonce, ackFile.verdict, ackFile.observed, guard', Placed')
    BY <1>3, WorthStays DEF ProtocolInv, AnswerInv, Grows
  <2> QED BY <1>1, <1>2, <2>1, <2>2 DEF AnswerInv
<1> QED BY <1>3, <1>4, <1>5, <1>6, Assemble

\* The transaction: its verdict is worth what it will be taken for, whoever reads
\* it, and it changes Application.Update only by a hook that knows what to call.
LEMMA TransactKeeps ==
    ASSUME ProtocolInv, NEW v \in {"read", "accepted", "unchanged", "unknown"},
           NEW is \in Contents \cup GuardBytes, Transact(v, is)
    PROVE  ProtocolInv'
<1>1. /\ cpc = "patch" /\ verdict' = v /\ stopped' = FALSE /\ cpc' = "answer"
      /\ UNCHANGED <<held, injecting, restarts, foreignNext>>
      /\ UNCHANGED <<requestFile, ackFile, at, step, expected, original, online>>
  BY DEF Transact, files, renderer
<1>2. /\ HandshakeConstants /\ Fair(held, original)
      /\ guard \in GuardBytes /\ update \in Contents
  BY <1>1 DEF ProtocolInv, RequestInv, TypeOK
<1>3. ASSUME Grows, guard' \in GuardBytes, update' \in Contents,
             Worth(held.nonce, v, observed', guard', Placed')
      PROVE  ProtocolInv'
  <2>1. TypeOK'
    BY <1>1, <1>3 DEF ProtocolInv, TypeOK
  <2>2. RendererInv' /\ RequestInv'
    BY <1>1, <1>3, RenderersStay, RequestsStay DEF Handling
  <2>3. ackFile # NoFile =>
          Worth(ackFile.nonce, ackFile.verdict, ackFile.observed, guard', Placed')
    BY <1>3, WorthStays DEF ProtocolInv, AnswerInv, Grows
  <2>4. AnswerInv'
    BY <1>1, <1>3, <2>3 DEF AnswerInv
  <2> QED BY <1>3, <2>1, <2>2, <2>4, Assemble
<1>4. CASE IsProbe(held.kind)
  <2>1. /\ v \in {"read", "unchanged"} /\ UNCHANGED <<guard, update>>
        /\ observed' = (IF Site(held.kind) = "guard" THEN guard ELSE update)
    BY <1>4 DEF Transact, IsProbe
  <2>2. Grows
    BY <1>1, <2>1, CodeUnchangedGrows
  <2>3. CASE held.kind = "guardProbe"
    <3>1. held.nonce = <<"hook", "guard", held.from, "none">> /\ observed' = guard
      BY <1>2, <2>1, <2>3 DEF Fair, Site
    <3>2. Worth(held.nonce, v, observed', guard', Placed')
      BY <1>2, <2>1, <3>1 DEF Worth
    <3> QED BY <1>2, <1>3, <2>1, <2>2, <3>2
  <2>4. CASE held.kind = "updateProbe"
    <3>1. held.nonce = <<"hook", "update", held.from, "none">> /\ observed' = update
      BY <1>2, <2>1, <2>4 DEF Fair, Site
    <3>2. Worth(held.nonce, v, observed', guard', Placed')
      BY <1>2, <2>1, <3>1 DEF Worth
    <3> QED BY <1>2, <1>3, <2>1, <2>2, <3>2
  <2> QED BY <1>4, <2>3, <2>4 DEF IsProbe
<1>5. CASE held.kind = "guard"
  <2>1. /\ is \in GuardBytes /\ guard' = is /\ UNCHANGED <<update, observed>>
        /\ \/ v = "accepted" /\ guard = held.expected /\ is = "ret"
           \/ v = "unchanged" /\ is = guard
           \/ v = "unknown" /\ guard = held.expected
    BY <1>5 DEF Transact, IsProbe, Truthful, Patch!Truthful
  <2>2. held.expected = "check" /\ held.nonce = <<"guard", "guard", "none", "none">>
    BY <1>2, <1>5 DEF Fair
  <2>3. Grows
    BY <1>1, <2>1, <2>2, CodeUnchangedGrows
  <2>4. Worth(held.nonce, v, observed', guard', Placed')
    BY <2>1, <2>2 DEF Worth
  <2> QED BY <1>2, <1>3, <2>1, <2>3, <2>4
<1>6. CASE held.kind = "update"
  <2>1. /\ is \in {update, held.from, "torn"} /\ update' = is /\ UNCHANGED <<guard, observed>>
        /\ \/ v = "accepted" /\ update = held.expected /\ is = held.from
           \/ v = "unchanged" /\ is = update
           \/ v = "unknown" /\ update = held.expected
    BY <1>6 DEF Transact, IsProbe, Truthful, Patch!Truthful
  <2>2. /\ ~ Supported /\ held.from \in Renderers /\ held.expected = original[held.from]
        /\ held.expected \in Contents \ {"torn"}
        /\ held.nonce = <<"hook", "update", held.from, held.expected>>
    BY <1>2, <1>6 DEF Fair
  <2>3. update' \in Contents /\ held.expected # "none"
    BY <1>2, <2>1, <2>2, Words DEF Contents
  <2>4. Grows /\ (v = "accepted" => held.from \in Placed')
    <3>1. CASE v # "accepted" /\ is = update
      BY <1>1, <2>1, <3>1, CodeUnchangedGrows
    <3>2. CASE update = held.expected /\ is \in {held.from, "torn"}
      BY <1>1, <2>1, <2>2, <3>2, HookedGrows
    <3> QED BY <2>1, <3>1, <3>2
  <2>5. Worth(held.nonce, v, observed', guard', Placed')
    BY <2>1, <2>2, <2>3, <2>4 DEF Worth
  <2> QED BY <1>2, <1>3, <2>1, <2>3, <2>4, <2>5
<1> QED BY <1>4, <1>5, <1>6 DEF Transact

LEMMA AnswerKeeps ==
    ASSUME ProtocolInv, NEW ok \in BOOLEAN, Answer(ok)
    PROVE  ProtocolInv'
<1> DEFINE k == [kind |-> held.kind, nonce |-> held.nonce,
                 verdict |-> verdict, observed |-> observed]
<1>1. /\ cpc = "answer" /\ ackFile' \in {ackFile, k} /\ cpc' = "poll"
      /\ UNCHANGED <<held, verdict, observed, injecting, restarts>>
      /\ UNCHANGED <<requestFile, at, step, expected, original, online>>
      /\ UNCHANGED <<stopped, guard, update, foreignNext>>
  BY DEF Answer, renderer, console
<1>2. k.kind = held.kind /\ k.nonce = held.nonce /\ k.verdict = verdict /\ k.observed = observed
  OBVIOUS
<1> HIDE DEF k
<1>3. Grows
  BY <1>1, CodeUnchangedGrows
<1>4. TypeOK'
  <2>1. held.kind \in Stages
    BY <1>1 DEF ProtocolInv, RequestInv, Fair
  <2> QED BY <1>1, <1>2, <2>1 DEF ProtocolInv, TypeOK
<1>5. RendererInv' /\ RequestInv'
  BY <1>1, <1>3, RenderersStay, RequestsStay DEF Handling
<1>6. AnswerInv'
  <2>1. CASE ackFile' = k
    <3>1. Worth(held.nonce, verdict, observed, guard, Placed)
      BY <1>1 DEF ProtocolInv, AnswerInv
    <3>2. Worth(k.nonce, k.verdict, k.observed, guard', Placed')
      BY <1>2, <1>3, <3>1, WorthStays DEF Grows
    <3> QED BY <1>1, <2>1, <3>2 DEF AnswerInv
  <2>2. CASE ackFile' = ackFile
    BY <1>1, <1>3, <2>2, AnswersStay
  <2> QED BY <1>1, <2>1, <2>2
<1> QED BY <1>3, <1>4, <1>5, <1>6, Assemble

LEMMA RestartKeeps == ProtocolInv /\ Restart => ProtocolInv'
<1> SUFFICES ASSUME ProtocolInv, Restart PROVE ProtocolInv'
  OBVIOUS
<1>1. /\ cpc' = "away" /\ injecting' = TRUE
      /\ UNCHANGED <<requestFile, ackFile, at, step, expected, original, online>>
      /\ UNCHANGED <<stopped, guard, update, foreignNext>>
  BY DEF Restart, files, renderer, console
<1>2. Grows
  BY <1>1, CodeUnchangedGrows
<1>3. TypeOK'
  BY <1>1 DEF ProtocolInv, TypeOK
<1>4. RendererInv' /\ RequestInv' /\ AnswerInv'
  BY <1>1, <1>2, RenderersStay, RequestsStay, AnswersStay DEF Handling
<1> QED BY <1>2, <1>3, <1>4, Assemble

LEMMA ForeignHookKeeps == ProtocolInv /\ ForeignHook => ProtocolInv'
<1> SUFFICES ASSUME ProtocolInv, ForeignHook PROVE ProtocolInv'
  OBVIOUS
<1>1. /\ update \in {"native"} \cup Renderers /\ foreignNext' = update /\ update' = "foreign"
      /\ UNCHANGED <<requestFile, ackFile, at, step, expected, original, online>>
      /\ UNCHANGED <<cpc, held, verdict, observed, injecting, restarts, stopped, guard>>
  BY DEF ForeignHook, files, renderer, controller
<1>2. Grows
  BY ForeignGrows
<1>3. TypeOK'
  BY <1>1 DEF ProtocolInv, TypeOK, Contents
<1>4. RendererInv' /\ RequestInv' /\ AnswerInv'
  BY <1>1, <1>2, RenderersStay, RequestsStay, AnswersStay
<1> QED BY <1>2, <1>3, <1>4, Assemble

------------------------------------------------------------------------------
LEMMA HandshakeStep == ProtocolInv /\ [Next]_vars => ProtocolInv'
<1> SUFFICES ASSUME ProtocolInv, [Next]_vars PROVE ProtocolInv'
  OBVIOUS
<1>1. ASSUME NEW r \in Renderers, RendererStep(r) PROVE ProtocolInv'
  <2>1. CASE PublishFails(r) \/ AckTimeout(r)
    BY <2>1, FailKeeps DEF PublishFails, AckTimeout
  <2> QED BY <1>1, <2>1, BeginPublishKeeps, EndPublishKeeps, SeeAckKeeps, WriteMarkerKeeps
          DEF RendererStep
<1>2. CASE ControllerStep
  BY <1>2, EndWaitKeeps, ReadRequestKeeps, ConsumeRequestKeeps, StopShellUiKeeps,
     AnswerKeeps, TransactKeeps, InjectKeeps DEF ControllerStep
<1>3. CASE Restart
  BY <1>3, RestartKeeps
<1>4. CASE ForeignHook
  BY <1>4, ForeignHookKeeps
<1>5. CASE UNCHANGED vars
  <2>1. /\ UNCHANGED <<requestFile, ackFile, at, step, expected, original, online>>
        /\ UNCHANGED <<cpc, held, verdict, observed, injecting, restarts>>
        /\ UNCHANGED <<stopped, guard, update, foreignNext>>
    BY <1>5 DEF vars, files, renderer, controller, console
  <2>2. Grows
    BY <2>1, CodeUnchangedGrows
  <2>3. TypeOK'
    BY <2>1 DEF ProtocolInv, TypeOK
  <2>4. RendererInv' /\ RequestInv' /\ AnswerInv'
    BY <2>1, <2>2, RenderersStay, RequestsStay, AnswersStay
  <2> QED BY <2>2, <2>3, <2>4, Assemble
<1> QED BY <1>1, <1>2, <1>3, <1>4, <1>5 DEF Next

LEMMA ProtocolIsSound == ProtocolInv => HandshakeInv /\ ReadyIsPatched
<1>1. ProtocolInv => HandshakeInv
  BY DEF ProtocolInv, HandshakeInv
<1>2. ProtocolInv => ReadyIsPatched
  BY ReachesAre DEF ProtocolInv, ReadyIsPatched, RendererInv, Knows, Placed, PlacedIn
<1> QED BY <1>1, <1>2

\* Whatever the renderers, the restarts of the controller and the firmware,
\* Application.Update stays sound and a ready renderer is patched in: publishing,
\* serving and answering (publish_hook_request, the controller's wait,
\* install_update_hook) may be interleaved and cut short in any way.
THEOREM HandshakeIsSound ==
    HandshakeConstants /\ Spec => [](HandshakeInv /\ ReadyIsPatched)
  BY HandshakeInit, HandshakeStep, ProtocolIsSound, PTL DEF Spec
=============================================================================
