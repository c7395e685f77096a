------------------------ MODULE SearchSessionProofs ------------------------
(* For any addresses, types, lengths and number of scans in flight, and with *)
(* requests overlapping in any way: the candidates share one width.          *)
EXTENDS SearchSession, TLAPS

\* What a scan in flight must guarantee for its result to be uniform: the
\* entries it has still to read will be read at one width, which is the width of
\* what it found so far; each address comes up once; and it holds no entry before
\* it reaches the reads.
ScanUniform(a) ==
    LET l == ctx[a] IN
    /\ \A c, d \in l.left : WidthAt(l, c) = WidthAt(l, d)
    /\ \A c \in l.left, d \in l.found : WidthAt(l, c) = d.w
    /\ \A c, d \in l.found : c.w = d.w
    /\ \A c, d \in l.left : c.addr = d.addr => c = d
    /\ \A c, d \in l.found : c.addr = d.addr => c = d
    /\ \A c \in l.left, d \in l.found : c.addr # d.addr
    /\ pc[a] # "read" => l.found = {}
    /\ pc[a] # "read" /\ (l.mode # "search" \/ pc[a] # "maps") => l.left = {}

IInv == TypeOK /\ UniformWidth /\ \A a \in Actors : ScanUniform(a)

LEMMA IdleType == Idle \in Locals
  BY SessionAssumption DEF Idle, Locals, Candidate

LEMMA InitIInv == Init => IInv
<1> SUFFICES ASSUME Init PROVE IInv
  OBVIOUS
<1>1. TypeOK
  BY IdleType DEF Init, TypeOK, Labels
<1>2. UniformWidth
  BY DEF Init, UniformWidth
<1>3. \A a \in Actors : ScanUniform(a)
  BY DEF Init, ScanUniform, Idle
<1> QED
  BY <1>1, <1>2, <1>3 DEF IInv

\* An operation on the session alone.
LEMMA SessionStep ==
    ASSUME IInv, UNCHANGED <<pc, ctx>>, vtype' \in Types, active' \in BOOLEAN,
           mem' \in [Addrs -> Vals], cands' \in SUBSET Candidate,
           \A c, d \in cands' : c.addr = d.addr => c = d,
           UniformWidth'
    PROVE  IInv'
<1>1. \A a \in Actors : ScanUniform(a)'
  BY DEF IInv, ScanUniform, WidthAt
<1> QED
  BY <1>1 DEF IInv, TypeOK

\* A step of one scan that leaves the session alone.
LEMMA ScanStep ==
    ASSUME IInv, NEW a \in Actors, NEW l \in Locals, NEW to \in Labels,
           UNCHANGED <<session, mem>>,
           pc' = [pc EXCEPT ![a] = to], ctx' = [ctx EXCEPT ![a] = l],
           ScanUniform(a)'
    PROVE  IInv'
<1>1. pc' \in [Actors -> Labels] /\ ctx' \in [Actors -> Locals]
  BY DEF IInv, TypeOK
<1>2. \A b \in Actors : b # a => pc'[b] = pc[b] /\ ctx'[b] = ctx[b]
  BY DEF IInv, TypeOK
<1>3. \A b \in Actors : ScanUniform(b)'
  BY <1>2 DEF IInv, ScanUniform, WidthAt
<1> QED
  BY <1>1, <1>3 DEF IInv, TypeOK, session, UniformWidth

LEMMA NextIInv == IInv /\ [Next]_vars => IInv'
<1> SUFFICES ASSUME IInv, [Next]_vars PROVE IInv'
  OBVIOUS
<1> USE SessionAssumption
<1>0. TypeOK /\ UniformWidth /\ \A a \in Actors : ScanUniform(a)
  BY DEF IInv
<1>1. ASSUME NEW vt \in Types, SetType(vt) PROVE IInv'
  BY <1>0, <1>1, SessionStep DEF SetType, TypeOK, UniformWidth
<1>2. CASE Reset
  BY <1>0, <1>2, SessionStep DEF Reset, TypeOK, UniformWidth
<1>3. ASSUME NEW w \in ScanWidths, NEW A \in SUBSET Addrs, SetCandidatesAs(w, A)
      PROVE  IInv'
  <2>1. PICK f \in [A -> Vals] : cands' = {[addr |-> x, w |-> w, v |-> f[x]] : x \in A}
    BY <1>3 DEF SetCandidatesAs
  <2>2. cands' \in SUBSET Candidate
    <3>1. w \in Nat /\ \A x \in A : x \in Addrs /\ f[x] \in Nat
      OBVIOUS
    <3>2. \A x \in A : [addr |-> x, w |-> w, v |-> f[x]] \in Candidate
      BY <3>1 DEF Candidate
    <3> QED
      BY <2>1, <3>2
  <2>3. (\A c, d \in cands' : c.addr = d.addr => c = d) /\ UniformWidth'
    BY <2>1 DEF UniformWidth
  <2> QED
    BY <1>0, <1>3, <2>2, <2>3, SessionStep DEF SetCandidatesAs, TypeOK
<1>4. ASSUME NEW x \in Addrs, NEW v \in Vals, ProcessWrites(x, v) PROVE IInv'
  BY <1>0, <1>4, SessionStep DEF ProcessWrites, TypeOK, UniformWidth, session
<1>5. ASSUME NEW a \in Actors, Scan(a) PROVE IInv'
  <2>0. ctx[a] \in Locals /\ ScanUniform(a)
    BY <1>0 DEF TypeOK
  <2> DEFINE l == ctx[a]
  <2>1. ASSUME NEW tw \in {Width[t] : t \in Types} \cup ScanWidths, NEW tv \in Vals,
               SearchBegin(a, tw, tv)
        PROVE  IInv'
    <3> DEFINE m == [Idle EXCEPT !.tw = tw, !.tv = tv]
    <3>1. tw \in Nat /\ tv \in Nat
      OBVIOUS
    <3>2. m \in Locals /\ m.left = {} /\ m.found = {}
      BY <3>1, IdleType DEF Idle, Locals
    <3>3. ctx' = [ctx EXCEPT ![a] = m] /\ pc' = [pc EXCEPT ![a] = "context"]
      BY <2>1 DEF SearchBegin, Move
    <3>4. ScanUniform(a)'
      BY <1>0, <3>2, <3>3 DEF ScanUniform, TypeOK
    <3> QED
      BY <2>1, <3>2, <3>3, <3>4, ScanStep DEF SearchBegin, Labels
  <2>2. ASSUME NEW mode \in Modes, FilterBegin(a, mode) PROVE IInv'
    <3> DEFINE m == [Idle EXCEPT !.mode = mode]
    <3>1. m \in Locals /\ m.left = {} /\ m.found = {}
      BY IdleType DEF Idle, Locals
    <3>2. PICK to \in {"parse", "check"} :
             ctx' = [ctx EXCEPT ![a] = m] /\ pc' = [pc EXCEPT ![a] = to]
      BY <2>2 DEF FilterBegin, Move
    <3>3. ScanUniform(a)'
      BY <1>0, <3>1, <3>2 DEF ScanUniform, TypeOK
    <3> QED
      BY <2>2, <3>1, <3>2, <3>3, ScanStep DEF FilterBegin, Labels
  <2>3. CASE l.mode = "search" /\ SearchContext(a)
    <3> DEFINE w == IF vtype = "bytes" THEN l.tw ELSE Width[vtype]
               m == [l EXCEPT !.vt = vtype, !.w = w,
                              !.left = [addr : Addrs, w : {w}, v : {l.tv}]]
    <3>1. ctx' = [ctx EXCEPT ![a] = m] /\ pc' = [pc EXCEPT ![a] = "maps"]
      BY <1>0, <2>3 DEF SearchContext, Move, TypeOK
    <3>2. w \in Nat /\ l.tv \in Nat
      BY <1>0, <2>0 DEF TypeOK, Locals
    <3>3. m \in Locals /\ m.found = l.found /\ m.left = [addr : Addrs, w : {w}, v : {l.tv}]
      BY <1>0, <2>0, <3>2 DEF TypeOK, Locals, Candidate
    <3>4. l.found = {} /\ m.mode = "search" /\ m.w = w
      BY <2>0, <2>3 DEF ScanUniform, SearchContext, Move, Locals
    <3>5. \A c, d \in m.left : c.addr = d.addr => c = d
      BY <3>3
    <3> HIDE DEF m, w
    <3>6. ScanUniform(a)'
      BY <1>0, <3>1, <3>3, <3>4, <3>5 DEF ScanUniform, WidthAt, TypeOK
    <3> QED
      BY <2>3, <3>1, <3>3, <3>6, ScanStep DEF SearchContext, Labels
  <2>4. CASE l.mode # "search" /\ FilterContext(a)
    <3> DEFINE m == [l EXCEPT !.vt = vtype]
    <3>1. ctx' = [ctx EXCEPT ![a] = m] /\ pc' = [pc EXCEPT ![a] = "width"]
      BY <1>0, <2>4 DEF FilterContext, Move, TypeOK
    <3>2. m \in Locals /\ m.left = l.left /\ m.found = l.found
      BY <1>0, <2>0 DEF TypeOK, Locals
    <3>3. l.left = {} /\ l.found = {}
      BY <2>0, <2>4 DEF ScanUniform, FilterContext, Move
    <3>4. ScanUniform(a)'
      BY <1>0, <3>1, <3>2, <3>3 DEF ScanUniform, TypeOK
    <3> QED
      BY <2>4, <3>1, <3>2, <3>4, ScanStep DEF FilterContext, Labels
  <2>5. ASSUME NEW from, Finish(a, from), UNCHANGED <<session, mem>> PROVE IInv'
    <3>1. ScanUniform(a)'
      BY <1>0, <2>5 DEF Finish, Move, ScanUniform, Idle, TypeOK
    <3> QED
      BY <2>5, <3>1, IdleType, ScanStep DEF Finish, Move, Labels
  <2>6. CASE MapsRead(a)
    <3>1. PICK to \in {"read", "snapshot"} :
             /\ pc' = [pc EXCEPT ![a] = to]
             /\ to = "snapshot" <=> l.mode # "search"
      BY <2>6 DEF MapsRead, Move
    <3>2. ctx' = [ctx EXCEPT ![a] = l] /\ ctx' = ctx
      BY <1>0, <2>6 DEF MapsRead, TypeOK
    <3>3. ScanUniform(a)'
      BY <1>0, <2>6, <3>1, <3>2 DEF ScanUniform, MapsRead, Move, TypeOK, WidthAt
    <3> QED
      BY <2>0, <2>6, <3>1, <3>2, <3>3, ScanStep DEF MapsRead, Labels
  <2>7. CASE FilterParse(a)
    <3>1. PICK tw \in WidthsOf(vtype), tv \in Vals : ctx' = [ctx EXCEPT ![a].tw = tw, ![a].tv = tv]
      BY <2>7 DEF FilterParse
    <3>2. tw \in Nat /\ tv \in Nat
      BY <1>0 DEF WidthsOf, TypeOK
    <3> DEFINE m == [l EXCEPT !.tw = tw, !.tv = tv]
    <3>3. ctx' = [ctx EXCEPT ![a] = m] /\ pc' = [pc EXCEPT ![a] = "check"]
      BY <1>0, <2>7, <3>1 DEF FilterParse, Move, TypeOK
    <3>4. m \in Locals /\ m.left = l.left /\ m.found = l.found
      BY <2>0, <3>2 DEF Locals
    <3>5. l.left = {} /\ l.found = {}
      BY <2>0, <2>7 DEF ScanUniform, FilterParse, Move
    <3>6. ScanUniform(a)'
      BY <1>0, <3>3, <3>4, <3>5 DEF ScanUniform, TypeOK
    <3> QED
      BY <2>7, <3>3, <3>4, <3>6, ScanStep DEF FilterParse, Labels
  <2>8. CASE FilterCheck(a)
    <3>1. CASE Finish(a, "check")
      BY <2>5, <2>8, <3>1 DEF FilterCheck
    <3>2. CASE Move(a, "check", "context") /\ UNCHANGED ctx
      <4>1. ctx' = [ctx EXCEPT ![a] = l] /\ pc' = [pc EXCEPT ![a] = "context"]
        BY <1>0, <3>2 DEF Move, TypeOK
      <4>2. l.left = {} /\ l.found = {}
        BY <2>0, <3>2 DEF ScanUniform, Move
      <4>3. ScanUniform(a)'
        BY <1>0, <4>1, <4>2 DEF ScanUniform, TypeOK
      <4> QED
        BY <2>0, <2>8, <4>1, <4>3, ScanStep DEF FilterCheck, Labels
    <3> QED
      BY <2>8, <3>1, <3>2 DEF FilterCheck
  <2>9. CASE FilterWidth(a)
    <3>1. PICK w \in CurrentWidths : ctx' = [ctx EXCEPT ![a].w = w]
      BY <2>9 DEF FilterWidth
    <3>2. w \in Nat
      BY <1>0, <3>1 DEF CurrentWidths, TypeOK, Candidate
    <3> DEFINE m == [l EXCEPT !.w = w]
    <3>3. ctx' = [ctx EXCEPT ![a] = m] /\ pc' = [pc EXCEPT ![a] = "maps"]
      BY <1>0, <2>9, <3>1 DEF FilterWidth, Move, TypeOK
    <3>4. m \in Locals /\ m.left = l.left /\ m.found = l.found
      BY <2>0, <3>2 DEF Locals
    <3>5. l.left = {} /\ l.found = {}
      BY <2>0, <2>9 DEF ScanUniform, FilterWidth, Move
    <3>6. ScanUniform(a)'
      BY <1>0, <3>3, <3>4, <3>5 DEF ScanUniform, TypeOK
    <3> QED
      BY <2>9, <3>3, <3>4, <3>6, ScanStep DEF FilterWidth, Labels
  <2>10. CASE FilterSnapshot(a)
    <3> DEFINE m == [l EXCEPT !.left = cands]
    <3>1. ctx' = [ctx EXCEPT ![a] = m] /\ pc' = [pc EXCEPT ![a] = "read"]
      BY <1>0, <2>10 DEF FilterSnapshot, Move, TypeOK
    <3>2. m \in Locals /\ m.left = cands /\ m.found = l.found
      BY <1>0, <2>0 DEF Locals, TypeOK
    <3>3. l.found = {}
      BY <2>0, <2>10 DEF ScanUniform, FilterSnapshot, Move
    <3> HIDE DEF m
    <3>4. ScanUniform(a)'
      BY <1>0, <3>1, <3>2, <3>3 DEF ScanUniform, TypeOK, UniformWidth, WidthAt
    <3> QED
      BY <2>10, <3>1, <3>2, <3>4, ScanStep DEF FilterSnapshot, Labels
  <2>11. ASSUME NEW c \in l.left, Read(a, c) PROVE IInv'
    <3> DEFINE n == [addr |-> c.addr, w |-> WidthAt(l, c), v |-> mem[c.addr]]
               m == [l EXCEPT !.left = @ \ {c}]
               k == [l EXCEPT !.left = @ \ {c}, !.found = @ \cup {n}]
    <3>1. n \in Candidate
      BY <1>0, <2>0 DEF Locals, Candidate, WidthAt, TypeOK
    <3>2. /\ m \in Locals /\ m.left = l.left \ {c} /\ m.found = l.found
          /\ k \in Locals /\ k.left = l.left \ {c} /\ k.found = l.found \cup {n}
      BY <2>0, <3>1 DEF Locals
    <3>3. \A d : WidthAt(m, d) = WidthAt(l, d) /\ WidthAt(k, d) = WidthAt(l, d)
      BY <2>0 DEF Locals, WidthAt
    <3>4. pc' = [pc EXCEPT ![a] = "read"] /\ pc[a] = "read"
      BY <1>0, <2>11 DEF Read, TypeOK
    <3>5. ctx' = [ctx EXCEPT ![a] = m] \/ ctx' = [ctx EXCEPT ![a] = k]
      BY <1>0, <2>0, <2>11 DEF Read, Locals, TypeOK
    <3>6. n.addr = c.addr /\ n.w = WidthAt(l, c)
      OBVIOUS
    <3> HIDE DEF m, k, n
    <3>7. CASE ctx' = [ctx EXCEPT ![a] = m]
      <4>1. ScanUniform(a)'
        BY <1>0, <2>0, <3>2, <3>3, <3>4, <3>7 DEF ScanUniform, TypeOK
      <4> QED
        BY <2>11, <3>2, <3>4, <3>7, <4>1, ScanStep DEF Read, Labels
    <3>8. CASE ctx' = [ctx EXCEPT ![a] = k]
      <4>1. ScanUniform(a)'
        BY <1>0, <2>0, <3>2, <3>3, <3>4, <3>6, <3>8 DEF ScanUniform, TypeOK
      <4> QED
        BY <2>11, <3>2, <3>4, <3>8, <4>1, ScanStep DEF Read, Labels
    <3> QED
      BY <3>5, <3>7, <3>8
  <2>12. CASE Swap(a)
    <3>1. /\ l.found \in SUBSET Candidate
          /\ \A c, d \in l.found : c.w = d.w /\ (c.addr = d.addr => c = d)
      BY <2>0 DEF Locals, ScanUniform
    <3>2. cands' = l.found /\ active' = TRUE /\ vtype' = vtype /\ mem' = mem
      BY <2>12 DEF Swap, Replace
    <3>3. pc' = [pc EXCEPT ![a] = "idle"] /\ ctx' = [ctx EXCEPT ![a] = Idle]
      BY <2>12 DEF Swap, Finish, Move
    <3>4. TypeOK'
      BY <1>0, <3>1, <3>2, <3>3, IdleType DEF TypeOK, Labels
    <3>5. \A b \in Actors : ScanUniform(b)'
      <4>1. ScanUniform(a)'
        BY <1>0, <3>3 DEF TypeOK, ScanUniform, Idle
      <4>2. ASSUME NEW b \in Actors, b # a PROVE ScanUniform(b)'
        BY <1>0, <3>3, <4>2 DEF TypeOK, ScanUniform, WidthAt
      <4> QED
        BY <4>1, <4>2
    <3> QED
      BY <3>1, <3>2, <3>4, <3>5 DEF IInv, UniformWidth
  <2> QED
    BY <1>5, <2>1, <2>2, <2>3, <2>4, <2>5, <2>6, <2>7, <2>8, <2>9, <2>10, <2>11, <2>12
       DEF Scan, MapsFail
<1>6. CASE UNCHANGED vars
  <2>1. \A a \in Actors : ScanUniform(a)'
    BY <1>0, <1>6 DEF vars, session, ScanUniform, WidthAt
  <2> QED
    BY <1>0, <1>6, <2>1 DEF vars, session, IInv, TypeOK, UniformWidth
<1> QED
  BY <1>1, <1>2, <1>3, <1>4, <1>5, <1>6 DEF Next

\* The session is always well typed.
THEOREM SessionTypeOK == Spec => []TypeOK
<1>1. Spec => []IInv
  BY InitIInv, NextIInv, PTL DEF Spec
<1> QED
  BY <1>1, PTL DEF IInv

\* All candidates have one width, whatever mixture of searches, filters, type
\* changes, resets and pattern scans produced them: the width candidateWidth
\* takes from an arbitrary one is the width of all.
THEOREM SessionUniformWidth == Spec => []UniformWidth
<1>1. Spec => []IInv
  BY InitIInv, NextIInv, PTL DEF Spec
<1> QED
  BY <1>1, PTL DEF IInv
-----------------------------------------------------------------------------
(* Requests one at a time: the session is the abstract candidate set.        *)

\* What the scan in progress knows is still true of the session when it is the
\* only request: the type it captured, the width, and that the entries it reads
\* are the session's own.
ScanFits(a) ==
    LET l == ctx[a]
        filter == l.mode # "search"
    IN
    /\ pc[a] \in {"parse", "check", "width", "snapshot"} => filter
    /\ pc[a] = "context" /\ ~filter => l.tw \in WidthsOf(vtype)
    /\ pc[a] \in {"maps", "read"} /\ ~filter => l.w \in WidthsOf(vtype)
    /\ pc[a] \in {"context", "width", "maps", "snapshot", "read"} /\ filter => HasCandidates
    /\ pc[a] \in {"width", "maps", "snapshot", "read"} /\ filter => l.vt = vtype
    /\ pc[a] \in {"maps", "snapshot", "read"} /\ filter /\ vtype # "bytes" =>
          l.w \in WidthsOf(vtype)
    /\ pc[a] = "read" /\ filter =>
          l.left \subseteq cands /\ AddrsOf(l.found) \subseteq AddrsOf(cands)
    /\ \A d \in l.found : d.w \in WidthsOf(vtype) /\ d.v \in Vals

AloneInv ==
    /\ \A a, b \in Actors : pc[a] # "idle" /\ pc[b] # "idle" => a = b
    /\ \A c \in cands : c.w \in WidthsOf(vtype) /\ c.v \in Vals
    /\ \A a \in Actors : ScanFits(a)

LEMMA InitAlone == Init => AloneInv
  BY DEF Init, AloneInv, ScanFits, Idle

\* A request that is one step, with no other in progress.
LEMMA AloneSessionStep ==
    ASSUME OneUser, IInv, IInv', NEW op, Arrives(op), UNCHANGED pc,
           \A c \in cands' : c.w \in WidthsOf(vtype') /\ c.v \in Vals
    PROVE  AloneInv'
<1>1. \A a \in Actors : pc'[a] = "idle"
  BY DEF Arrives
<1>2. \A a \in Actors : ScanFits(a)'
  BY <1>1 DEF IInv, ScanUniform, ScanFits
<1> QED
  BY <1>1, <1>2 DEF AloneInv, WidthsOf

\* A step of the scan in progress, or the one that begins it, that leaves the
\* session alone.
LEMMA AloneScanStep ==
    ASSUME IInv, AloneInv, NEW a \in Actors, NEW to,
           UNCHANGED session, pc' = [pc EXCEPT ![a] = to],
           \A b \in Actors : b # a => ctx'[b] = ctx[b],
           pc[a] # "idle" \/ \A b \in Actors : pc[b] = "idle",
           ScanFits(a)'
    PROVE  AloneInv'
<1>1. \A b \in Actors : b # a => pc'[b] = pc[b] /\ pc[b] = "idle"
  BY DEF IInv, TypeOK, AloneInv
<1>2. \A b \in Actors : ScanFits(b)'
  BY <1>1 DEF AloneInv, ScanFits, session, HasCandidates, WidthsOf, AddrsOf
<1>3. \A b, c \in Actors : pc'[b] # "idle" /\ pc'[c] # "idle" => b = c
  BY <1>1
<1> QED
  BY <1>2, <1>3 DEF AloneInv, session, WidthsOf

\* The steps of a search or a filter up to its swap: the invariant is kept.
LEMMA ScanningAlone ==
    ASSUME OneUser, IInv, AloneInv, NEW a \in Actors, Scan(a), ~Swap(a)
    PROVE  AloneInv' /\ UNCHANGED session
<1> USE SessionAssumption
<1> DEFINE l == ctx[a]
<1>0. /\ pc \in [Actors -> Labels] /\ ctx \in [Actors -> Locals] /\ l \in Locals
      /\ ScanFits(a) /\ ScanUniform(a) /\ mem \in [Addrs -> Vals]
  BY DEF IInv, TypeOK, AloneInv
<1>1. ASSUME NEW tw, NEW tv \in Vals, SearchBegin(a, tw, tv)
      PROVE  AloneInv' /\ UNCHANGED session
  <2>1. pc' = [pc EXCEPT ![a] = "context"] /\ \A b \in Actors : pc[b] = "idle"
    BY <1>1 DEF SearchBegin, Move, Arrives
  <2>2. ctx'[a] = [Idle EXCEPT !.tw = tw, !.tv = tv] /\ \A b \in Actors : b # a => ctx'[b] = ctx[b]
    BY <1>0, <1>1 DEF SearchBegin
  <2>3. ctx'[a].mode = "search" /\ ctx'[a].tw = tw /\ ctx'[a].found = {}
    BY <2>2 DEF Idle
  <2>4. tw \in WidthsOf(vtype) /\ UNCHANGED session
    BY <1>1 DEF SearchBegin
  <2>5. ScanFits(a)'
    BY <1>0, <2>1, <2>3, <2>4 DEF ScanFits, session, WidthsOf
  <2> QED
    BY <2>1, <2>2, <2>4, <2>5, AloneScanStep
<1>2. ASSUME NEW m \in Modes, FilterBegin(a, m) PROVE AloneInv' /\ UNCHANGED session
  <2>1. PICK to \in {"parse", "check"} : pc' = [pc EXCEPT ![a] = to]
    BY <1>2 DEF FilterBegin, Move
  <2>2. ctx'[a] = [Idle EXCEPT !.mode = m] /\ \A b \in Actors : b # a => ctx'[b] = ctx[b]
    BY <1>0, <1>2 DEF FilterBegin
  <2>3. ctx'[a].mode = m /\ ctx'[a].found = {} /\ m # "search"
    BY <2>2 DEF Idle, AllModes
  <2>4. UNCHANGED session /\ \A b \in Actors : pc[b] = "idle"
    BY <1>2 DEF FilterBegin, Arrives
  <2>5. ScanFits(a)'
    BY <1>0, <2>1, <2>3 DEF ScanFits
  <2> QED
    BY <2>1, <2>2, <2>4, <2>5, AloneScanStep
<1>3. CASE l.mode = "search" /\ SearchContext(a)
  <2> DEFINE w == IF vtype = "bytes" THEN l.tw ELSE Width[vtype]
  <2>1. pc[a] = "context" /\ pc' = [pc EXCEPT ![a] = "maps"] /\ UNCHANGED session
    BY <1>3 DEF SearchContext, Move
  <2>2. /\ ctx'[a] = [l EXCEPT !.vt = vtype, !.w = w, !.left = [addr : Addrs, w : {w}, v : {l.tv}]]
        /\ \A b \in Actors : b # a => ctx'[b] = ctx[b]
    BY <1>0, <1>3 DEF SearchContext
  <2>3. ctx'[a].mode = "search" /\ ctx'[a].w = w /\ ctx'[a].found = l.found
    BY <1>0, <1>3, <2>2 DEF Locals
  <2>4. w \in WidthsOf(vtype)
    BY <1>0, <1>3, <2>1 DEF ScanFits, WidthsOf
  <2>5. ScanFits(a)'
    BY <1>0, <2>1, <2>3, <2>4 DEF ScanFits, session, WidthsOf
  <2> QED
    BY <2>1, <2>2, <2>5, AloneScanStep
<1>4. CASE l.mode # "search" /\ FilterContext(a)
  <2>1. pc[a] = "context" /\ pc' = [pc EXCEPT ![a] = "width"] /\ UNCHANGED session
    BY <1>4 DEF FilterContext, Move
  <2>2. ctx'[a] = [l EXCEPT !.vt = vtype] /\ \A b \in Actors : b # a => ctx'[b] = ctx[b]
    BY <1>0, <1>4 DEF FilterContext
  <2>3. ctx'[a].mode = l.mode /\ ctx'[a].vt = vtype /\ ctx'[a].found = l.found
    BY <1>0, <2>2 DEF Locals
  <2>4. ScanFits(a)'
    BY <1>0, <1>4, <2>1, <2>3 DEF ScanFits, session, WidthsOf, HasCandidates
  <2> QED
    BY <2>1, <2>2, <2>4, AloneScanStep
<1>5. ASSUME NEW from, Finish(a, from), from # "idle", UNCHANGED session
      PROVE  AloneInv' /\ UNCHANGED session
  <2>1. pc[a] = from /\ pc' = [pc EXCEPT ![a] = "idle"] /\ ctx' = [ctx EXCEPT ![a] = Idle]
    BY <1>5 DEF Finish, Move
  <2>2. ScanFits(a)'
    BY <1>0, <2>1 DEF ScanFits, Idle
  <2> QED
    BY <1>0, <1>5, <2>1, <2>2, AloneScanStep
<1>6. CASE MapsRead(a)
  <2>1. PICK to \in {"read", "snapshot"} :
           /\ pc[a] = "maps" /\ pc' = [pc EXCEPT ![a] = to]
           /\ to = "snapshot" <=> l.mode # "search"
    BY <1>6 DEF MapsRead, Move
  <2>2. UNCHANGED session /\ ctx' = ctx
    BY <1>6 DEF MapsRead
  <2>3. ScanFits(a)'
    BY <1>0, <2>1, <2>2 DEF ScanFits, session, WidthsOf, HasCandidates
  <2> QED
    BY <2>1, <2>2, <2>3, AloneScanStep
<1>7. CASE FilterParse(a)
  <2>1. PICK tw, tv : ctx' = [ctx EXCEPT ![a].tw = tw, ![a].tv = tv]
    BY <1>7 DEF FilterParse
  <2>2. pc[a] = "parse" /\ pc' = [pc EXCEPT ![a] = "check"] /\ UNCHANGED session
    BY <1>7 DEF FilterParse, Move
  <2>3. ctx'[a].mode = l.mode /\ ctx'[a].found = l.found
    BY <1>0, <2>1 DEF Locals
  <2>4. \A b \in Actors : b # a => ctx'[b] = ctx[b]
    BY <1>0, <2>1
  <2>5. ScanFits(a)'
    BY <1>0, <2>2, <2>3 DEF ScanFits, session, WidthsOf
  <2> QED
    BY <2>2, <2>4, <2>5, AloneScanStep
<1>8. CASE FilterCheck(a)
  <2>1. CASE Finish(a, "check")
    BY <1>5, <1>8, <2>1 DEF FilterCheck
  <2>2. CASE HasCandidates /\ Move(a, "check", "context") /\ UNCHANGED ctx
    <3>1. pc[a] = "check" /\ pc' = [pc EXCEPT ![a] = "context"] /\ UNCHANGED session
      BY <1>8, <2>2 DEF FilterCheck, Move
    <3>2. ScanFits(a)'
      BY <1>0, <2>2, <3>1 DEF ScanFits, session, WidthsOf, HasCandidates
    <3> QED
      BY <2>2, <3>1, <3>2, AloneScanStep
  <2> QED
    BY <1>8, <2>1, <2>2 DEF FilterCheck
<1>9. CASE FilterWidth(a)
  <2>1. PICK w \in CurrentWidths : ctx' = [ctx EXCEPT ![a].w = w]
    BY <1>9 DEF FilterWidth
  <2>2. pc[a] = "width" /\ pc' = [pc EXCEPT ![a] = "maps"] /\ UNCHANGED session
    BY <1>9 DEF FilterWidth, Move
  <2>3. /\ ctx'[a].mode = l.mode /\ ctx'[a].vt = l.vt
        /\ ctx'[a].found = l.found /\ ctx'[a].w = w
    BY <1>0, <2>1 DEF Locals
  <2>4. \A b \in Actors : b # a => ctx'[b] = ctx[b]
    BY <1>0, <2>1
  <2>5. HasCandidates /\ l.vt = vtype /\ l.mode # "search"
    BY <1>0, <2>2 DEF ScanFits
  <2>6. vtype # "bytes" => w \in WidthsOf(vtype)
    BY <2>1, <2>5 DEF CurrentWidths, WidthsOf, HasCandidates, AloneInv
  <2>7. ScanFits(a)'
    BY <1>0, <2>2, <2>3, <2>5, <2>6 DEF ScanFits, session, WidthsOf, HasCandidates
  <2> QED
    BY <2>2, <2>4, <2>7, AloneScanStep
<1>10. CASE FilterSnapshot(a)
  <2>1. pc[a] = "snapshot" /\ pc' = [pc EXCEPT ![a] = "read"] /\ UNCHANGED session
    BY <1>10 DEF FilterSnapshot, Move
  <2>2. ctx'[a] = [l EXCEPT !.left = cands] /\ \A b \in Actors : b # a => ctx'[b] = ctx[b]
    BY <1>0, <1>10 DEF FilterSnapshot
  <2>3. /\ ctx'[a].mode = l.mode /\ ctx'[a].vt = l.vt /\ ctx'[a].w = l.w
        /\ ctx'[a].found = l.found /\ ctx'[a].left = cands
    BY <1>0, <2>2 DEF Locals
  <2>4. l.found = {}
    BY <1>0, <2>1 DEF ScanUniform
  <2>5. ScanFits(a)'
    BY <1>0, <2>1, <2>3, <2>4 DEF ScanFits, session, WidthsOf, HasCandidates, AddrsOf
  <2> QED
    BY <2>1, <2>2, <2>5, AloneScanStep
<1>11. ASSUME NEW c \in l.left, Read(a, c) PROVE AloneInv' /\ UNCHANGED session
  <2> DEFINE n == [addr |-> c.addr, w |-> WidthAt(l, c), v |-> mem[c.addr]]
  <2>1. pc[a] = "read" /\ pc' = [pc EXCEPT ![a] = "read"] /\ UNCHANGED session
    BY <1>0, <1>11 DEF Read
  <2>2. /\ ctx'[a].mode = l.mode /\ ctx'[a].vt = l.vt /\ ctx'[a].w = l.w
        /\ ctx'[a].left \subseteq l.left
        /\ ctx'[a].found \subseteq l.found \cup {n}
        /\ \A b \in Actors : b # a => ctx'[b] = ctx[b]
    BY <1>0, <1>11 DEF Read, Locals
  <2>3. n.v \in Vals /\ n.w \in WidthsOf(vtype)
    <3>0. n.w = WidthAt(l, c)
      OBVIOUS
    <3>1. c \in Candidate
      BY <1>0 DEF Locals
    <3>2. n.v \in Vals
      BY <1>0, <3>1 DEF Candidate
    <3>3. CASE l.mode = "search"
      <4>1. l.w \in WidthsOf(vtype) /\ WidthAt(l, c) = l.w
        BY <1>0, <2>1, <3>3 DEF ScanFits, WidthAt
      <4> QED
        BY <3>0, <3>2, <4>1
    <3>4. CASE l.mode # "search"
      <4>1. c \in cands /\ l.vt = vtype
        BY <1>0, <2>1, <3>4 DEF ScanFits
      <4>2. CASE vtype = "bytes"
        <5>1. WidthAt(l, c) = c.w
          BY <3>4, <4>1, <4>2 DEF WidthAt
        <5> QED
          BY <3>0, <3>2, <4>1, <5>1 DEF AloneInv
      <4>3. CASE vtype # "bytes"
        <5>1. l.w \in WidthsOf(vtype) /\ WidthAt(l, c) = l.w
          BY <1>0, <2>1, <3>4, <4>1, <4>3 DEF ScanFits, WidthAt
        <5> QED
          BY <3>0, <3>2, <5>1
      <4> QED
        BY <4>2, <4>3
    <3> QED
      BY <3>2, <3>3, <3>4
  <2>4. l.mode # "search" => n.addr \in AddrsOf(cands)
    BY <1>0, <2>1 DEF ScanFits, AddrsOf
  <2> HIDE DEF n
  <2>5. l.mode # "search" => AddrsOf(ctx'[a].found) \subseteq AddrsOf(cands)
    BY <1>0, <2>1, <2>2, <2>4 DEF ScanFits, AddrsOf
  <2>6. ScanFits(a)'
    BY <1>0, <2>1, <2>2, <2>3, <2>5 DEF ScanFits, session, WidthsOf, HasCandidates, AddrsOf
  <2> QED
    BY <2>1, <2>2, <2>6, AloneScanStep
<1> QED
  BY <1>1, <1>2, <1>3, <1>4, <1>5, <1>6, <1>7, <1>8, <1>9, <1>10, <1>11 DEF Scan, MapsFail

\* The swap that ends a scan is the abstract Search, the one that ends a filter
\* the abstract Filter.
LEMMA SwapAlone ==
    ASSUME IInv, IInv', AloneInv, NEW a \in Actors, Swap(a)
    PROVE  AloneInv' /\ (Abstract!Search \/ Abstract!Filter)
<1> DEFINE l == ctx[a]
<1>0. /\ pc \in [Actors -> Labels] /\ ctx \in [Actors -> Locals] /\ l \in Locals
      /\ ScanFits(a) /\ ScanUniform(a)
  BY DEF IInv, TypeOK, AloneInv
<1>1. /\ pc[a] = "read" /\ pc' = [pc EXCEPT ![a] = "idle"]
      /\ cands' = l.found /\ active' = TRUE /\ vtype' = vtype
  BY DEF Swap, Finish, Move, Replace
<1>2. \A b \in Actors : pc'[b] = "idle"
  BY <1>0, <1>1 DEF AloneInv
<1>3. \A b \in Actors : ScanFits(b)'
  BY <1>2 DEF IInv, ScanUniform, ScanFits
<1>4. AloneInv'
  BY <1>0, <1>1, <1>2, <1>3 DEF AloneInv, ScanFits, WidthsOf
<1>5. WidthsOf(vtype) # {}
  BY <1>0, <1>1 DEF ScanFits, HasCandidates, AloneInv
<1>6. \E w \in WidthsOf(vtype) : \A c \in l.found : c.w = w
  <2>1. CASE l.found = {}
    BY <1>5, <2>1
  <2>2. CASE l.found # {}
    BY <1>0, <2>2 DEF ScanFits, ScanUniform
  <2> QED
    BY <2>1, <2>2
<1>7. \A c \in l.found : c = [addr |-> c.addr, w |-> c.w, v |-> c.v] /\ c.addr \in Addrs /\ c.v \in Vals
  BY <1>0 DEF Locals, Candidate, ScanFits
<1>8. Abstract!IsResult(l.found, vtype)
  <2>1. PICK w \in WidthsOf(vtype) : \A c \in l.found : c.w = w
    BY <1>6
  <2>2. l.found \subseteq Abstract!Candidates(w)
    BY <1>7, <2>1 DEF Abstract!Candidates
  <2>3. w \in Abstract!WidthsOf(vtype)
    BY <2>1 DEF WidthsOf, Abstract!WidthsOf
  <2> QED
    BY <1>0, <2>2, <2>3 DEF Abstract!IsResult, ScanUniform
<1>9. CASE l.mode = "search"
  BY <1>1, <1>4, <1>8 DEF Abstract!Search
<1>10. CASE l.mode # "search"
  <2>1. HasCandidates /\ AddrsOf(l.found) \subseteq AddrsOf(cands)
    BY <1>0, <1>1, <1>10 DEF ScanFits
  <2> QED
    BY <1>1, <1>4, <1>8, <2>1 DEF Abstract!Filter, HasCandidates, AddrsOf, Abstract!AddrsOf
<1> QED
  BY <1>9, <1>10

LEMMA NextAlone ==
    ASSUME OneUser
    PROVE  IInv /\ IInv' /\ AloneInv /\ [Next]_vars
              => AloneInv' /\ [Abstract!Next]_(Abstract!vars)
<1> SUFFICES ASSUME IInv, IInv', AloneInv, [Next]_vars
             PROVE  AloneInv' /\ [Abstract!Next]_(Abstract!vars)
  OBVIOUS
<1> USE SessionAssumption
<1>1. ASSUME NEW vt \in Types, SetType(vt)
      PROVE  AloneInv' /\ [Abstract!Next]_(Abstract!vars)
  <2>1. AloneInv'
    BY <1>1, AloneSessionStep DEF SetType
  <2> QED
    BY <1>1, <2>1 DEF SetType, Abstract!Next, Abstract!SetType
<1>2. CASE Reset
  <2>1. AloneInv'
    BY <1>2, AloneSessionStep DEF Reset
  <2> QED
    BY <1>2, <2>1 DEF Reset, Abstract!Next, Abstract!Reset
<1>3. ASSUME NEW w \in ScanWidths, NEW A \in SUBSET Addrs, SetCandidatesAs(w, A)
      PROVE  AloneInv' /\ [Abstract!Next]_(Abstract!vars)
  <2>1. PICK f \in [A -> Vals] : cands' = {[addr |-> x, w |-> w, v |-> f[x]] : x \in A}
    BY <1>3 DEF SetCandidatesAs
  <2>2. vtype' = "bytes" /\ active' = TRUE /\ UNCHANGED pc /\ Arrives("fill")
    BY <1>3 DEF SetCandidatesAs
  <2>3. \A c \in cands' : c.w = w /\ c.v \in Vals
    BY <2>1
  <2>4. AloneInv'
    BY <2>2, <2>3, AloneSessionStep DEF WidthsOf
  <2>5. cands' \subseteq Abstract!Candidates(w)
    BY <2>1 DEF Abstract!Candidates
  <2>6. Abstract!IsResult(cands', "bytes")
    BY <2>1, <2>5 DEF Abstract!IsResult, Abstract!WidthsOf
  <2> QED
    BY <2>2, <2>4, <2>6 DEF Abstract!Next, Abstract!SearchBytes
<1>4. ASSUME NEW x \in Addrs, NEW v \in Vals, ProcessWrites(x, v)
      PROVE  AloneInv' /\ [Abstract!Next]_(Abstract!vars)
  BY <1>4 DEF ProcessWrites, session, AloneInv, ScanFits, HasCandidates, WidthsOf, AddrsOf,
     Abstract!vars
<1>5. ASSUME NEW a \in Actors, Scan(a)
      PROVE  AloneInv' /\ [Abstract!Next]_(Abstract!vars)
  <2>1. CASE Swap(a)
    BY <1>5, <2>1, SwapAlone DEF Abstract!Next
  <2>2. CASE ~Swap(a)
    BY <1>5, <2>2, ScanningAlone DEF session, Abstract!vars
  <2> QED
    BY <2>1, <2>2
<1>6. CASE UNCHANGED vars
  BY <1>6 DEF vars, session, AloneInv, ScanFits, HasCandidates, WidthsOf, AddrsOf, Abstract!vars
<1> QED
  BY <1>1, <1>2, <1>3, <1>4, <1>5, <1>6 DEF Next

\* Requests one at a time: the five critical sections of a filter, the two of a
\* search and the reads between them, while the process goes on writing its
\* memory, amount to one step of the abstract candidate set, and each short
\* operation to one of its steps.  session_finding_width shows what overlapping
\* requests do to the promise.
THEOREM SessionImplementsCandidateSet ==
    ASSUME OneUser
    PROVE  Spec => ImplementsCandidateSet
<1>1. Init => Abstract!Init
  BY DEF Init, Abstract!Init
<1>2. Spec => []IInv
  BY InitIInv, NextIInv, PTL DEF Spec
<1>3. IInv /\ IInv' /\ AloneInv /\ [Next]_vars
         => AloneInv' /\ [Abstract!Next]_(Abstract!vars)
  BY NextAlone
<1> QED
  BY <1>1, <1>2, <1>3, InitAlone, PTL DEF Spec, ImplementsCandidateSet, Abstract!Spec
=============================================================================
