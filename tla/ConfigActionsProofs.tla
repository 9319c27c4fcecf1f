------------------------- MODULE ConfigActionsProofs -------------------------
(***************************************************************************)
(* Theorems about the console's actions and the config manager, for any    *)
(* number of actions, any requests and any files from outside: no edit     *)
(* empties a component, atomic updates build on what the file holds, and a *)
(* failed action leaves the file as it found it.                           *)
(***************************************************************************)
EXTENDS ConfigActions, TLAPS

-----------------------------------------------------------------------------
(* What the conversions and the edits make of a configuration.             *)

LEMMA WithoutIs ==
    ASSUME NEW part, NEW n
    PROVE  Without(part, n) = [m \in DOMAIN part \ {n} |-> part[m]]
  BY DEF Without, Restrict

(* A stream processor that others use is never stand-alone.                *)
Templated(c) ==
    \A n \in DOMAIN c.sp : IF c.sp[n].ref = NoRef THEN StandAlone(n)
                           ELSE c.sp[n].ref # n => ~StandAlone(c.sp[n].ref)

ConfigOK(c) == Whole(c) /\ Templated(c)
YamlOK(y) == \A c \in convertYamlToSpec(y) : ConfigOK(c)

LEMMA TidyOK ==
    ASSUME NEW cs, cs \subseteq FileConfigs, "loose" \notin Looseness(cs), NEW c \in cs
    PROVE  ConfigOK(c)
<1>1. Tidy(c)
  BY DEF Looseness
<1> QED
  BY <1>1 DEF Tidy, ConfigOK, Templated, StandAlone

LEMMA HandEditOK ==
    ASSUME NEW y \in HandEdits, "loose" \notin Looseness(convertYamlToSpec(y))
    PROVE  YamlOK(y)
<1>1. convertYamlToSpec(y) \subseteq FileConfigs
  BY DEF FileConfigs
<1> QED
  BY <1>1, TidyOK DEF YamlOK

LEMMA EmptyOK == ConfigOK(EmptyConfig)
  BY DEF ConfigOK, Whole, IsPart, Templated, Filled, Refs, Roots, EmptyConfig

LEMMA StripKeeps ==
    ASSUME NEW part, Filled(part)
    PROVE  /\ DOMAIN Strip(part) = DOMAIN part
           /\ \A n \in DOMAIN part :
                /\ IsEntry(Strip(part)[n])
                /\ Strip(part)[n].ref = part[n].ref
                /\ Strip(part)[n].stopped = part[n].stopped
                /\ part[n].ref = NoRef => Strip(part)[n] = part[n]
           /\ Roots(Strip(part)) = Roots(part) /\ Refs(Strip(part)) = Refs(part)
<1>1. ASSUME NEW n \in DOMAIN part
      PROVE  /\ IsEntry(Strip(part)[n])
             /\ Strip(part)[n].ref = part[n].ref
             /\ Strip(part)[n].stopped = part[n].stopped
             /\ part[n].ref = NoRef => Strip(part)[n] = part[n]
  BY DEF Strip, Filled, IsEntry
<1>2. DOMAIN Strip(part) = DOMAIN part
  BY DEF Strip
<1> QED
  BY <1>1, <1>2 DEF Roots, Refs

(* A part whose references all have roots is written and read again with   *)
(* its settings: its own, or those of its root.                            *)
LEMMA InlinedIs ==
    ASSUME NEW part, Filled(part), Refs(part) \subseteq Roots(part)
    PROVE  Inlined(Strip(part)) = Strip(part)
<1> DEFINE S == Strip(part)
<1>1. S = [n \in DOMAIN S |-> S[n]]
  BY DEF Strip
<1>2. \A n \in DOMAIN S : IsEntry(S[n]) /\ (S[n].ref = NoRef \/ S[n].ref \in Roots(S))
  BY StripKeeps DEF Refs
<1> HIDE DEF S
<1>3. \A n \in DOMAIN S :
         (IF S[n].ref \in Roots(S) THEN S[n] ELSE [S[n] EXCEPT !.ref = NoRef]) = S[n]
  BY <1>2 DEF IsEntry
<1>4. Inlined(S) = S
  BY <1>1, <1>3 DEF Inlined
<1> QED
  BY <1>4 DEF S

LEMMA ReadBack ==
    ASSUME NEW part, Filled(part), Refs(part) \subseteq Roots(part),
           NEW n \in DOMAIN part
    PROVE  LET R == Resolved(Strip(part), Templates(part)) IN
           /\ DOMAIN R = DOMAIN part
           /\ IsEntry(R[n]) /\ R[n].ref = part[n].ref /\ R[n].stopped = part[n].stopped
           /\ part[n].ref = NoRef => R[n] = part[n]
           /\ part[n].ref # NoRef => part[n].ref \in DOMAIN part /\ R[n].cfg = part[part[n].ref].cfg
<1> DEFINE S == Strip(part)
           R == Resolved(S, Templates(part))
<1>1. /\ DOMAIN S = DOMAIN part /\ IsEntry(S[n]) /\ S[n].ref = part[n].ref
      /\ S[n].stopped = part[n].stopped /\ (part[n].ref = NoRef => S[n] = part[n])
  BY StripKeeps
<1>2. part[n].ref # NoRef => part[n].ref \in Roots(part)
  BY DEF Refs
<1>3. part[n].ref # NoRef => part[n].ref \in DOMAIN part
                             /\ Templates(part)[part[n].ref] = part[part[n].ref].cfg
  BY <1>2 DEF Roots, Templates
<1> HIDE DEF S
<1>4. /\ DOMAIN R = DOMAIN S
      /\ R[n] = IF S[n].ref = NoRef THEN S[n]
                ELSE [S[n] EXCEPT !.cfg = Templates(part)[S[n].ref]]
  BY <1>1 DEF Resolved
<1> QED
  BY <1>1, <1>3, <1>4 DEF IsEntry, S

(* Two parts that read the same on disk: they differ at most in the        *)
(* settings a child holds in memory, which are its root's when written.    *)
SamePart(p, q) ==
    /\ DOMAIN p = DOMAIN q
    /\ \A n \in DOMAIN p :
         /\ IsEntry(p[n]) /\ IsEntry(q[n])
         /\ p[n].ref = q[n].ref /\ p[n].stopped = q[n].stopped
         /\ p[n].ref \in {NoRef, n} => p[n].cfg = q[n].cfg

Same(c, d) ==
    /\ Whole(c) /\ Whole(d)
    /\ c.agent = d.agent /\ c.dfc = d.dfc /\ c.dm = d.dm /\ c.dc = d.dc
    /\ c.historian = d.historian
    /\ SamePart(c.pc, d.pc) /\ SamePart(c.sp, d.sp)

(* What is written can be read, and reads as the same.                     *)
LEMMA RoundTrip ==
    ASSUME NEW c, ConfigOK(c), NEW y \in convertSpecToYaml(c)
    PROVE  \E d : convertYamlToSpec(y) = {d} /\ Same(c, d) /\ ConfigOK(d)
<1> DEFINE P == Resolved(Strip(c.pc), Templates(c.pc))
           S == Resolved(Strip(c.sp), Templates(c.sp))
           d == [agent |-> c.agent, dfc |-> c.dfc, dm |-> c.dm, dc |-> c.dc,
                 historian |-> c.historian, pc |-> P, sp |-> S]
<1>1. Filled(c.pc) /\ Filled(c.sp) /\ Refs(c.sp) \subseteq Roots(c.sp)
  BY DEF ConfigOK, Whole
<1>2. /\ Refs(c.pc) \subseteq Roots(c.pc)
      /\ y = [agent |-> c.agent, dfc |-> c.dfc, dm |-> c.dm, dc |-> c.dc,
              historian |-> c.historian,
              pc |-> Strip(c.pc), pcTemplates |-> Templates(c.pc),
              sp |-> Strip(c.sp), spTemplates |-> Templates(c.sp)]
  BY <1>1, InlinedIs DEF convertSpecToYaml
<1>3. Refs(y.pc) \subseteq DOMAIN y.pcTemplates /\ Refs(y.sp) \subseteq DOMAIN y.spTemplates
  <2>1. Refs(Strip(c.pc)) = Refs(c.pc) /\ Refs(Strip(c.sp)) = Refs(c.sp)
    BY <1>1, StripKeeps
  <2>2. DOMAIN Templates(c.pc) = Roots(c.pc) /\ DOMAIN Templates(c.sp) = Roots(c.sp)
    BY DEF Templates
  <2> QED
    BY <1>1, <1>2, <2>1, <2>2
<1>4. convertYamlToSpec(y) = {d}
  BY <1>2, <1>3 DEF convertYamlToSpec
<1>5. ASSUME NEW part, Filled(part), Refs(part) \subseteq Roots(part)
      PROVE  LET R == Resolved(Strip(part), Templates(part)) IN
             /\ SamePart(part, R) /\ Filled(R)
             /\ Roots(R) = Roots(part) /\ Refs(R) = Refs(part)
  <2> DEFINE R == Resolved(Strip(part), Templates(part))
  <2>1. \A n \in DOMAIN part :
           /\ IsEntry(R[n]) /\ R[n].ref = part[n].ref /\ R[n].stopped = part[n].stopped
           /\ part[n].ref = NoRef => R[n] = part[n]
           /\ part[n].ref # NoRef => /\ part[n].ref \in DOMAIN part
                                     /\ R[n].cfg = part[part[n].ref].cfg
    BY <1>5, ReadBack
  <2>2. DOMAIN R = DOMAIN part
    BY StripKeeps, <1>5 DEF Resolved
  <2>3. \A n \in DOMAIN part : IsEntry(part[n]) /\ DOMAIN part[n].cfg # {}
    BY <1>5 DEF Filled
  <2> HIDE DEF R
  <2>4. SamePart(part, R)
    BY <2>1, <2>2, <2>3 DEF SamePart
  <2>5. Filled(R)
    BY <2>1, <2>2, <2>3 DEF Filled
  <2>6. Roots(R) = Roots(part) /\ Refs(R) = Refs(part)
    BY <2>1, <2>2 DEF Roots, Refs
  <2> QED
    BY <2>4, <2>5, <2>6 DEF R
<1>6. /\ SamePart(c.pc, P) /\ Filled(P)
      /\ SamePart(c.sp, S) /\ Filled(S) /\ Roots(S) = Roots(c.sp) /\ Refs(S) = Refs(c.sp)
  BY <1>1, <1>2, <1>5
<1> HIDE DEF P, S
<1>7. Whole(d) /\ Whole(c)
  BY <1>1, <1>6 DEF Whole, ConfigOK
<1>8. Same(c, d)
  BY <1>6, <1>7 DEF Same
<1>9. Templated(d)
  BY <1>6 DEF Templated, ConfigOK, SamePart
<1> QED
  BY <1>4, <1>7, <1>8, <1>9 DEF ConfigOK

LEMMA WrittenOK ==
    ASSUME NEW c, ConfigOK(c), NEW y \in convertSpecToYaml(c)
    PROVE  YamlOK(y)
  BY RoundTrip DEF YamlOK

(* Configurations that are the same are written alike.                     *)
LEMMA SameStrip ==
    ASSUME NEW p, NEW q, SamePart(p, q)
    PROVE  /\ Strip(p) = Strip(q) /\ Templates(p) = Templates(q)
           /\ Roots(p) = Roots(q) /\ Refs(p) = Refs(q)
<1>1. Roots(p) = Roots(q) /\ Refs(p) = Refs(q)
  BY DEF SamePart, Roots, Refs
<1>2. \A r \in Roots(p) : p[r].cfg = q[r].cfg
  BY DEF Roots, SamePart
<1>3. Templates(p) = Templates(q)
  BY <1>1, <1>2 DEF Templates
<1>4. \A n \in DOMAIN p :
         (IF p[n].ref = NoRef THEN p[n] ELSE [p[n] EXCEPT !.cfg = <<>>])
         = (IF q[n].ref = NoRef THEN q[n] ELSE [q[n] EXCEPT !.cfg = <<>>])
  BY DEF SamePart, IsEntry
<1>5. Strip(p) = Strip(q)
  BY <1>4 DEF Strip, SamePart
<1> QED
  BY <1>1, <1>3, <1>5

LEMMA SameYaml ==
    ASSUME NEW c, NEW d, Same(c, d)
    PROVE  convertSpecToYaml(c) = convertSpecToYaml(d)
<1>1. /\ Strip(c.pc) = Strip(d.pc) /\ Templates(c.pc) = Templates(d.pc)
      /\ Roots(c.pc) = Roots(d.pc) /\ Refs(c.pc) = Refs(d.pc)
      /\ Strip(c.sp) = Strip(d.sp) /\ Templates(c.sp) = Templates(d.sp)
  BY SameStrip DEF Same
<1> QED
  BY <1>1 DEF Same, convertSpecToYaml

-----------------------------------------------------------------------------
(* The edits.                                                              *)

IsFilledEntry(e) == IsEntry(e) /\ DOMAIN e.cfg # {}

LEMMA WithKeeps ==
    ASSUME NEW p, NEW q, SamePart(p, q), Filled(p), Filled(q), NEW n, NEW e, IsFilledEntry(e)
    PROVE  /\ Filled(With(p, n, e)) /\ Filled(With(q, n, e))
           /\ SamePart(With(p, n, e), With(q, n, e))
<1>1. DOMAIN With(p, n, e) = DOMAIN p \cup {n} /\ DOMAIN With(q, n, e) = DOMAIN p \cup {n}
  BY DEF With, SamePart
<1>2. \A m \in DOMAIN p \cup {n} : /\ With(p, n, e)[m] = IF m = n THEN e ELSE p[m]
                                  /\ With(q, n, e)[m] = IF m = n THEN e ELSE q[m]
  BY DEF With, SamePart
<1> QED
  BY <1>1, <1>2 DEF Filled, SamePart, IsFilledEntry

LEMMA WithoutKeeps ==
    ASSUME NEW p, NEW q, SamePart(p, q), Filled(p), Filled(q), NEW n
    PROVE  /\ Filled(Without(p, n)) /\ Filled(Without(q, n))
           /\ SamePart(Without(p, n), Without(q, n))
           /\ DOMAIN Without(p, n) = DOMAIN p \ {n}
           /\ \A m \in DOMAIN p \ {n} : Without(p, n)[m] = p[m]
  BY WithoutIs DEF Filled, SamePart

LEMMA RenamedKeeps ==
    ASSUME NEW p, NEW q, SamePart(p, q), Filled(p), Filled(q), NEW n, NEW to,
           n \notin DOMAIN p, to \notin DOMAIN p \cup {NoRef}
    PROVE  /\ Filled(Renamed(p, n, to)) /\ Filled(Renamed(q, n, to))
           /\ SamePart(Renamed(p, n, to), Renamed(q, n, to))
<1>1. DOMAIN Renamed(p, n, to) = DOMAIN p /\ DOMAIN Renamed(q, n, to) = DOMAIN p
  BY DEF Renamed, SamePart
<1>2. \A m \in DOMAIN p :
         /\ Renamed(p, n, to)[m] = IF p[m].ref = n THEN [p[m] EXCEPT !.ref = to] ELSE p[m]
         /\ Renamed(q, n, to)[m] = IF q[m].ref = n THEN [q[m] EXCEPT !.ref = to] ELSE q[m]
  BY DEF Renamed, SamePart
<1> QED
  BY <1>1, <1>2 DEF Filled, SamePart, IsEntry

(* What the actions ask for. *)
EditOK(e) ==
    /\ e.op \in {"add", "edit", "delete"}
    /\ e.part \in {"dfc", "pc", "sp", "dm", "dc", "historian"}
    /\ e.op # "delete" /\ e.part \in {"pc", "sp"} =>
         IsFilledEntry(e.entry) /\ NoRef \notin {e.name, e.to}
    /\ e.op # "delete" /\ e.part = "sp" =>
         e.entry.ref = e.name \/ (e.op = "edit" /\ e.entry.ref = NoRef /\ StandAlone(e.name))

(* An edit that is made to one of two configurations that are the same can *)
(* be made to the other one, and the results are the same.  Bridges:       *)
LEMMA ApplyPcSame ==
    ASSUME NEW c, NEW d, Same(c, d), NEW e, EditOK(e), e.part = "pc", NEW r \in ApplyPc(e, c)
    PROVE  \E p, q : /\ r = [c EXCEPT !.pc = p] /\ [d EXCEPT !.pc = q] \in ApplyPc(e, d)
                     /\ SamePart(p, q) /\ Filled(p) /\ Filled(q)
<1>1. /\ SamePart(c.pc, d.pc) /\ Filled(c.pc) /\ Filled(d.pc) /\ DOMAIN c.pc = DOMAIN d.pc
      /\ Roots(c.pc) = Roots(d.pc)
  BY SameStrip DEF Same, Whole, SamePart
<1>2. CASE e.op = "add"
  <2>1. /\ e.name \notin DOMAIN c.pc /\ e.entry.ref \in {NoRef, e.name} \cup Roots(c.pc)
        /\ r = [c EXCEPT !.pc = With(c.pc, e.name, e.entry)]
    BY <1>2 DEF ApplyPc, AtomicAddProtocolConverter
  <2>2. [d EXCEPT !.pc = With(d.pc, e.name, e.entry)] \in ApplyPc(e, d)
    BY <1>1, <1>2, <2>1 DEF ApplyPc, AtomicAddProtocolConverter
  <2> QED
    BY <1>1, <1>2, <2>1, <2>2, WithKeeps DEF EditOK
<1>3. CASE e.op = "edit"
  <2> DEFINE n == e.name
             to == e.to
             follow(part) == IF n \in Roots(c.pc) /\ e.entry.ref = to
                             THEN Renamed(Without(part, n), n, to) ELSE Without(part, n)
  <2>1. /\ n \in DOMAIN c.pc /\ (to = n \/ to \notin DOMAIN c.pc)
        /\ ~(n \notin Roots(c.pc) /\ e.entry.ref # NoRef)
        /\ r = [c EXCEPT !.pc = With(follow(c.pc), to, e.entry)]
    BY <1>3 DEF ApplyPc, AtomicEditProtocolConverter
  <2>2. [d EXCEPT !.pc = With(follow(d.pc), to, e.entry)] \in ApplyPc(e, d)
    BY <1>1, <1>3, <2>1 DEF ApplyPc, AtomicEditProtocolConverter
  <2>3. /\ Filled(follow(c.pc)) /\ Filled(follow(d.pc))
        /\ SamePart(follow(c.pc), follow(d.pc))
    <3>1. /\ Filled(Without(c.pc, n)) /\ Filled(Without(d.pc, n))
          /\ SamePart(Without(c.pc, n), Without(d.pc, n))
          /\ DOMAIN Without(c.pc, n) = DOMAIN c.pc \ {n}
      BY <1>1, WithoutKeeps
    <3>2. n \notin DOMAIN Without(c.pc, n) /\ to \notin DOMAIN Without(c.pc, n) \cup {NoRef}
      BY <1>3, <2>1, <3>1 DEF EditOK
    <3> QED
      BY <3>1, <3>2, RenamedKeeps
  <2>4. /\ Filled(With(follow(c.pc), to, e.entry)) /\ Filled(With(follow(d.pc), to, e.entry))
        /\ SamePart(With(follow(c.pc), to, e.entry), With(follow(d.pc), to, e.entry))
    <3> HIDE DEF follow
    <3> QED
      BY <1>3, <2>3, WithKeeps DEF EditOK
  <2> QED
    BY <2>1, <2>2, <2>4
<1>4. CASE e.op = "delete"
  <2>1. Children(c.pc, e.name) = Children(d.pc, e.name)
    BY <1>1 DEF Children, SamePart
  <2>2. r = [c EXCEPT !.pc = Without(c.pc, e.name)]
    BY <1>4 DEF ApplyPc, AtomicDeleteProtocolConverter
  <2>3. [d EXCEPT !.pc = Without(d.pc, e.name)] \in ApplyPc(e, d)
    BY <1>1, <1>4, <2>1 DEF ApplyPc, AtomicDeleteProtocolConverter
  <2>4. /\ Filled(Without(c.pc, e.name)) /\ Filled(Without(d.pc, e.name))
        /\ SamePart(Without(c.pc, e.name), Without(d.pc, e.name))
    BY <1>1, WithoutKeeps
  <2> QED
    BY <2>2, <2>3, <2>4
<1> QED
  BY <1>2, <1>3, <1>4 DEF EditOK

(* Stream processors, whose templates keep their roots:                    *)
Rooted(part) ==
    /\ Refs(part) \subseteq Roots(part)
    /\ \A n \in DOMAIN part : IF part[n].ref = NoRef THEN StandAlone(n)
                              ELSE part[n].ref # n => ~StandAlone(part[n].ref)

LEMMA WithRooted ==
    ASSUME NEW p, Rooted(p), NEW n, n \in DOMAIN p => p[n].ref \in {NoRef, n}, n # NoRef,
           NEW e, e.ref = n \/ (e.ref = NoRef /\ StandAlone(n))
    PROVE  Rooted(With(p, n, e))
<1> DEFINE w == With(p, n, e)
<1>1. DOMAIN w = DOMAIN p \cup {n} /\ w[n] = e /\ \A m \in DOMAIN p : m # n => w[m] = p[m]
  BY DEF With
<1>2. \A m \in DOMAIN p : p[m].ref # NoRef => /\ p[m].ref \in DOMAIN p
                                             /\ p[p[m].ref].ref = p[m].ref
  BY DEF Rooted, Refs, Roots
<1>3. \A m \in DOMAIN p : p[m].ref = n /\ m # n => ~StandAlone(n)
  BY DEF Rooted
<1> HIDE DEF w
<1>4. \A m \in DOMAIN w : w[m].ref # NoRef => w[m].ref \in DOMAIN w /\ w[w[m].ref].ref = w[m].ref
  <2> SUFFICES ASSUME NEW m \in DOMAIN w, w[m].ref # NoRef
               PROVE  w[m].ref \in DOMAIN w /\ w[w[m].ref].ref = w[m].ref
    OBVIOUS
  <2>1. CASE m = n
    BY <1>1, <2>1
  <2>2. CASE m # n /\ w[m].ref = n
    BY <1>1, <1>3, <2>2
  <2>3. CASE m # n /\ w[m].ref # n
    BY <1>1, <1>2, <2>3
  <2> QED
    BY <2>1, <2>2, <2>3
<1>5. Refs(w) \subseteq Roots(w)
  BY <1>4 DEF Refs, Roots
<1>6. \A m \in DOMAIN w : IF w[m].ref = NoRef THEN StandAlone(m)
                          ELSE w[m].ref # m => ~StandAlone(w[m].ref)
  BY <1>1 DEF Rooted
<1> QED
  BY <1>5, <1>6 DEF Rooted, w

LEMMA WithoutRooted ==
    ASSUME NEW p, Rooted(p), NEW n, n \in Roots(p) => Children(p, n) = {}
    PROVE  Rooted(Without(p, n))
<1> DEFINE w == Without(p, n)
<1>1. DOMAIN w = DOMAIN p \ {n} /\ \A m \in DOMAIN w : w[m] = p[m]
  BY WithoutIs
<1>2. \A m \in DOMAIN p : p[m].ref # NoRef => /\ p[m].ref \in DOMAIN p
                                             /\ p[p[m].ref].ref = p[m].ref
  BY DEF Rooted, Refs, Roots
<1>3. \A m \in DOMAIN p : m # n /\ p[m].ref # NoRef => p[m].ref # n
  BY <1>2 DEF Roots, Children
<1> HIDE DEF w
<1>4. Refs(w) \subseteq Roots(w)
  BY <1>1, <1>2, <1>3 DEF Refs, Roots
<1> QED
  BY <1>1, <1>4 DEF Rooted, w

LEMMA ApplySpSame ==
    ASSUME NEW c, NEW d, Same(c, d), Rooted(c.sp), NEW e, EditOK(e), e.part = "sp",
           NEW r \in ApplySp(e, c)
    PROVE  \E p, q : /\ r = [c EXCEPT !.sp = p] /\ [d EXCEPT !.sp = q] \in ApplySp(e, d)
                     /\ SamePart(p, q) /\ Filled(p) /\ Filled(q) /\ Rooted(p)
<1> DEFINE n == e.name
<1>1. /\ SamePart(c.sp, d.sp) /\ Filled(c.sp) /\ Filled(d.sp) /\ DOMAIN c.sp = DOMAIN d.sp
      /\ Roots(c.sp) = Roots(d.sp)
  BY SameStrip DEF Same, Whole, SamePart
<1>2. ASSUME e.op # "delete"
      PROVE  /\ Filled(With(c.sp, n, e.entry)) /\ Filled(With(d.sp, n, e.entry))
             /\ SamePart(With(c.sp, n, e.entry), With(d.sp, n, e.entry))
  BY <1>1, <1>2, WithKeeps DEF EditOK
<1>3. CASE e.op = "add"
  <2>1. /\ n \notin DOMAIN c.sp /\ e.entry.ref \in {NoRef, n} \cup Roots(c.sp)
        /\ r = [c EXCEPT !.sp = With(c.sp, n, e.entry)]
    BY <1>3 DEF ApplySp, AtomicAddStreamProcessor
  <2>2. [d EXCEPT !.sp = With(d.sp, n, e.entry)] \in ApplySp(e, d)
    BY <1>1, <1>3, <2>1 DEF ApplySp, AtomicAddStreamProcessor
  <2>3. Rooted(With(c.sp, n, e.entry))
    BY <1>3, <2>1, WithRooted DEF EditOK
  <2> QED
    BY <1>2, <1>3, <2>1, <2>2, <2>3
<1>4. CASE e.op = "edit"
  <2>1. /\ n \in DOMAIN c.sp /\ c.sp[n].ref \in {NoRef, n}
        /\ r = [c EXCEPT !.sp[n] = e.entry]
    BY <1>4 DEF ApplySp, AtomicEditStreamProcessor
  <2>2. [d EXCEPT !.sp[n] = e.entry] \in ApplySp(e, d)
    BY <1>1, <1>4, <2>1 DEF ApplySp, AtomicEditStreamProcessor, SamePart
  <2>3. ASSUME NEW x, n \in DOMAIN x.sp
        PROVE  [x EXCEPT !.sp[n] = e.entry] = [x EXCEPT !.sp = With(x.sp, n, e.entry)]
    <3>1. [x.sp EXCEPT ![n] = e.entry] = With(x.sp, n, e.entry)
      BY <2>3 DEF With
    <3> QED
      BY <3>1
  <2>4. Rooted(With(c.sp, n, e.entry))
    BY <1>4, <2>1, WithRooted DEF EditOK
  <2>5. /\ r = [c EXCEPT !.sp = With(c.sp, n, e.entry)]
        /\ [d EXCEPT !.sp = With(d.sp, n, e.entry)] \in ApplySp(e, d)
    BY <1>1, <2>1, <2>2, <2>3
  <2> QED
    BY <1>2, <1>4, <2>4, <2>5
<1>5. CASE e.op = "delete"
  <2>1. Children(c.sp, n) = Children(d.sp, n)
    BY <1>1 DEF Children, SamePart
  <2>2. /\ r = [c EXCEPT !.sp = Without(c.sp, n)]
        /\ n \in Roots(c.sp) => Children(c.sp, n) = {}
    BY <1>5 DEF ApplySp, AtomicDeleteStreamProcessor
  <2>3. [d EXCEPT !.sp = Without(d.sp, n)] \in ApplySp(e, d)
    BY <1>1, <1>5, <2>1 DEF ApplySp, AtomicDeleteStreamProcessor
  <2>4. /\ Filled(Without(c.sp, n)) /\ Filled(Without(d.sp, n))
        /\ SamePart(Without(c.sp, n), Without(d.sp, n))
    BY <1>1, WithoutKeeps
  <2>5. Rooted(Without(c.sp, n))
    BY <2>2, WithoutRooted
  <2> QED
    BY <2>2, <2>3, <2>4, <2>5
<1> QED
  BY <1>3, <1>4, <1>5 DEF EditOK

LEMMA RootedIs ==
    ASSUME NEW c, ConfigOK(c)
    PROVE  Rooted(c.sp)
  BY DEF ConfigOK, Whole, Templated, Rooted

(* The other parts are on disk what they are in memory.                    *)
LEMMA PlainSame ==
    ASSUME NEW c, NEW d, ConfigOK(c), Same(c, d), NEW v
    PROVE  /\ IsPart(v) => /\ ConfigOK([c EXCEPT !.dfc = v])
                           /\ Same([c EXCEPT !.dfc = v], [d EXCEPT !.dfc = v])
           /\ ConfigOK([c EXCEPT !.dm = v]) /\ Same([c EXCEPT !.dm = v], [d EXCEPT !.dm = v])
           /\ ConfigOK([c EXCEPT !.dc = v]) /\ Same([c EXCEPT !.dc = v], [d EXCEPT !.dc = v])
           /\ ConfigOK([c EXCEPT !.historian = v])
           /\ Same([c EXCEPT !.historian = v], [d EXCEPT !.historian = v])
<1>1. Whole(c) /\ Whole(d) /\ Templated(c)
  BY DEF ConfigOK, Same
<1>2. IsPart(v) => ConfigOK([c EXCEPT !.dfc = v]) /\ Same([c EXCEPT !.dfc = v], [d EXCEPT !.dfc = v])
  BY <1>1 DEF ConfigOK, Same, Whole, Templated
<1>3. ConfigOK([c EXCEPT !.dm = v]) /\ Same([c EXCEPT !.dm = v], [d EXCEPT !.dm = v])
  BY <1>1 DEF ConfigOK, Same, Whole, Templated
<1>4. ConfigOK([c EXCEPT !.dc = v]) /\ Same([c EXCEPT !.dc = v], [d EXCEPT !.dc = v])
  BY <1>1 DEF ConfigOK, Same, Whole, Templated
<1>5. /\ ConfigOK([c EXCEPT !.historian = v])
      /\ Same([c EXCEPT !.historian = v], [d EXCEPT !.historian = v])
  BY <1>1 DEF ConfigOK, Same, Whole, Templated
<1> QED
  BY <1>2, <1>3, <1>4, <1>5

LEMMA ApplyOK ==
    ASSUME NEW c, NEW d, ConfigOK(c), Same(c, d), NEW e, EditOK(e), NEW r \in Apply(e, c)
    PROVE  ConfigOK(r) /\ \E x \in Apply(e, d) : Same(r, x)
<1>1. /\ Whole(c) /\ Whole(d) /\ c.dfc = d.dfc /\ c.dm = d.dm /\ c.dc = d.dc
      /\ c.historian = d.historian
  BY DEF Same
<1>2. CASE e.part = "dfc"
  <2>1. Apply(e, c) = ApplyDfc(e, c) /\ Apply(e, d) = ApplyDfc(e, d)
    BY <1>2 DEF Apply
  <2>2. \E v : r = [c EXCEPT !.dfc = v] /\ [d EXCEPT !.dfc = v] \in ApplyDfc(e, d) /\ IsPart(v)
    <3>0. ASSUME NEW p, NEW n, NEW x PROVE IsPart(With(p, n, x)) /\ IsPart(Without(p, n))
      BY WithoutIs DEF With, IsPart
    <3>1. CASE e.op = "add"
      BY <1>1, <2>1, <3>0, <3>1 DEF ApplyDfc, AtomicAddDataflowcomponent
    <3>2. CASE e.op = "edit"
      BY <1>1, <2>1, <3>0, <3>2 DEF ApplyDfc, AtomicEditDataflowcomponent
    <3>3. CASE e.op = "delete"
      BY <1>1, <2>1, <3>0, <3>3 DEF ApplyDfc, AtomicDeleteDataflowcomponent
    <3> QED
      BY <3>1, <3>2, <3>3 DEF EditOK
  <2>3. PICK v : r = [c EXCEPT !.dfc = v] /\ [d EXCEPT !.dfc = v] \in ApplyDfc(e, d) /\ IsPart(v)
    BY <2>2
  <2>4. ConfigOK(r) /\ Same(r, [d EXCEPT !.dfc = v])
    BY <2>3, PlainSame
  <2> QED
    BY <2>1, <2>3, <2>4
<1>3. CASE e.part = "dm"
  <2>1. Apply(e, c) = ApplyDm(e, c) /\ Apply(e, d) = ApplyDm(e, d)
    BY <1>3 DEF Apply
  <2>2. \E v : r = [c EXCEPT !.dm = v] /\ [d EXCEPT !.dm = v] \in ApplyDm(e, d)
    <3>1. CASE e.op = "add"
      BY <1>1, <2>1, <3>1 DEF ApplyDm, AtomicAddDataModel
    <3>2. CASE e.op = "edit"
      <4> DEFINE v == [c.dm EXCEPT ![e.name] = @ + 1]
      <4>1. r = [c EXCEPT !.dm = v] /\ e.name \in DOMAIN d.dm
        BY <1>1, <2>1, <3>2 DEF ApplyDm, AtomicEditDataModel
      <4>2. ApplyDm(e, d) = {[d EXCEPT !.dm[e.name] = @ + 1]}
        BY <3>2, <4>1 DEF ApplyDm, AtomicEditDataModel
      <4>3. [d EXCEPT !.dm[e.name] = @ + 1] = [d EXCEPT !.dm = v]
        BY <1>1
      <4> QED
        BY <4>1, <4>2, <4>3
    <3>3. CASE e.op = "delete"
      BY <1>1, <2>1, <3>3 DEF ApplyDm, AtomicDeleteDataModel
    <3> QED
      BY <3>1, <3>2, <3>3 DEF EditOK
  <2>3. PICK v : r = [c EXCEPT !.dm = v] /\ [d EXCEPT !.dm = v] \in ApplyDm(e, d)
    BY <2>2
  <2>4. ConfigOK(r) /\ Same(r, [d EXCEPT !.dm = v])
    BY <2>3, PlainSame
  <2> QED
    BY <2>1, <2>3, <2>4
<1>4. CASE e.part = "dc"
  <2>1. /\ Apply(e, c) = AtomicAddDataContract(c, e.name, e.to)
        /\ Apply(e, d) = AtomicAddDataContract(d, e.name, e.to)
    BY <1>4 DEF Apply
  <2> DEFINE v == c.dc \cup {<<e.name, e.to>>}
  <2>2. <<e.name, e.to>> \notin c.dc /\ r = [c EXCEPT !.dc = v]
    BY <2>1 DEF AtomicAddDataContract
  <2>3. Apply(e, d) = {[d EXCEPT !.dc = v]}
    BY <1>1, <2>1, <2>2 DEF AtomicAddDataContract
  <2> HIDE DEF v
  <2>4. ConfigOK(r) /\ Same(r, [d EXCEPT !.dc = v])
    BY <2>2, PlainSame
  <2> QED
    BY <2>3, <2>4
<1>5. CASE e.part = "historian"
  <2>1. Apply(e, c) = ApplyHistorian(e, c) /\ Apply(e, d) = ApplyHistorian(e, d)
    BY <1>5 DEF Apply
  <2>2. PICK v : r = [c EXCEPT !.historian = v] /\ [d EXCEPT !.historian = v] \in ApplyHistorian(e, d)
    BY <1>1, <1>5, <2>1 DEF ApplyHistorian, AtomicSetHistorian, AtomicEditHistorian,
                            AtomicDeleteHistorian, EditOK
  <2>3. ConfigOK(r) /\ Same(r, [d EXCEPT !.historian = v])
    BY <2>2, PlainSame
  <2> QED
    BY <2>1, <2>2, <2>3
<1>6. CASE e.part = "pc"
  <2>1. Apply(e, c) = ApplyPc(e, c) /\ Apply(e, d) = ApplyPc(e, d)
    BY <1>6 DEF Apply
  <2>2. PICK p, q : /\ r = [c EXCEPT !.pc = p] /\ [d EXCEPT !.pc = q] \in ApplyPc(e, d)
                    /\ SamePart(p, q) /\ Filled(p) /\ Filled(q)
    BY <1>6, <2>1, ApplyPcSame
  <2>3. ConfigOK(r)
    BY <1>1, <2>2 DEF ConfigOK, Whole, Templated
  <2>4. Whole([d EXCEPT !.pc = q])
    BY <1>1, <2>2 DEF Whole
  <2>5. Same(r, [d EXCEPT !.pc = q])
    BY <1>1, <2>2, <2>3, <2>4 DEF ConfigOK, Same, Whole
  <2> QED
    BY <2>1, <2>2, <2>3, <2>5
<1>7. CASE e.part = "sp"
  <2>1. Apply(e, c) = ApplySp(e, c) /\ Apply(e, d) = ApplySp(e, d)
    BY <1>7 DEF Apply
  <2>2. PICK p, q : /\ r = [c EXCEPT !.sp = p] /\ [d EXCEPT !.sp = q] \in ApplySp(e, d)
                    /\ SamePart(p, q) /\ Filled(p) /\ Filled(q) /\ Rooted(p)
    BY <1>7, <2>1, ApplySpSame, RootedIs
  <2>3. ConfigOK(r)
    BY <1>1, <2>2 DEF ConfigOK, Whole, Templated, Rooted
  <2>4. Roots(p) = Roots(q) /\ Refs(p) = Refs(q)
    BY <2>2, SameStrip
  <2>5. Whole([d EXCEPT !.sp = q])
    BY <1>1, <2>2, <2>4 DEF Whole, Rooted
  <2>6. Same(r, [d EXCEPT !.sp = q])
    BY <1>1, <2>2, <2>3, <2>5 DEF ConfigOK, Same, Whole
  <2> QED
    BY <2>1, <2>2, <2>3, <2>6
<1> QED
  BY <1>2, <1>3, <1>4, <1>5, <1>6, <1>7 DEF EditOK

LEMMA SameSelf ==
    ASSUME NEW c, ConfigOK(c)
    PROVE  Same(c, c)
  BY DEF ConfigOK, Whole, Filled, Same, SamePart

-----------------------------------------------------------------------------
(* What an action holds on to.  Between its update and the end of its wait *)
(* that is the entry it may have to put back.                              *)

IsAct(act) ==
    act = [stage |-> act.stage, phase |-> act.phase, req |-> act.req, edit |-> act.edit,
           next |-> act.next, old |-> act.old, expected |-> act.expected,
           outcome |-> act.outcome, before |-> act.before, alone |-> act.alone,
           hitch |-> act.hitch]

(* The edit of a request's own update. *)
EditFits(req, e) ==
    /\ e.part = req.part
    /\ req.do = "deploy" => e.op = "add" /\ e.name = req.name
    /\ req.do = "edit" =>
         /\ e.op = "edit"
         /\ req.part = "pc" => e.entry.ref = e.to
         /\ req.part = "sp" => e.to = e.name

(* The entry an edit replaces. *)
OldFits(e, old) ==
    e.op = "edit" /\ e.part \in {"pc", "sp"} =>
      /\ IsFilledEntry(old)
      /\ e.part = "sp" => old.ref = e.name \/ (old.ref = NoRef /\ StandAlone(e.name))

Reads(act) ==
    \/ act.phase = "do" /\ ReadsFirst(act.req)
    \/ act.phase = "contract" /\ act.req.part = "dm"
    \/ act.phase = "undo" /\ act.req.do = "deploy" /\ act.req.part = "pc"

ActOK(act) ==
    /\ IsAct(act)
    /\ act.stage \in {"idle", "mutate", "lock", "write", "wait", "set file", "done"}
    /\ act.phase \in {"do", "contract", "undo"}
    /\ act.stage \in {"idle", "set file"} => act.phase = "do"
    /\ act.stage \in {"mutate", "lock", "write", "wait"} =>
         act.req \in Requests /\ act.req.do # "set file"
    /\ act.stage = "mutate" => Reads(act)
    /\ act.stage \in {"lock", "write"} => EditOK(act.edit)
    /\ act.stage \in {"lock", "write", "wait"} /\ act.phase = "do" =>
         EditOK(act.edit) /\ EditFits(act.req, act.edit)
    /\ act.stage = "write" => ConfigOK(act.next)
    /\ act.stage \in {"write", "wait"} /\ act.phase = "do" => OldFits(act.edit, act.old)
    /\ act.stage = "wait" => act.phase = "do" /\ act.req.part \in Parts

LEMMA DoneOK ==
    ASSUME NEW act, NEW outcome
    PROVE  ActOK(Done(act, outcome)) /\ Done(act, outcome).stage = "done"
  BY DEF Done, ActOK, IsAct, ActIdle

LEMMA FailedOK ==
    ASSUME NEW act, ActOK(act)
    PROVE  ActOK(Failed(act)) /\ Failed(act).stage = "done"
  BY DoneOK DEF Failed, ActOK

LEMMA IdleOK == ActOK(ActIdle)
  BY DEF ActOK, IsAct, ActIdle

LEMMA AloneOK ==
    ASSUME NEW act, ActOK(act), NEW lone, lone = [act EXCEPT !.alone = FALSE]
    PROVE  /\ ActOK(lone) /\ lone.stage = act.stage /\ lone.edit = act.edit
           /\ lone.next = act.next
<1>1. IsAct(act)
  BY DEF ActOK
<1>2. /\ IsAct(lone) /\ lone.stage = act.stage /\ lone.phase = act.phase
      /\ lone.req = act.req /\ lone.edit = act.edit /\ lone.next = act.next
      /\ lone.old = act.old
  BY <1>1 DEF IsAct
<1> QED
  BY <1>2 DEF ActOK, Reads

LEMMA HitchOK ==
    ASSUME NEW act, ActOK(act), NEW h, NEW x, x = [act EXCEPT !.hitch = h]
    PROVE  ActOK(x) /\ x.stage = act.stage /\ x.phase = act.phase /\ x.hitch = h
<1>1. IsAct(act)
  BY DEF ActOK
<1>2. /\ IsAct(x) /\ x.stage = act.stage /\ x.phase = act.phase
      /\ x.req = act.req /\ x.edit = act.edit /\ x.next = act.next
      /\ x.old = act.old /\ x.hitch = h
  BY <1>1 DEF IsAct
<1> QED
  BY <1>2 DEF ActOK, Reads

LEMMA FirstEditOK ==
    ASSUME NEW req \in Requests, req.do # "set file", ~ReadsFirst(req)
    PROVE  EditOK(FirstEdit(req)) /\ EditFits(req, FirstEdit(req))
<1> DEFINE e == FirstEdit(req)
<1>1. /\ req.do \in {"deploy", "edit", "delete"}
      /\ req.part \in {"dfc", "pc", "sp", "dm", "historian"}
      /\ req.do \in {"deploy", "edit"} /\ req.part \in {"pc", "sp"} =>
           DOMAIN req.cfg # {} /\ NoRef \notin {req.name, req.to}
  BY RequestsAssumption DEF Parts
<1>2. CASE req.do = "deploy" /\ req.part \in {"pc", "sp"}
  <2>1. e = Add(req.part, req.name, Entry(req.name, req.cfg))
    BY <1>2 DEF FirstEdit, DeployProtocolConverter, DeployStreamProcessor
  <2>2. IsFilledEntry(Entry(req.name, req.cfg)) /\ Entry(req.name, req.cfg).ref = req.name
    BY <1>1, <1>2 DEF IsFilledEntry, IsEntry, Entry
  <2> QED
    BY <1>1, <1>2, <2>1, <2>2 DEF EditOK, EditFits, Add, Edit
<1>3. CASE req.do = "delete" \/ req.part \in {"dfc", "dm", "historian"}
  <2>1. /\ e.part = req.part
        /\ req.do = "deploy" => e.op = "add" /\ e.name = req.name
        /\ req.do = "edit" => e.op = "edit"
        /\ req.do = "delete" => e.op = "delete"
    <3>1. CASE req.part = "dfc"
      BY <1>1, <3>1 DEF FirstEdit, DeployDataflowComponent, EditDataflowComponent,
                        DeleteDataflowComponent, Add, Change, Delete, Edit
    <3>2. CASE req.part = "dm"
      BY <1>1, <3>2 DEF FirstEdit, AddDataModel, EditDataModel, DeleteDataModel,
                        Add, Change, Delete, Edit
    <3>3. CASE req.part = "historian"
      BY <1>1, <3>3 DEF FirstEdit, DeployHistorian, EditHistorian, DeleteHistorian,
                        Add, Change, Delete, Edit
    <3>4. CASE req.part \in {"pc", "sp"} /\ req.do = "delete"
      BY <3>4 DEF FirstEdit, DeleteProtocolConverter, DeleteStreamProcessor, Delete, Edit
    <3> QED
      BY <1>1, <1>3, <3>1, <3>2, <3>3, <3>4
  <2> HIDE DEF e
  <2>2. EditOK(e) /\ EditFits(req, e)
    BY <1>1, <1>3, <2>1 DEF EditOK, EditFits
  <2> QED
    BY <2>2 DEF e
<1> QED
  BY <1>1, <1>2, <1>3 DEF ReadsFirst

LEMMA EntryStops ==
    ASSUME NEW entry, IsFilledEntry(entry), NEW s,
           NEW x, x = [entry EXCEPT !.stopped = @ \cup s]
    PROVE  IsFilledEntry(x)
<1>1. IsEntry(entry) /\ DOMAIN entry.cfg # {}
  BY DEF IsFilledEntry
<1>2. IsEntry(x) /\ x.cfg = entry.cfg
  BY <1>1 DEF IsEntry
<1> QED
  BY <1>1, <1>2 DEF IsFilledEntry

LEMMA MutationsOK ==
    ASSUME NEW act, ActOK(act), act.stage = "mutate", NEW c, ConfigOK(c),
           NEW e \in Mutations(act, c)
    PROVE  EditOK(e) /\ (act.phase = "do" => EditFits(act.req, e))
<1> DEFINE req == act.req
<1>1. /\ req \in Requests /\ Reads(act) /\ req.do # "set file"
      /\ Filled(c.pc) /\ Filled(c.sp)
  BY DEF ActOK, ConfigOK, Whole
<1>2. CASE act.phase = "contract"
  <2>1. \E v : e = AddContract(req, v)
    BY <1>2 DEF Mutations
  <2> QED
    BY <1>2, <2>1 DEF EditOK, AddContract, Edit
<1>3. CASE act.phase = "undo"
  <2>1. req.part = "pc" /\ req.name # NoRef
    BY <1>1, <1>3, RequestsAssumption DEF Reads
  <2>2. req.name \in DOMAIN c.pc /\ e \in StopFlows(req, c.pc[req.name])
    BY <1>3, <2>1 DEF Mutations
  <2>3. PICK s : e = Change("pc", req.name, req.name,
                            [c.pc[req.name] EXCEPT !.stopped = @ \cup s])
    BY <2>2 DEF StopFlows
  <2>4. PICK entry : entry = [c.pc[req.name] EXCEPT !.stopped = @ \cup s]
    OBVIOUS
  <2>5. e = Change("pc", req.name, req.name, entry)
    BY <2>3, <2>4
  <2>6. IsFilledEntry(c.pc[req.name])
    BY <1>1, <2>2 DEF Filled, IsFilledEntry
  <2>7. IsFilledEntry(entry)
    BY <2>4, <2>6, EntryStops
  <2> QED
    BY <1>3, <2>1, <2>5, <2>7 DEF EditOK, Change, Edit
<1>4. CASE act.phase = "do" /\ req.part = "pc"
  <2>1. /\ NoRef \notin {req.name, req.to} /\ req.do = "edit"
    BY <1>1, <1>4, RequestsAssumption DEF Reads, ReadsFirst
  <2>2. req.name \in DOMAIN c.pc /\ e = EditProtocolConverter(req, c.pc[req.name])
    BY <1>4 DEF Mutations
  <2> DEFINE merged == Merged(c.pc[req.name].cfg, req.cfg)
  <2>3. DOMAIN merged # {}
    BY <1>1, <2>2 DEF Merged, Filled
  <2>4. PICK entry : entry = [c.pc[req.name] EXCEPT !.ref = req.to, !.cfg = merged]
    OBVIOUS
  <2>5. e = Change("pc", req.name, req.to, entry)
    BY <2>2, <2>4 DEF EditProtocolConverter
  <2> HIDE DEF merged
  <2>6. PICK was : was = c.pc[req.name] /\ IsEntry(was)
    BY <1>1, <2>2 DEF Filled
  <2>7. entry = [was EXCEPT !.ref = req.to, !.cfg = merged]
    BY <2>4, <2>6
  <2>8. IsEntry(entry) /\ entry.ref = req.to /\ entry.cfg = merged
    BY <2>6, <2>7 DEF IsEntry
  <2> QED
    BY <1>4, <2>1, <2>3, <2>5, <2>8 DEF IsFilledEntry, EditOK, EditFits, Change, Edit
<1>5. CASE act.phase = "do" /\ req.part = "sp"
  <2>1. /\ NoRef \notin {req.name, req.to} /\ req.do = "edit" /\ DOMAIN req.cfg # {}
    BY <1>1, <1>5, RequestsAssumption DEF Reads, ReadsFirst
  <2>2. req.name \in DOMAIN c.sp /\ e = EditStreamProcessor(req, c.sp[req.name])
    BY <1>5 DEF Mutations
  <2>3. PICK entry : entry = [c.sp[req.name] EXCEPT !.ref = req.to, !.cfg = req.cfg]
    OBVIOUS
  <2>4. e = Change("sp", req.to, req.to, entry)
    BY <2>2, <2>3 DEF EditStreamProcessor
  <2>5. PICK was : was = c.sp[req.name] /\ IsEntry(was)
    BY <1>1, <2>2 DEF Filled
  <2>6. entry = [was EXCEPT !.ref = req.to, !.cfg = req.cfg]
    BY <2>3, <2>5
  <2>7. IsEntry(entry) /\ entry.ref = req.to /\ entry.cfg = req.cfg
    BY <2>5, <2>6 DEF IsEntry
  <2> QED
    BY <1>5, <2>1, <2>4, <2>7 DEF IsFilledEntry, EditOK, EditFits, Change, Edit
<1> QED
  BY <1>1, <1>2, <1>3, <1>4, <1>5 DEF Reads, ReadsFirst

LEMMA OldOK ==
    ASSUME NEW c, ConfigOK(c), NEW e, EditOK(e), Apply(e, c) # {}
    PROVE  OldFits(e, OldEntry(e, c))
<1>1. Filled(c.pc) /\ Filled(c.sp) /\ Rooted(c.sp)
  BY RootedIs DEF ConfigOK, Whole
<1>2. CASE e.op = "edit" /\ e.part = "pc"
  <2>1. e.name \in DOMAIN c.pc
    BY <1>2 DEF Apply, ApplyPc, AtomicEditProtocolConverter
  <2>2. OldEntry(e, c) = c.pc[e.name]
    BY <1>2, <2>1 DEF OldEntry, Parts
  <2> QED
    BY <1>1, <1>2, <2>1, <2>2 DEF OldFits, Filled, IsFilledEntry
<1>3. CASE e.op = "edit" /\ e.part = "sp"
  <2>1. e.name \in DOMAIN c.sp /\ c.sp[e.name].ref \in {NoRef, e.name}
    BY <1>3 DEF Apply, ApplySp, AtomicEditStreamProcessor
  <2>2. OldEntry(e, c) = c.sp[e.name]
    BY <1>3, <2>1 DEF OldEntry, Parts
  <2>3. c.sp[e.name].ref = NoRef => StandAlone(e.name)
    BY <1>1, <2>1 DEF Rooted
  <2> QED
    BY <1>1, <1>3, <2>1, <2>2, <2>3 DEF OldFits, Filled, IsFilledEntry
<1> QED
  BY <1>2, <1>3 DEF OldFits

(* What LockAndEdit makes of an action that finds the configuration c, the *)
(* file `before` and the hitch h.                                          *)
Locked(act, c, r, before, h, x) ==
    x = IF act.phase = "do"
        THEN [act EXCEPT !.stage = "write", !.next = r, !.old = OldEntry(act.edit, c),
                         !.before = before, !.alone = TRUE, !.hitch = h]
        ELSE [act EXCEPT !.stage = "write", !.next = r, !.hitch = h]

LEMMA LockedOK ==
    ASSUME NEW act, ActOK(act), act.stage = "lock", NEW c, ConfigOK(c),
           NEW r \in Apply(act.edit, c), NEW before, NEW h, NEW x,
           Locked(act, c, r, before, h, x)
    PROVE  /\ ActOK(x) /\ x.stage = "write" /\ x.next = r /\ x.edit = act.edit
           /\ x.phase = act.phase /\ x.req = act.req
           /\ act.phase = "do" => /\ x.before = before /\ x.alone
                                  /\ x.old = OldEntry(act.edit, c)
           /\ act.phase # "do" => /\ x.before = act.before /\ x.alone = act.alone
                                  /\ x.old = act.old
           /\ x.outcome = act.outcome /\ x.hitch = h
<1>1. IsAct(act) /\ EditOK(act.edit)
  BY DEF ActOK
<1>2. ConfigOK(r) /\ OldFits(act.edit, OldEntry(act.edit, c))
  BY <1>1, ApplyOK, SameSelf, OldOK
<1>3. CASE act.phase = "do"
  <2>1. PICK old : old = OldEntry(act.edit, c)
    OBVIOUS
  <2>2. x = [act EXCEPT !.stage = "write", !.next = r, !.old = old,
                        !.before = before, !.alone = TRUE, !.hitch = h]
    BY <1>3, <2>1 DEF Locked
  <2>3. /\ IsAct(x) /\ x.stage = "write" /\ x.next = r /\ x.edit = act.edit
        /\ x.phase = act.phase /\ x.req = act.req /\ x.before = before /\ x.alone
        /\ x.old = old /\ x.outcome = act.outcome /\ x.hitch = h
    BY <1>1, <2>2 DEF IsAct
  <2> QED
    BY <1>2, <1>3, <2>1, <2>3 DEF ActOK
<1>4. CASE act.phase # "do"
  <2>1. x = [act EXCEPT !.stage = "write", !.next = r, !.hitch = h]
    BY <1>4 DEF Locked
  <2>2. /\ IsAct(x) /\ x.stage = "write" /\ x.next = r /\ x.edit = act.edit
        /\ x.phase = act.phase /\ x.req = act.req /\ x.before = act.before
        /\ x.alone = act.alone /\ x.old = act.old /\ x.outcome = act.outcome
        /\ x.hitch = h
    BY <1>1, <2>1 DEF IsAct
  <2> QED
    BY <1>2, <1>4, <2>2 DEF ActOK
<1> QED
  BY <1>3, <1>4

(* The forms an action takes after its update.                             *)
LEMMA AfterWriteOK ==
    ASSUME NEW act, ActOK(act), act.stage = "write", NEW x \in AfterWrite(act)
    PROVE  /\ ActOK(x) /\ x.stage # "write"
           /\ \/ /\ act.phase = "do" /\ x.stage = "wait" /\ x.edit = act.edit /\ x.req = act.req
                 /\ x.before = act.before /\ x.alone = act.alone /\ x.old = act.old
                 /\ x.phase = "do" /\ x.outcome = act.outcome /\ x.hitch = act.hitch
              \/ act.phase = "do" /\ x.phase = "contract" /\ x.outcome = act.outcome
              \/ act.phase = "undo" /\ x = Done(act, "failed")
              \/ x = Done(act, "ok")
<1>1. /\ IsAct(act) /\ act.req \in Requests /\ act.req.do # "set file"
      /\ act.phase \in {"do", "contract", "undo"} /\ EditOK(act.edit)
  BY DEF ActOK
<1>2. CASE x = Done(act, "ok") \/ (x = Done(act, "failed") /\ act.phase = "undo")
  BY <1>2, DoneOK
<1>3. CASE /\ act.phase = "do" /\ act.req.part = "dm"
           /\ x = [act EXCEPT !.phase = "contract", !.stage = "lock", !.next = EmptyConfig,
                              !.edit = AddContract(act.req, 1)]
  <2>1. PICK e : e = AddContract(act.req, 1)
    OBVIOUS
  <2>2. EditOK(e)
    BY <2>1 DEF EditOK, AddContract, Edit
  <2>3. x = [act EXCEPT !.phase = "contract", !.stage = "lock", !.next = EmptyConfig, !.edit = e]
    BY <1>3, <2>1
  <2>4. /\ IsAct(x) /\ x.phase = "contract" /\ x.stage = "lock" /\ x.edit = e
        /\ x.req = act.req /\ x.outcome = act.outcome
    BY <1>1, <2>3 DEF IsAct
  <2> QED
    BY <1>1, <1>3, <2>2, <2>4 DEF ActOK
<1>4. CASE /\ act.phase = "do" /\ act.req.part = "dm"
           /\ x = [act EXCEPT !.phase = "contract", !.stage = "mutate", !.next = EmptyConfig]
  <2>1. /\ IsAct(x) /\ x.phase = "contract" /\ x.stage = "mutate" /\ x.req = act.req
        /\ x.outcome = act.outcome
    BY <1>1, <1>4 DEF IsAct
  <2> QED
    BY <1>1, <1>4, <2>1 DEF ActOK, Reads
<1>5. CASE /\ act.phase = "do" /\ act.req.part \in Parts
           /\ x = [act EXCEPT !.stage = "wait", !.next = EmptyConfig]
  <2>1. /\ IsAct(x) /\ x.phase = act.phase /\ x.stage = "wait" /\ x.req = act.req
        /\ x.edit = act.edit /\ x.old = act.old /\ x.before = act.before
        /\ x.alone = act.alone /\ x.outcome = act.outcome /\ x.hitch = act.hitch
    BY <1>1, <1>5 DEF IsAct
  <2> QED
    BY <1>1, <1>5, <2>1 DEF ActOK
<1> QED
  BY <1>1, <1>2, <1>3, <1>4, <1>5 DEF AfterWrite

LEMMA UndoOK ==
    ASSUME NEW act, ActOK(act), act.stage = "wait"
    PROVE  ActOK(Undo(act)) /\ Undo(act).stage # "write"
<1>1. PICK x : x = Undo(act)
  OBVIOUS
<1>2. /\ IsAct(act) /\ act.req \in Requests /\ act.phase = "do" /\ act.req.part \in Parts
      /\ EditOK(act.edit) /\ EditFits(act.req, act.edit) /\ OldFits(act.edit, act.old)
      /\ act.req.do \in {"deploy", "edit", "delete"}
  BY RequestsAssumption DEF ActOK
<1>3. CASE act.req.do = "delete"
  BY <1>1, <1>3, DoneOK DEF Undo
<1>4. CASE act.req.do = "deploy" /\ act.req.part = "pc"
  <2>1. x = [act EXCEPT !.phase = "undo", !.stage = "mutate"]
    BY <1>1, <1>4 DEF Undo
  <2>2. IsAct(x) /\ x.phase = "undo" /\ x.stage = "mutate" /\ x.req = act.req
    BY <1>2, <2>1 DEF IsAct
  <2> QED
    BY <1>1, <1>2, <1>4, <2>2 DEF ActOK, Reads
<1>5. CASE act.req.do = "deploy" /\ act.req.part # "pc"
  <2>1. PICK e : e = Delete(act.req.part, act.req.name)
    OBVIOUS
  <2>2. x = [act EXCEPT !.phase = "undo", !.stage = "lock", !.edit = e]
    BY <1>1, <1>5, <2>1 DEF Undo
  <2>3. IsAct(x) /\ x.phase = "undo" /\ x.stage = "lock" /\ x.req = act.req /\ x.edit = e
    BY <1>2, <2>2 DEF IsAct
  <2>4. EditOK(e)
    BY <1>2, <2>1 DEF EditOK, Delete, Edit, Parts
  <2> QED
    BY <1>1, <1>2, <1>5, <2>3, <2>4 DEF ActOK
<1>6. CASE act.req.do = "edit"
  <2>1. PICK e : e = Change(act.req.part, act.edit.to, act.edit.name, act.old)
    OBVIOUS
  <2>2. x = [act EXCEPT !.phase = "undo", !.stage = "lock", !.edit = e]
    BY <1>1, <1>6, <2>1 DEF Undo
  <2>3. IsAct(x) /\ x.phase = "undo" /\ x.stage = "lock" /\ x.req = act.req /\ x.edit = e
    BY <1>2, <2>2 DEF IsAct
  <2>4. EditOK(e)
    BY <1>2, <1>6, <2>1 DEF EditOK, EditFits, OldFits, Change, Edit, Parts
  <2> QED
    BY <1>1, <1>2, <1>6, <2>3, <2>4 DEF ActOK
<1> QED
  BY <1>2, <1>3, <1>4, <1>5, <1>6

-----------------------------------------------------------------------------
(* The inductive invariant, as long as all files from outside were tidy.   *)
(* Everything that holds a configuration holds a whole one.  Until the     *)
(* file and the copy have come apart, the copy is what the file was        *)
(* written from, no refresh runs, and what is to be written was made from  *)
(* the copy: between the edit and the write the lock keeps everybody else  *)
(* out.                                                                    *)

FileOK ==
    /\ file = [valid |-> file.valid, yaml |-> file.yaml, mtime |-> file.mtime]
    /\ YamlOK(file.yaml)

CacheOK ==
    /\ cache = [config |-> cache.config, err |-> cache.err, mtime |-> cache.mtime]
    /\ ConfigOK(cache.config)

RefreshOK ==
    /\ refresh = [step |-> refresh.step, mtime |-> refresh.mtime,
                  config |-> refresh.config, err |-> refresh.err]
    /\ ConfigOK(refresh.config)

ActsOK == acts = [a \in Actions |-> acts[a]] /\ \A a \in Actions : ActOK(acts[a])

HolderWrites == \A a \in Actions : acts[a].stage = "write" => holder = a

Synced ==
    drifted = {} =>
      /\ file.valid /\ cache.mtime = file.mtime /\ refresh.step = "none"
      /\ file.yaml \in convertSpecToYaml(cache.config)

BuildsOnCopy ==
    drifted = {} =>
      \A a \in Actions : acts[a].stage = "write" =>
        acts[a].next \in Apply(acts[a].edit, cache.config)

ConfigInv ==
    FileOK /\ CacheOK /\ RefreshOK /\ ActsOK /\ HolderWrites /\ Synced /\ BuildsOnCopy

FilesTidy == "loose" \notin drifted

LEMMA ConfigInit == Init /\ FilesTidy => ConfigInv
<1> SUFFICES ASSUME Init, FilesTidy PROVE ConfigInv
  OBVIOUS
<1>0. ConfigOK(InitialConfig)
  BY TidyOK DEF Init, ManagerInit, FilesTidy, FileConfigs
<1>1. PICK y \in convertSpecToYaml(InitialConfig) : file = [valid |-> TRUE, yaml |-> y, mtime |-> 1]
  BY DEF Init, ManagerInit
<1>2. cache = [config |-> InitialConfig, err |-> FALSE, mtime |-> 1]
  BY DEF Init, ManagerInit
<1>3. FileOK
  BY <1>0, <1>1, WrittenOK DEF FileOK
<1>4. CacheOK
  BY <1>0, <1>2 DEF CacheOK
<1>5. RefreshOK /\ refresh.step = "none"
  BY EmptyOK DEF Init, ManagerInit, NoRefresh, RefreshOK
<1>6. acts = [a \in Actions |-> ActIdle]
  BY DEF Init
<1>7. ActsOK /\ \A a \in Actions : acts[a].stage # "write"
  BY <1>6, IdleOK DEF ActsOK, ActIdle
<1>8. Synced
  BY <1>1, <1>2, <1>5 DEF Synced
<1> QED
  BY <1>3, <1>4, <1>5, <1>7, <1>8 DEF ConfigInv, HolderWrites, BuildsOnCopy

(* A read of the configuration.                                            *)
LEMMA ReadKeeps ==
    ASSUME ConfigInv, UNCHANGED <<file, cache, drifted>>, StartRefresh \/ refresh' = refresh
    PROVE  FileOK' /\ CacheOK' /\ RefreshOK' /\ Synced'
<1>1. FileOK' /\ CacheOK'
  BY DEF ConfigInv, FileOK, CacheOK
<1>2. CASE refresh' = refresh
  BY <1>1, <1>2 DEF ConfigInv, RefreshOK, Synced
<1>3. CASE StartRefresh /\ refresh' # refresh
  <2>1. ~Fresh /\ refresh' = [NoRefresh EXCEPT !.step = "read", !.mtime = file.mtime]
    BY <1>3 DEF StartRefresh
  <2>2. refresh' = [step |-> "read", mtime |-> file.mtime, config |-> EmptyConfig, err |-> FALSE]
    BY <2>1 DEF NoRefresh
  <2>3. RefreshOK'
    BY <2>2, EmptyOK DEF RefreshOK
  <2>4. drifted # {}
    BY <2>1 DEF ConfigInv, Synced, Fresh
  <2> QED
    BY <1>1, <2>3, <2>4 DEF Synced
<1> QED
  BY <1>2, <1>3

(* A step of one action that leaves the file alone.                        *)
LEMMA ActKeeps ==
    ASSUME ConfigInv, NEW a \in Actions, NEW act, ActOK(act), acts' = [acts EXCEPT ![a] = act],
           UNCHANGED <<file, cache, drifted>>, StartRefresh \/ refresh' = refresh,
           \/ act.stage # "write" /\ (holder' = holder \/ holder = a)
           \/ /\ act.stage = "write" /\ holder = NoOne /\ holder' = a
              /\ drifted = {} => act.next \in Apply(act.edit, cache.config)
    PROVE  ConfigInv'
<1>1. FileOK' /\ CacheOK' /\ RefreshOK' /\ Synced'
  BY ReadKeeps
<1>2. /\ acts' = [b \in Actions |-> acts'[b]] /\ acts'[a] = act
      /\ \A b \in Actions : b # a => acts'[b] = acts[b]
  BY DEF ConfigInv, ActsOK
<1>3. ActsOK'
  BY <1>2 DEF ConfigInv, ActsOK
<1>4. \A b \in Actions : acts[b].stage = "write" => holder = b
  BY DEF ConfigInv, HolderWrites
<1>5. HolderWrites'
  BY <1>2, <1>4, ActionsAssumption DEF HolderWrites, NoOne
<1>6. BuildsOnCopy'
  BY <1>2 DEF ConfigInv, BuildsOnCopy
<1> QED
  BY <1>1, <1>3, <1>5, <1>6 DEF ConfigInv

(* A step that writes the file.                                            *)
LEMMA OthersKeep ==
    ASSUME ConfigInv, NEW a \in Actions, NEW act, ActOK(act), act.stage # "write",
           acts' = Others(a, act)
    PROVE  /\ ActsOK' /\ acts'[a] = act
           /\ \A b \in Actions : b # a => acts'[b] = [acts[b] EXCEPT !.alone = FALSE]
           /\ \A b \in Actions : acts'[b].stage = "write" => b # a /\ acts[b].stage = "write"
<1>1. /\ acts' = [b \in Actions |-> acts'[b]] /\ acts'[a] = act
      /\ \A b \in Actions : b # a => acts'[b] = [acts[b] EXCEPT !.alone = FALSE]
  BY DEF Others
<1>2. ASSUME NEW b \in Actions
      PROVE  ActOK(acts'[b]) /\ (acts'[b].stage = "write" => b # a /\ acts[b].stage = "write")
  <2>1. CASE b = a
    BY <1>1, <2>1
  <2>2. CASE b # a
    BY <1>1, <2>2, AloneOK DEF ConfigInv, ActsOK
  <2> QED
    BY <2>1, <2>2
<1> QED
  BY <1>1, <1>2 DEF ActsOK

LEMMA HandleKeeps ==
    ASSUME ConfigInv, NEW a \in Actions, NEW req \in Requests, HandleActionMessage(a, req)
    PROVE  ConfigInv'
<1>1. PICK old : old = acts[a]
  OBVIOUS
<1>2. PICK stage, edit, expected :
        /\ stage = IF req.do = "set file" THEN "set file"
                   ELSE IF ReadsFirst(req) THEN "mutate" ELSE "lock"
        /\ edit = IF req.do = "set file" \/ ReadsFirst(req) THEN NoEdit ELSE FirstEdit(req)
        /\ expected = IF req.do = "set file" THEN cache.mtime ELSE 0
  OBVIOUS
<1>3. PICK act : act = [old EXCEPT !.req = req, !.stage = stage, !.edit = edit, !.expected = expected]
  OBVIOUS
<1>4. /\ acts' = [acts EXCEPT ![a] = act]
      /\ UNCHANGED <<file, cache, drifted>> /\ refresh' = refresh /\ holder' = holder
  BY <1>1, <1>2, <1>3 DEF HandleActionMessage, managerVars
<1>5. IsAct(old) /\ old.phase = "do"
  BY <1>1 DEF ConfigInv, ActsOK, ActOK, HandleActionMessage
<1>6. /\ IsAct(act) /\ act.req = req /\ act.stage = stage /\ act.edit = edit /\ act.phase = "do"
  BY <1>3, <1>5 DEF IsAct
<1>7. ActOK(act) /\ act.stage # "write"
  <2>1. CASE req.do = "set file"
    BY <1>2, <1>6, <2>1 DEF ActOK
  <2>2. CASE req.do # "set file" /\ ReadsFirst(req)
    BY <1>2, <1>6, <2>2 DEF ActOK, Reads
  <2>3. CASE req.do # "set file" /\ ~ReadsFirst(req)
    BY <1>2, <1>6, <2>3, FirstEditOK DEF ActOK
  <2> QED
    BY <2>1, <2>2, <2>3
<1> QED
  BY <1>4, <1>7, ActKeeps

LEMMA MutateKeeps ==
    ASSUME ConfigInv, NEW a \in Actions, Mutate(a)
    PROVE  ConfigInv'
<1>1. PICK old : old = acts[a] /\ ActOK(old) /\ old.stage = "mutate"
  BY DEF ConfigInv, ActsOK, Mutate
<1>2. GetConfig.config = cache.config /\ ConfigOK(cache.config)
  BY DEF GetConfig, ConfigInv, CacheOK
<1>3. UNCHANGED <<file, cache, drifted, holder>> /\ StartRefresh
  BY DEF Mutate
<1>4. CASE acts' = [acts EXCEPT ![a] = Done(acts[a], "failed")]
  BY <1>3, <1>4, DoneOK, ActKeeps
<1>5. CASE \E e \in Mutations(old, cache.config) :
             acts' = [acts EXCEPT ![a] = [old EXCEPT !.stage = "lock", !.edit = e]]
  <2>1. PICK e \in Mutations(old, cache.config) :
           acts' = [acts EXCEPT ![a] = [old EXCEPT !.stage = "lock", !.edit = e]]
    BY <1>5
  <2>2. PICK act : act = [old EXCEPT !.stage = "lock", !.edit = e]
    OBVIOUS
  <2>3. IsAct(old)
    BY <1>1 DEF ActOK
  <2>4. /\ IsAct(act) /\ act.stage = "lock" /\ act.edit = e /\ act.phase = old.phase
        /\ act.req = old.req
    BY <2>2, <2>3 DEF IsAct
  <2>5. EditOK(e) /\ (old.phase = "do" => EditFits(old.req, e))
    BY <1>1, <1>2, MutationsOK
  <2>6. ActOK(act)
    BY <1>1, <2>4, <2>5 DEF ActOK
  <2>7. acts' = [acts EXCEPT ![a] = act]
    BY <2>1, <2>2
  <2> QED
    BY <1>3, <2>4, <2>6, <2>7, ActKeeps
<1> QED
  BY <1>1, <1>2, <1>4, <1>5 DEF Mutate

LEMMA LockAndReturnKeeps ==
    ASSUME ConfigInv, NEW a \in Actions, LockAndReturn(a)
    PROVE  ConfigInv'
<1>1. ActOK(Failed(acts[a])) /\ Failed(acts[a]).stage = "done"
  BY FailedOK DEF ConfigInv, ActsOK
<1>2. ActOK(Done(acts[a], "ok")) /\ Done(acts[a], "ok").stage = "done"
  BY DoneOK
<1>3. UNCHANGED <<file, cache, drifted, holder>> /\ StartRefresh
  BY DEF LockAndReturn
<1>4. \/ acts' = [acts EXCEPT ![a] = Failed(acts[a])]
      \/ acts' = [acts EXCEPT ![a] = Done(acts[a], "ok")]
  BY DEF LockAndReturn
<1>5. CASE acts' = [acts EXCEPT ![a] = Failed(acts[a])]
  BY <1>1, <1>3, <1>5, ActKeeps
<1>6. CASE acts' = [acts EXCEPT ![a] = Done(acts[a], "ok")]
  BY <1>2, <1>3, <1>6, ActKeeps
<1> QED
  BY <1>4, <1>5, <1>6

LEMMA LockAndEditIs ==
    ASSUME NEW a \in Actions, LockAndEdit(a)
    PROVE  \E act : \E r \in Apply(acts[a].edit, cache.config) :
             /\ Locked(acts[a], cache.config, r, file.yaml, Staleness(acts[a].hitch), act)
             /\ acts' = [acts EXCEPT ![a] = act]
<1>1. GetConfig.config = cache.config
  BY DEF GetConfig
<1>2. PICK r \in EditResults(acts[a]) :
        acts' = [acts EXCEPT ![a] =
          IF acts[a].phase = "do"
          THEN [acts[a] EXCEPT !.stage = "write", !.next = r,
                  !.old = OldEntry(acts[a].edit, GetConfig.config),
                  !.before = file.yaml, !.alone = TRUE, !.hitch = Staleness(acts[a].hitch)]
          ELSE [acts[a] EXCEPT !.stage = "write", !.next = r,
                  !.hitch = Staleness(acts[a].hitch)]]
  BY DEF LockAndEdit
<1>3. r \in Apply(acts[a].edit, cache.config)
  BY <1>1, <1>2 DEF EditResults
<1> QED
  BY <1>1, <1>2, <1>3 DEF Locked

LEMMA LockAndEditKeeps ==
    ASSUME ConfigInv, NEW a \in Actions, LockAndEdit(a)
    PROVE  ConfigInv'
<1>1. PICK act, r : /\ r \in Apply(acts[a].edit, cache.config)
                    /\ Locked(acts[a], cache.config, r, file.yaml,
                              Staleness(acts[a].hitch), act)
                    /\ acts' = [acts EXCEPT ![a] = act]
  BY LockAndEditIs
<1>2. ActOK(acts[a]) /\ acts[a].stage = "lock" /\ ConfigOK(cache.config)
  BY DEF ConfigInv, ActsOK, CacheOK, LockAndEdit
<1>3. ActOK(act) /\ act.stage = "write" /\ act.next = r /\ act.edit = acts[a].edit
  BY <1>1, <1>2, LockedOK
<1>4. UNCHANGED <<file, cache, drifted>> /\ StartRefresh /\ holder = NoOne /\ holder' = a
  BY DEF LockAndEdit
<1> QED
  BY <1>1, <1>3, <1>4, ActKeeps

LEMMA WriteAndUnlockKeeps ==
    ASSUME ConfigInv, NEW a \in Actions, WriteAndUnlock(a)
    PROVE  ConfigInv'
<1>1. ActOK(acts[a]) /\ acts[a].stage = "write" /\ ConfigOK(acts[a].next) /\ holder = a
  BY DEF ConfigInv, ActsOK, ActOK, HolderWrites, WriteAndUnlock
<1>2. PICK y \in convertSpecToYaml(acts[a].next) :
         /\ file' = [valid |-> TRUE, yaml |-> y, mtime |-> file.mtime + 1]
         /\ cache' = [cache EXCEPT !.config = acts[a].next, !.mtime = file.mtime + 1]
         /\ UNCHANGED <<refresh, drifted>>
  BY DEF WriteAndUnlock, writeConfig
<1>3. PICK act \in AfterWrite(acts[a]) : acts' = Others(a, act)
  BY DEF WriteAndUnlock
<1>4. ActOK(act) /\ act.stage # "write"
  BY <1>1, AfterWriteOK
<1>5. /\ ActsOK'
      /\ \A b \in Actions : acts'[b].stage = "write" => b # a /\ acts[b].stage = "write"
  BY <1>3, <1>4, OthersKeep
<1>6. \A b \in Actions : acts'[b].stage # "write"
  BY <1>1, <1>5 DEF ConfigInv, HolderWrites
<1>7. FileOK'
  BY <1>1, <1>2, WrittenOK DEF FileOK
<1>8. PICK old, c, m : old = cache /\ c = acts[a].next /\ m = file.mtime + 1
                       /\ old = [config |-> old.config, err |-> old.err, mtime |-> old.mtime]
  BY DEF ConfigInv, CacheOK
<1>9. cache' = [old EXCEPT !.config = c, !.mtime = m]
  BY <1>2, <1>8
<1>10. /\ cache' = [config |-> cache'.config, err |-> cache'.err, mtime |-> cache'.mtime]
       /\ cache'.config = c /\ cache'.mtime = m
  BY <1>8, <1>9
<1>11. CacheOK'
  BY <1>1, <1>8, <1>10 DEF CacheOK
<1>12. RefreshOK'
  BY <1>2 DEF ConfigInv, RefreshOK
<1>13. Synced'
  BY <1>2, <1>8, <1>10 DEF ConfigInv, Synced
<1> QED
  BY <1>5, <1>6, <1>7, <1>11, <1>12, <1>13 DEF ConfigInv, HolderWrites, BuildsOnCopy

LEMMA WriteFailsKeeps ==
    ASSUME ConfigInv, NEW a \in Actions, WriteFails(a)
    PROVE  ConfigInv'
<1>1. ActOK(Failed(acts[a])) /\ Failed(acts[a]).stage = "done" /\ holder = a
  BY FailedOK DEF ConfigInv, ActsOK, HolderWrites, WriteFails
<1>2. /\ UNCHANGED <<file, cache, drifted, refresh>>
      /\ acts' = [acts EXCEPT ![a] = Failed(acts[a])]
  BY DEF WriteFails, managerVars
<1> QED
  BY <1>1, <1>2, ActKeeps

(* A write that is not an atomic update, or not one the copy follows.      *)
LEMMA DriftKeeps ==
    ASSUME ConfigInv, FileOK', CacheOK', UNCHANGED refresh, ActsOK', HolderWrites', drifted' # {}
    PROVE  ConfigInv'
  BY DEF ConfigInv, RefreshOK, Synced, BuildsOnCopy

LEMMA StatFailsKeeps ==
    ASSUME ConfigInv, NEW a \in Actions, StatFails(a)
    PROVE  ConfigInv'
<1>1. ActOK(acts[a]) /\ acts[a].stage = "write" /\ ConfigOK(acts[a].next) /\ holder = a
  BY DEF ConfigInv, ActsOK, ActOK, HolderWrites, StatFails
<1>2. PICK y \in convertSpecToYaml(acts[a].next) :
         /\ file' = [valid |-> TRUE, yaml |-> y, mtime |-> file.mtime + 1]
         /\ UNCHANGED <<cache, refresh>> /\ drifted' # {}
  BY DEF StatFails, writeConfigStatFails
<1>3. PICK act : act = Failed([acts[a] EXCEPT !.hitch = "stat"]) /\ ActOK(act) /\ act.stage # "write"
  BY <1>1, HitchOK, FailedOK
<1>4. acts' = Others(a, act)
  BY <1>3 DEF StatFails
<1>5. /\ ActsOK'
      /\ \A b \in Actions : acts'[b].stage = "write" => b # a /\ acts[b].stage = "write"
  BY <1>3, <1>4, OthersKeep
<1>6. HolderWrites'
  BY <1>1, <1>5 DEF ConfigInv, HolderWrites
<1>7. FileOK' /\ CacheOK'
  BY <1>1, <1>2, WrittenOK DEF ConfigInv, FileOK, CacheOK
<1> QED
  BY <1>2, <1>5, <1>6, <1>7, DriftKeeps

LEMMA AwaitKeeps ==
    ASSUME ConfigInv, NEW a \in Actions, Await(a) \/ Expire(a)
    PROVE  ConfigInv'
<1>1. ActOK(acts[a]) /\ acts[a].stage = "wait"
  BY DEF ConfigInv, ActsOK, Await, Expire
<1>2. PICK act : /\ acts' = [acts EXCEPT ![a] = act]
                 /\ act = Done(acts[a], "ok") \/ act = Undo(acts[a])
  BY DEF Await, Expire
<1>3. ActOK(act) /\ act.stage # "write"
  BY <1>1, <1>2, DoneOK, UndoOK
<1>4. UNCHANGED <<file, cache, drifted, refresh, holder>>
  BY DEF Await, Expire, managerVars
<1> QED
  BY <1>2, <1>3, <1>4, ActKeeps

LEMMA SetConfigFileKeeps ==
    ASSUME ConfigInv, NEW a \in Actions, SetConfigFile(a), FilesTidy'
    PROVE  ConfigInv'
<1>1. acts[a].stage = "set file" /\ UNCHANGED holder
  BY DEF SetConfigFile
<1>2. CASE acts' = [acts EXCEPT ![a] = Done(acts[a], "failed")] /\ UNCHANGED managerVars
  BY <1>1, <1>2, DoneOK, ActKeeps DEF managerVars
<1>3. CASE /\ \E y \in HandEdits : WriteYAMLConfigFromString(y, acts[a].expected)
           /\ acts' = Others(a, Done(acts[a], "ok"))
  <2>1. PICK y \in HandEdits : WriteYAMLConfigFromString(y, acts[a].expected)
    BY <1>3
  <2>2. PICK c \in convertYamlToSpec(y) :
           cache' = [config |-> c, err |-> FALSE, mtime |-> file.mtime + 1]
    BY <2>1 DEF WriteYAMLConfigFromString
  <2>3. /\ file' = [valid |-> TRUE, yaml |-> y, mtime |-> file.mtime + 1]
        /\ drifted' = drifted \cup {"outside"} \cup Looseness(convertYamlToSpec(y))
        /\ UNCHANGED refresh
    BY <2>1 DEF WriteYAMLConfigFromString
  <2>4. FileOK' /\ CacheOK'
    BY <2>2, <2>3, HandEditOK DEF FileOK, CacheOK, YamlOK, FilesTidy
  <2>5. /\ ActsOK'
        /\ \A b \in Actions : acts'[b].stage = "write" => b # a /\ acts[b].stage = "write"
    BY <1>3, DoneOK, OthersKeep
  <2>6. HolderWrites'
    BY <1>1, <2>5 DEF ConfigInv, HolderWrites
  <2> QED
    BY <2>3, <2>4, <2>5, <2>6, DriftKeeps
<1> QED
  BY <1>2, <1>3 DEF SetConfigFile

LEMMA OutsideKeeps ==
    ASSUME ConfigInv, Outside, FilesTidy'
    PROVE  ConfigInv'
<1>1. /\ drifted' # {} /\ UNCHANGED <<cache, refresh, holder>>
      /\ acts' = [a \in Actions |-> [acts[a] EXCEPT !.alone = FALSE]]
  BY DEF Outside, EditByHand
<1>2. FileOK'
  <2>1. CASE \E y \in HandEdits :
               /\ file' = [valid |-> TRUE, yaml |-> y, mtime |-> file.mtime + 1]
               /\ drifted' = drifted \cup {"outside"} \cup Looseness(convertYamlToSpec(y))
    BY <2>1, HandEditOK DEF FileOK, FilesTidy
  <2>2. CASE file' = [file EXCEPT !.valid = FALSE, !.mtime = @ + 1]
    <3>1. PICK old, m : old = file /\ m = file.mtime + 1
                        /\ old = [valid |-> old.valid, yaml |-> old.yaml, mtime |-> old.mtime]
      BY DEF ConfigInv, FileOK
    <3>2. file' = [old EXCEPT !.valid = FALSE, !.mtime = m]
      BY <2>2, <3>1
    <3>3. /\ file' = [valid |-> file'.valid, yaml |-> file'.yaml, mtime |-> file'.mtime]
          /\ file'.yaml = old.yaml
      BY <3>1, <3>2
    <3> QED
      BY <3>1, <3>3 DEF ConfigInv, FileOK
  <2> QED
    BY <2>1, <2>2 DEF Outside, EditByHand
<1>3. CacheOK'
  BY <1>1 DEF ConfigInv, CacheOK
<1>4. \A a \in Actions : ActOK(acts'[a]) /\ acts'[a].stage = acts[a].stage
  BY <1>1, AloneOK DEF ConfigInv, ActsOK
<1>5. ActsOK' /\ HolderWrites'
  BY <1>1, <1>4 DEF ConfigInv, ActsOK, HolderWrites
<1> QED
  BY <1>1, <1>2, <1>3, <1>5, DriftKeeps

LEMMA RefreshKeeps ==
    ASSUME ConfigInv, Refresh
    PROVE  ConfigInv'
<1>1. drifted # {} /\ UNCHANGED <<file, drifted, acts, holder>>
  BY DEF Refresh, RefreshRead, RefreshStore, ConfigInv, Synced
<1>2. FileOK' /\ ActsOK' /\ HolderWrites' /\ Synced' /\ BuildsOnCopy'
  BY <1>1 DEF ConfigInv, FileOK, ActsOK, HolderWrites, Synced, BuildsOnCopy
<1>3. CASE RefreshRead
  <2>1. PICK r \in {readAndParseConfig, [config |-> EmptyConfig, err |-> TRUE]} :
           refresh' = [refresh EXCEPT !.step = "store", !.config = r.config, !.err = r.err]
    BY <1>3 DEF RefreshRead
  <2>2. ConfigOK(r.config)
    <3>1. ConfigOK(readAndParseConfig.config)
      <4> DEFINE parsed == IF file.valid THEN convertYamlToSpec(file.yaml) \ {EmptyConfig} ELSE {}
      <4>1. CASE parsed = {}
        BY <4>1, EmptyOK DEF readAndParseConfig
      <4>2. CASE parsed # {}
        <5>1. (CHOOSE c \in parsed : TRUE) \in parsed
          BY <4>2
        <5>2. readAndParseConfig.config = CHOOSE c \in parsed : TRUE
          BY <4>2 DEF readAndParseConfig
        <5>3. \A c \in parsed : ConfigOK(c)
          BY DEF ConfigInv, FileOK, YamlOK
        <5> HIDE DEF parsed
        <5> QED
          BY <5>1, <5>2, <5>3
      <4> QED
        BY <4>1, <4>2
    <3> QED
      BY <2>1, <3>1, EmptyOK
  <2>3. PICK old, c, err : /\ old = refresh /\ c = r.config /\ err = r.err
                           /\ old = [step |-> old.step, mtime |-> old.mtime,
                                     config |-> old.config, err |-> old.err]
    BY DEF ConfigInv, RefreshOK
  <2>4. refresh' = [old EXCEPT !.step = "store", !.config = c, !.err = err]
    BY <2>1, <2>3
  <2>5. /\ refresh' = [step |-> refresh'.step, mtime |-> refresh'.mtime,
                       config |-> refresh'.config, err |-> refresh'.err]
        /\ refresh'.config = c
    BY <2>3, <2>4
  <2>6. RefreshOK' /\ CacheOK'
    BY <1>3, <2>2, <2>3, <2>5 DEF RefreshOK, ConfigInv, CacheOK, RefreshRead
  <2> QED
    BY <1>2, <2>6 DEF ConfigInv
<1>4. CASE RefreshStore
  <2>1. /\ cache' = [config |-> refresh.config, err |-> refresh.err, mtime |-> refresh.mtime]
        /\ refresh' = NoRefresh
    BY <1>4 DEF RefreshStore
  <2>2. CacheOK' /\ RefreshOK'
    BY <2>1, EmptyOK DEF ConfigInv, CacheOK, RefreshOK, NoRefresh
  <2> QED
    BY <1>2, <2>2 DEF ConfigInv
<1> QED
  BY <1>3, <1>4 DEF Refresh

LEMMA LoopKeeps ==
    ASSUME ConfigInv, ControlLoopTick \/ Converge \/ UNCHANGED vars
    PROVE  ConfigInv'
<1>1. /\ UNCHANGED <<file, cache, drifted, acts, holder>>
      /\ StartRefresh \/ refresh' = refresh
  BY DEF ControlLoopTick, Converge, managerVars, vars
<1>2. FileOK' /\ CacheOK' /\ RefreshOK' /\ Synced'
  BY <1>1, ReadKeeps
<1> QED
  BY <1>1, <1>2 DEF ConfigInv, ActsOK, HolderWrites, BuildsOnCopy

LEMMA ConfigNext == ConfigInv /\ [Next]_vars /\ FilesTidy' => ConfigInv'
<1> SUFFICES ASSUME ConfigInv, [Next]_vars, FilesTidy' PROVE ConfigInv'
  OBVIOUS
<1>1. ASSUME NEW a \in Actions,
             (\E req \in Requests : HandleActionMessage(a, req)) \/ Step(a) \/ Await(a)
      PROVE  ConfigInv'
  BY <1>1, HandleKeeps, MutateKeeps, LockAndReturnKeeps, LockAndEditKeeps, WriteAndUnlockKeeps,
     WriteFailsKeeps, StatFailsKeeps, AwaitKeeps, SetConfigFileKeeps DEF Step
<1> QED
  BY <1>1, RefreshKeeps, LoopKeeps, OutsideKeeps DEF Next

(* A file that was loose is remembered.                                    *)
LEMMA TidyBefore == [Next]_vars /\ FilesTidy' => FilesTidy
<1> SUFFICES ASSUME [Next]_vars PROVE drifted \subseteq drifted'
  BY DEF FilesTidy
<1>1. CASE Outside \/ Refresh \/ ControlLoopTick \/ Converge \/ UNCHANGED vars
  BY <1>1 DEF Outside, EditByHand, Refresh, RefreshRead, RefreshStore, ControlLoopTick, Converge,
              managerVars, vars
<1>2. ASSUME NEW a \in Actions, NEW req \in Requests, HandleActionMessage(a, req)
      PROVE  drifted \subseteq drifted'
  BY <1>2 DEF HandleActionMessage, managerVars
<1>3. ASSUME NEW a \in Actions, Step(a) \/ Await(a)
      PROVE  drifted \subseteq drifted'
  BY <1>3 DEF Step, Await, Mutate, LockAndReturn, LockAndEdit, WriteAndUnlock, writeConfig,
              WriteFails, StatFails, writeConfigStatFails, Expire, SetConfigFile,
              WriteYAMLConfigFromString, managerVars
<1> QED
  BY <1>1, <1>2, <1>3 DEF Next

(* Nothing that is edited, renamed, removed, undone, written by hand or    *)
(* read again leaves a bridge or a stream processor in the file without    *)
(* settings, for any requests and as long as the files from outside were   *)
(* tidy: no template without a root, and none whose owner is stand-alone   *)
(* in another file.                                                        *)
THEOREM NothingEmptied == Spec => []NoComponentEmptied
<1>1. (FilesTidy => ConfigInv) => NoComponentEmptied
  BY DEF ConfigInv, FileOK, YamlOK, ConfigOK, Whole, Filled, NoComponentEmptied, SettingsKept,
         FilesTidy
<1> QED
  BY <1>1, ConfigInit, ConfigNext, TidyBefore, PTL DEF Spec

(* Read, edit and write of an atomic update are one change of the file,    *)
(* however the actions interleave, until the file and the copy have come   *)
(* apart by a write from outside or a failed Stat.                         *)
THEOREM UpdatesAreAtomic == Spec => UpdatesBuildOnFile
<1> DEFINE Builds == \A a \in Actions :
       (drifted = {} /\ drifted' = {} /\ acts[a].stage = "write" /\ file' # file) =>
         \E c \in convertYamlToSpec(file.yaml) : \E r \in Apply(acts[a].edit, c) :
           file'.yaml \in convertSpecToYaml(r)
<1>1. (FilesTidy => ConfigInv) /\ [Next]_vars => [Builds]_vars
  <2> SUFFICES ASSUME FilesTidy => ConfigInv, [Next]_vars, NEW a \in Actions,
                      drifted = {}, drifted' = {}, acts[a].stage = "write", file' # file
               PROVE  \E c \in convertYamlToSpec(file.yaml) : \E r \in Apply(acts[a].edit, c) :
                        file'.yaml \in convertSpecToYaml(r)
    OBVIOUS
  <2>0. ConfigInv
    BY DEF FilesTidy
  <2>1. PICK b \in Actions : WriteAndUnlock(b)
    <3>1. ~Outside /\ ~Refresh /\ ~ControlLoopTick /\ ~Converge /\ Next
      BY DEF Outside, EditByHand, Refresh, RefreshRead, RefreshStore, ControlLoopTick, Converge,
             managerVars, vars
    <3>2. ASSUME NEW b \in Actions, NEW req \in Requests
          PROVE  ~HandleActionMessage(b, req)
      BY DEF HandleActionMessage, managerVars
    <3>3. ASSUME NEW b \in Actions
          PROVE  /\ ~Mutate(b) /\ ~LockAndReturn(b) /\ ~LockAndEdit(b) /\ ~WriteFails(b)
                 /\ ~StatFails(b) /\ ~Expire(b) /\ ~Await(b) /\ ~SetConfigFile(b)
      BY DEF Mutate, LockAndReturn, LockAndEdit, WriteFails, StatFails, writeConfigStatFails,
             Expire, Await, SetConfigFile, WriteYAMLConfigFromString, managerVars
    <3> QED
      BY <3>1, <3>2, <3>3 DEF Next, Step
  <2>2. b = a
    BY <2>0, <2>1 DEF ConfigInv, HolderWrites, WriteAndUnlock
  <2>3. file'.yaml \in convertSpecToYaml(acts[a].next)
    BY <2>1, <2>2 DEF WriteAndUnlock, writeConfig
  <2>4. /\ ConfigOK(cache.config) /\ file.yaml \in convertSpecToYaml(cache.config)
        /\ acts[a].next \in Apply(acts[a].edit, cache.config) /\ EditOK(acts[a].edit)
    BY <2>0 DEF ConfigInv, CacheOK, Synced, BuildsOnCopy, ActsOK, ActOK
  <2>5. PICK d : convertYamlToSpec(file.yaml) = {d} /\ Same(cache.config, d)
    BY <2>4, RoundTrip
  <2>6. PICK x \in Apply(acts[a].edit, d) : Same(acts[a].next, x)
    BY <2>4, <2>5, ApplyOK
  <2>7. convertSpecToYaml(acts[a].next) = convertSpecToYaml(x)
    BY <2>6, SameYaml
  <2> QED
    BY <2>3, <2>5, <2>6, <2>7
<1> QED
  BY <1>1, ConfigInit, ConfigNext, TidyBefore, PTL DEF Spec, UpdatesBuildOnFile

-----------------------------------------------------------------------------
(* The way back.                                                           *)

UndoEdit(req, e, old) ==
    IF req.do = "deploy" THEN Delete(req.part, req.name)
    ELSE Change(req.part, e.to, e.name, old)

(* The requests whose failure leaves no trace. *)
Returns(req) ==
    /\ req.part \in Parts
    /\ req.do = "edit" \/ (req.do = "deploy" /\ req.part # "pc")

LEMMA DfcUndone ==
    ASSUME NEW c, Whole(c), NEW req, req.do \in {"deploy", "edit"}, req.part = "dfc",
           NEW e, EditFits(req, e), NEW r \in Apply(e, c),
           NEW z \in Apply(UndoEdit(req, e, OldEntry(e, c)), r)
    PROVE  z = c
<1> DEFINE f == c.dfc
<1>1. IsPart(f) /\ e.part = "dfc"
  BY DEF Whole, EditFits
<1>2. CASE req.do = "deploy"
  <2>1. e.op = "add" /\ e.name = req.name
    BY <1>2 DEF EditFits
  <2>2. e.name \notin DOMAIN f /\ r = [c EXCEPT !.dfc = With(f, e.name, e.entry)]
    BY <1>1, <2>1 DEF Apply, ApplyDfc, AtomicAddDataflowcomponent
  <2>3. UndoEdit(req, e, OldEntry(e, c)) = Delete("dfc", e.name)
    BY <1>2, <2>1 DEF UndoEdit
  <2>4. z \in AtomicDeleteDataflowcomponent(r, e.name)
    BY <2>3 DEF Apply, ApplyDfc, Delete, Edit
  <2>5. r.dfc = With(f, e.name, e.entry)
    BY <2>2 DEF Whole
  <2>6. z = [r EXCEPT !.dfc = Without(With(f, e.name, e.entry), e.name)]
    BY <2>4, <2>5 DEF AtomicDeleteDataflowcomponent
  <2>7. Without(With(f, e.name, e.entry), e.name) = f
    <3> DEFINE g == With(f, e.name, e.entry)
    <3>1. DOMAIN g = DOMAIN f \cup {e.name} /\ \A m \in DOMAIN f : g[m] = f[m]
      BY <2>2 DEF With
    <3> HIDE DEF g
    <3>2. Without(g, e.name) = [m \in DOMAIN f |-> f[m]]
      BY <2>2, <3>1, WithoutIs
    <3> QED
      BY <1>1, <3>2 DEF g, IsPart
  <2> QED
    BY <2>2, <2>6, <2>7 DEF Whole
<1>3. CASE req.do = "edit"
  <2> DEFINE n == e.name
             g == With(Without(f, n), e.to, e.entry)
  <2>1. e.op = "edit"
    BY <1>3 DEF EditFits
  <2>2. /\ n \in DOMAIN f /\ (e.to = n \/ e.to \notin DOMAIN f)
        /\ r = [c EXCEPT !.dfc = g]
    BY <1>1, <2>1 DEF Apply, ApplyDfc, AtomicEditDataflowcomponent
  <2>3. OldEntry(e, c) = f[n]
    BY <1>1, <2>1, <2>2 DEF OldEntry, Parts
  <2>4. UndoEdit(req, e, OldEntry(e, c)) = Change("dfc", e.to, n, f[n])
    BY <1>3, <2>3 DEF UndoEdit
  <2>5. z \in AtomicEditDataflowcomponent(r, e.to, n, f[n])
    BY <2>4 DEF Apply, ApplyDfc, Change, Edit
  <2>6. r.dfc = g
    BY <2>2 DEF Whole
  <2>7. z = [r EXCEPT !.dfc = With(Without(g, e.to), n, f[n])]
    BY <2>5, <2>6 DEF AtomicEditDataflowcomponent
  <2>8. With(Without(g, e.to), n, f[n]) = f
    <3>1. DOMAIN g = (DOMAIN f \ {n}) \cup {e.to} /\ \A m \in DOMAIN f \ {n, e.to} : g[m] = f[m]
      BY WithoutIs DEF With
    <3> HIDE DEF g
    <3>2. /\ DOMAIN Without(g, e.to) = DOMAIN f \ {n}
          /\ \A m \in DOMAIN f \ {n} : Without(g, e.to)[m] = f[m]
      BY <2>2, <3>1, WithoutIs
    <3>3. DOMAIN Without(g, e.to) \cup {n} = DOMAIN f
      BY <2>2, <3>2
    <3> QED
      BY <1>1, <3>2, <3>3 DEF With, IsPart
  <2> HIDE DEF g
  <2> QED
    BY <2>2, <2>7, <2>8 DEF Whole
<1> QED
  BY <1>2, <1>3

(* A part with the same entries. *)
LEMMA EntriesSame ==
    ASSUME NEW p, Filled(p), NEW q, DOMAIN q = DOMAIN p, \A n \in DOMAIN p : q[n] = p[n]
    PROVE  SamePart(p, q)
  BY DEF SamePart, Filled

LEMMA SpUndone ==
    ASSUME NEW c, Whole(c), NEW req, req.do \in {"deploy", "edit"}, req.part = "sp",
           NEW e, EditFits(req, e), NEW r \in Apply(e, c),
           NEW z \in Apply(UndoEdit(req, e, OldEntry(e, c)), r)
    PROVE  \E q : z = [c EXCEPT !.sp = q] /\ SamePart(c.sp, q)
<1> DEFINE p == c.sp
<1>1. Filled(p) /\ e.part = "sp"
  BY DEF Whole, EditFits
<1>2. CASE req.do = "deploy"
  <2> DEFINE q == Without(With(p, e.name, e.entry), e.name)
  <2>1. e.op = "add" /\ e.name = req.name
    BY <1>2 DEF EditFits
  <2>2. e.name \notin DOMAIN p /\ r = [c EXCEPT !.sp = With(p, e.name, e.entry)]
    BY <1>1, <2>1 DEF Apply, ApplySp, AtomicAddStreamProcessor
  <2>3. UndoEdit(req, e, OldEntry(e, c)) = Delete("sp", e.name)
    BY <1>2, <2>1 DEF UndoEdit
  <2>4. z \in AtomicDeleteStreamProcessor(r, e.name)
    BY <2>3 DEF Apply, ApplySp, Delete, Edit
  <2>5. r.sp = With(p, e.name, e.entry)
    BY <2>2 DEF Whole
  <2>6. z = [r EXCEPT !.sp = q]
    BY <2>4, <2>5 DEF AtomicDeleteStreamProcessor
  <2>7. DOMAIN q = DOMAIN p /\ \A n \in DOMAIN p : q[n] = p[n]
    BY <2>2, WithoutIs DEF With
  <2> HIDE DEF q
  <2>8. z = [c EXCEPT !.sp = q]
    BY <2>2, <2>6
  <2> QED
    BY <1>1, <2>7, <2>8, EntriesSame
<1>3. CASE req.do = "edit"
  <2> DEFINE n == e.name
             g == [p EXCEPT ![n] = e.entry]
             q == [g EXCEPT ![n] = p[n]]
  <2>1. e.op = "edit" /\ e.to = n
    BY <1>3 DEF EditFits
  <2>2. n \in DOMAIN p /\ r = [c EXCEPT !.sp = g]
    BY <1>1, <2>1 DEF Apply, ApplySp, AtomicEditStreamProcessor
  <2>3. OldEntry(e, c) = p[n]
    BY <1>1, <2>1, <2>2 DEF OldEntry, Parts
  <2>4. UndoEdit(req, e, OldEntry(e, c)) = Change("sp", n, n, p[n])
    BY <1>3, <2>1, <2>3 DEF UndoEdit
  <2>5. z \in AtomicEditStreamProcessor(r, n, p[n])
    BY <2>4 DEF Apply, ApplySp, Change, Edit
  <2>6. r.sp = g
    BY <2>2 DEF Whole
  <2>7. z = [r EXCEPT !.sp = q]
    BY <2>5, <2>6 DEF AtomicEditStreamProcessor
  <2>8. DOMAIN q = DOMAIN p /\ \A m \in DOMAIN p : q[m] = p[m]
    BY <2>2
  <2> HIDE DEF g, q
  <2>9. z = [c EXCEPT !.sp = q]
    BY <2>2, <2>7
  <2> QED
    BY <1>1, <2>8, <2>9, EntriesSame
<1> QED
  BY <1>2, <1>3

LEMMA PcUndone ==
    ASSUME NEW c, Whole(c), Refs(c.pc) \subseteq Roots(c.pc), NEW req, req.do = "edit",
           req.part = "pc", NEW e, EditOK(e), EditFits(req, e), NEW r \in Apply(e, c),
           NEW z \in Apply(UndoEdit(req, e, OldEntry(e, c)), r)
    PROVE  \E q : z = [c EXCEPT !.pc = q] /\ SamePart(c.pc, q)
<1> DEFINE p == c.pc
           n == e.name
           to == e.to
           follow == Renamed(Without(p, n), n, to)
           g == With(follow, to, e.entry)
           back == Renamed(Without(g, to), to, n)
           q == With(back, n, p[n])
<1>1. /\ Filled(p) /\ e.part = "pc" /\ e.op = "edit" /\ e.entry.ref = to
      /\ n # NoRef /\ to # NoRef
  BY DEF Whole, EditFits, EditOK
<1>2. /\ n \in Roots(p) /\ n \in DOMAIN p /\ p[n].ref = n /\ (to = n \/ to \notin DOMAIN p)
      /\ r = [c EXCEPT !.pc = g]
  BY <1>1 DEF Apply, ApplyPc, AtomicEditProtocolConverter, Roots
<1>3. OldEntry(e, c) = p[n]
  BY <1>1, <1>2 DEF OldEntry, Parts
<1>4. UndoEdit(req, e, OldEntry(e, c)) = Change("pc", to, n, p[n])
  BY <1>3 DEF UndoEdit
<1>5. z \in AtomicEditProtocolConverter(r, to, n, p[n])
  BY <1>4 DEF Apply, ApplyPc, Change, Edit
<1>6. r.pc = g
  BY <1>2 DEF Whole
<1>7. /\ DOMAIN g = (DOMAIN p \ {n}) \cup {to} /\ g[to] = e.entry
      /\ \A m \in DOMAIN p \ {n, to} :
           g[m] = IF p[m].ref = n THEN [p[m] EXCEPT !.ref = to] ELSE p[m]
  BY WithoutIs DEF With, Renamed
<1> HIDE DEF g
<1>8. to \in Roots(g)
  BY <1>1, <1>7 DEF Roots
<1>9. z = [r EXCEPT !.pc = q]
  BY <1>2, <1>5, <1>6, <1>8 DEF AtomicEditProtocolConverter
<1>10. /\ DOMAIN q = ((DOMAIN g \ {to}) \cup {n}) /\ q[n] = p[n]
       /\ \A m \in DOMAIN g \ {n, to} :
            q[m] = IF g[m].ref = to THEN [g[m] EXCEPT !.ref = n] ELSE g[m]
  BY WithoutIs DEF With, Renamed
<1> HIDE DEF q
<1>11. DOMAIN q = DOMAIN p
  BY <1>2, <1>7, <1>10
<1>12. ASSUME NEW m \in DOMAIN p PROVE q[m] = p[m]
  <2>1. CASE m = n
    BY <1>10, <2>1
  <2>2. CASE m # n
    <3>1. m # to /\ m \in DOMAIN g
      BY <1>2, <1>7, <1>12, <2>2
    <3>2. PICK x, y : x = p[m] /\ y = g[m] /\ IsEntry(x)
      BY <1>1, <1>12 DEF Filled
    <3>3. CASE p[m].ref = n
      <4>1. y = [x EXCEPT !.ref = to]
        BY <1>7, <1>12, <2>2, <3>1, <3>2, <3>3
      <4>2. y.ref = to /\ IsEntry(y) /\ y.cfg = x.cfg /\ y.stopped = x.stopped
        BY <3>2, <4>1 DEF IsEntry
      <4>3. q[m] = [y EXCEPT !.ref = n]
        BY <1>10, <2>2, <3>1, <3>2, <4>2
      <4>4. PICK v : v = q[m] /\ v = [y EXCEPT !.ref = n]
        BY <4>3
      <4>5. IsEntry(v) /\ v.ref = n /\ v.cfg = y.cfg /\ v.stopped = y.stopped
        BY <4>2, <4>4 DEF IsEntry
      <4> QED
        BY <3>2, <3>3, <4>2, <4>4, <4>5 DEF IsEntry
    <3>4. CASE p[m].ref # n
      <4>1. p[m].ref # to
        <5>1. p[m].ref = NoRef \/ p[m].ref \in DOMAIN p
          BY <1>12 DEF Refs, Roots
        <5> QED
          BY <1>1, <1>2, <3>4, <5>1
      <4>2. g[m] = p[m]
        BY <1>7, <1>12, <2>2, <3>1, <3>4
      <4> QED
        BY <1>10, <2>2, <3>1, <4>1, <4>2
    <3> QED
      BY <3>3, <3>4
  <2> QED
    BY <2>1, <2>2
<1>13. z = [c EXCEPT !.pc = q]
  BY <1>2, <1>9
<1> QED
  BY <1>1, <1>11, <1>12, <1>13, EntriesSame

(* Undoing an edit of a configuration that was written gives a             *)
(* configuration that is written in the same way.                          *)
LEMMA UndoRestores ==
    ASSUME NEW c, ConfigOK(c), NEW y \in convertSpecToYaml(c),
           NEW req, Returns(req), NEW e, EditOK(e), EditFits(req, e), NEW r \in Apply(e, c),
           NEW u, u = UndoEdit(req, e, OldEntry(e, c)), EditOK(u),
           NEW z \in Apply(u, r), NEW x \in convertSpecToYaml(z)
    PROVE  x = y
<1>1. Whole(c) /\ Refs(c.pc) \subseteq Roots(c.pc) /\ convertSpecToYaml(c) = {y}
  BY DEF ConfigOK, convertSpecToYaml
<1>2. ConfigOK(r)
  BY ApplyOK, SameSelf
<1>3. Whole(z)
  BY <1>2, ApplyOK, SameSelf DEF ConfigOK
<1>4. Same(c, c)
  BY SameSelf
<1>5. Same(c, z)
  <2>1. CASE req.part = "dfc"
    BY <1>1, <1>4, <2>1, DfcUndone DEF Returns
  <2>2. CASE req.part = "sp"
    <3>1. PICK q : z = [c EXCEPT !.sp = q] /\ SamePart(c.sp, q)
      BY <1>1, <2>2, SpUndone DEF Returns
    <3> QED
      BY <1>1, <1>3, <1>4, <3>1 DEF Same, Whole
  <2>3. CASE req.part = "pc"
    <3>1. PICK q : z = [c EXCEPT !.pc = q] /\ SamePart(c.pc, q)
      BY <1>1, <2>3, PcUndone DEF Returns
    <3> QED
      BY <1>1, <1>3, <1>4, <3>1 DEF Same, Whole
  <2> QED
    BY <2>1, <2>2, <2>3 DEF Returns, Parts
<1>6. convertSpecToYaml(c) = convertSpecToYaml(z)
  BY <1>5, SameYaml
<1> QED
  BY <1>1, <1>6

(* Configurations that are written alike take the same edits, with results *)
(* that are written alike.                                                 *)
LEMMA WrittenAlike ==
    ASSUME NEW c, ConfigOK(c), NEW d, ConfigOK(d), NEW y,
           y \in convertSpecToYaml(c), y \in convertSpecToYaml(d),
           NEW e, EditOK(e), NEW r \in Apply(e, c)
    PROVE  \E z \in Apply(e, d) : convertSpecToYaml(r) = convertSpecToYaml(z)
<1>1. PICK x : convertYamlToSpec(y) = {x} /\ Same(c, x) /\ ConfigOK(x)
  BY RoundTrip
<1>2. Same(d, x)
  <2>1. PICK w : convertYamlToSpec(y) = {w} /\ Same(d, w)
    BY RoundTrip
  <2> QED
    BY <1>1, <2>1
<1>3. Same(x, d)
  BY <1>2 DEF Same, SamePart
<1>4. PICK v \in Apply(e, x) : Same(r, v)
  BY <1>1, ApplyOK
<1>5. PICK z \in Apply(e, d) : Same(v, z)
  BY <1>1, <1>3, ApplyOK
<1> QED
  BY <1>4, <1>5, SameYaml

(* What an action that is alone with the file, and met no hitch, knows of  *)
(* it: the file it found was written from c, then it was changed to what   *)
(* its edit e makes of c, and at last, when it failed, it is as it was.    *)
(* The copy does not appear: a refresh may have replaced it meanwhile.     *)
Began(act, e, c) ==
    /\ ConfigOK(c) /\ EditOK(e) /\ EditFits(act.req, e)
    /\ act.before \in convertSpecToYaml(c) /\ act.old = OldEntry(e, c)

Updated(act, e, c, yaml) ==
    Began(act, e, c) /\ \E r \in Apply(e, c) : yaml \in convertSpecToYaml(r)

Found(act, yaml) ==
    act.stage = "write" /\ act.phase = "do" =>
      /\ act.before = yaml
      /\ \E c : Began(act, act.edit, c) /\ act.next \in Apply(act.edit, c)

Waits(act, yaml) == act.stage = "wait" => \E c : Updated(act, act.edit, c, yaml)

Turns(act, yaml) ==
    act.stage = "lock" /\ act.phase = "undo" =>
      \E c, e : Updated(act, e, c, yaml) /\ act.edit = UndoEdit(act.req, e, act.old)

Goes(act) ==
    act.stage = "write" /\ act.phase = "undo" =>
      \A x \in convertSpecToYaml(act.next) : x = act.before

Traced(act, valid, yaml) ==
    act.alone /\ act.hitch = "none" /\ Returns(act.req) =>
      /\ valid
      /\ Found(act, yaml) /\ Waits(act, yaml) /\ Turns(act, yaml) /\ Goes(act)
      /\ act.outcome = "failed" => yaml = act.before

Lonely(act) ==
    /\ act.stage # "done" => act.outcome = "none"
    /\ act.stage \in {"idle", "set file", "mutate", "lock"} /\ act.phase = "do" => ~act.alone

TraceInv == \A a \in Actions : Lonely(acts[a]) /\ Traced(acts[a], file.valid, file.yaml)

LEMMA DoneIs ==
    ASSUME NEW act, NEW outcome
    PROVE  LET d == Done(act, outcome) IN
           /\ d.stage = "done" /\ d.outcome = outcome
           /\ outcome = "failed" => /\ d.req = act.req /\ d.before = act.before
                                    /\ d.alone = act.alone /\ d.hitch = act.hitch
           /\ outcome # "failed" => ~d.alone
  BY DEF Done, ActIdle

LEMMA DoneTraced ==
    ASSUME NEW act, NEW outcome, NEW valid, NEW yaml,
           outcome = "failed" => \/ ~act.alone \/ ~Returns(act.req) \/ act.hitch # "none"
                                 \/ valid /\ yaml = act.before
    PROVE  Lonely(Done(act, outcome)) /\ Traced(Done(act, outcome), valid, yaml)
  BY DoneIs DEF Lonely, Traced, Found, Waits, Turns, Goes

LEMMA TraceInit == Init => TraceInv
<1> SUFFICES ASSUME Init, NEW a \in Actions
             PROVE  Lonely(acts[a]) /\ Traced(acts[a], file.valid, file.yaml)
  BY DEF TraceInv
<1>1. acts[a] = ActIdle
  BY DEF Init
<1>2. ActIdle.stage = "idle" /\ ActIdle.outcome = "none" /\ ActIdle.alone = FALSE
  BY DEF ActIdle
<1> QED
  BY <1>1, <1>2 DEF Lonely, Traced

(* A step of one action that leaves the file alone.                        *)
LEMMA ActTraces ==
    ASSUME ConfigInv, TraceInv, NEW a \in Actions, NEW act, acts' = [acts EXCEPT ![a] = act],
           UNCHANGED file, Lonely(act), Traced(act, file.valid, file.yaml)
    PROVE  TraceInv'
<1>1. acts'[a] = act /\ \A b \in Actions : b # a => acts'[b] = acts[b]
  BY DEF ConfigInv, ActsOK
<1> QED
  BY <1>1 DEF TraceInv

(* Somebody else has written the file.                                     *)
LEMMA AloneTraces ==
    ASSUME NEW act, ActOK(act), Lonely(act), NEW x, x = [act EXCEPT !.alone = FALSE],
           NEW valid, NEW yaml
    PROVE  Lonely(x) /\ Traced(x, valid, yaml)
<1>1. IsAct(act)
  BY DEF ActOK
<1>2. /\ x.stage = act.stage /\ x.phase = act.phase /\ x.outcome = act.outcome
      /\ x.alone = FALSE
  BY <1>1 DEF IsAct
<1> QED
  BY <1>2 DEF Lonely, Traced

(* A step in which one action writes the file.                             *)
LEMMA WriteTraces ==
    ASSUME ConfigInv, TraceInv, NEW a \in Actions, NEW act, ActOK(act), act.stage # "write",
           acts' = Others(a, act), Lonely(act), Traced(act, file'.valid, file'.yaml)
    PROVE  TraceInv'
<1>1. /\ acts'[a] = act
      /\ \A b \in Actions : b # a => acts'[b] = [acts[b] EXCEPT !.alone = FALSE]
  BY OthersKeep
<1>2. ASSUME NEW b \in Actions, b # a
      PROVE  Lonely(acts'[b]) /\ Traced(acts'[b], file'.valid, file'.yaml)
  BY <1>1, <1>2, AloneTraces DEF ConfigInv, ActsOK, TraceInv
<1> QED
  BY <1>1, <1>2 DEF TraceInv

LEMMA HandleTraces ==
    ASSUME ConfigInv, TraceInv, NEW a \in Actions, NEW req \in Requests,
           HandleActionMessage(a, req)
    PROVE  TraceInv'
<1>1. PICK old : old = acts[a] /\ IsAct(old) /\ old.phase = "do" /\ ~old.alone
                 /\ old.outcome = "none"
  BY DEF ConfigInv, ActsOK, ActOK, TraceInv, Lonely, HandleActionMessage
<1>2. PICK stage, edit, expected :
        acts' = [acts EXCEPT ![a] = [old EXCEPT !.req = req, !.stage = stage, !.edit = edit,
                                                !.expected = expected]]
  BY <1>1 DEF HandleActionMessage
<1>3. PICK act : act = [old EXCEPT !.req = req, !.stage = stage, !.edit = edit,
                                   !.expected = expected]
  OBVIOUS
<1>4. act.alone = old.alone /\ act.outcome = old.outcome
  BY <1>1, <1>3 DEF IsAct
<1>5. Lonely(act) /\ Traced(act, file.valid, file.yaml)
  BY <1>1, <1>4 DEF Lonely, Traced
<1>6. acts' = [acts EXCEPT ![a] = act] /\ UNCHANGED file
  BY <1>2, <1>3 DEF HandleActionMessage, managerVars
<1> QED
  BY <1>5, <1>6, ActTraces

LEMMA MutateTraces ==
    ASSUME ConfigInv, TraceInv, NEW a \in Actions, Mutate(a)
    PROVE  TraceInv'
<1>1. PICK old : old = acts[a] /\ ActOK(old) /\ old.stage = "mutate" /\ Lonely(old)
  BY DEF ConfigInv, ActsOK, TraceInv, Mutate
<1>2. ~old.alone \/ ~Returns(old.req) \/ old.phase = "contract"
  BY <1>1 DEF ActOK, Reads, Lonely, Returns
<1>3. old.phase = "contract" => ~Returns(old.req)
  BY <1>1 DEF ActOK, Reads, ReadsFirst, Returns, Parts
<1>4. UNCHANGED file
  BY DEF Mutate
<1>5. CASE acts' = [acts EXCEPT ![a] = Done(acts[a], "failed")]
  BY <1>1, <1>2, <1>3, <1>4, <1>5, ActTraces, DoneTraced
<1>6. CASE \E e : acts' = [acts EXCEPT ![a] = [old EXCEPT !.stage = "lock", !.edit = e]]
  <2>1. PICK e : acts' = [acts EXCEPT ![a] = [old EXCEPT !.stage = "lock", !.edit = e]]
    BY <1>6
  <2>2. PICK act : act = [old EXCEPT !.stage = "lock", !.edit = e]
    OBVIOUS
  <2>3. IsAct(old)
    BY <1>1 DEF ActOK
  <2>4. /\ act.stage = "lock" /\ act.phase = old.phase /\ act.req = old.req
        /\ act.alone = old.alone /\ act.outcome = old.outcome
    BY <2>2, <2>3 DEF IsAct
  <2>5. Lonely(act) /\ Traced(act, file.valid, file.yaml)
    BY <1>1, <1>2, <1>3, <2>4 DEF Lonely, Traced
  <2>6. acts' = [acts EXCEPT ![a] = act]
    BY <2>1, <2>2
  <2> QED
    BY <1>4, <2>5, <2>6, ActTraces
<1> QED
  BY <1>1, <1>5, <1>6 DEF Mutate

LEMMA FailedTraced ==
    ASSUME NEW act, ActOK(act), NEW valid, NEW yaml,
           act.phase = "do" => \/ ~act.alone \/ ~Returns(act.req) \/ act.hitch # "none"
                               \/ valid /\ yaml = act.before
    PROVE  Lonely(Failed(act)) /\ Traced(Failed(act), valid, yaml)
<1>1. CASE act.phase = "undo"
  <2>0. PICK x : x = [act EXCEPT !.hitch = "undo"]
    OBVIOUS
  <2>1. x.hitch = "undo"
    BY <2>0, HitchOK
  <2>2. Failed(act) = Done(x, "failed")
    BY <1>1, <2>0 DEF Failed
  <2> QED
    BY <2>1, <2>2, DoneTraced
<1>2. CASE act.phase = "do"
  BY <1>2, DoneTraced DEF Failed
<1>3. CASE act.phase = "contract"
  BY <1>3, DoneTraced DEF Failed
<1> QED
  BY <1>1, <1>2, <1>3 DEF ActOK

LEMMA LockAndReturnTraces ==
    ASSUME ConfigInv, TraceInv, NEW a \in Actions, LockAndReturn(a)
    PROVE  TraceInv'
<1>1. ActOK(acts[a]) /\ (acts[a].phase = "do" => ~acts[a].alone)
  BY DEF ConfigInv, ActsOK, TraceInv, Lonely, LockAndReturn
<1>2. UNCHANGED file
  BY DEF LockAndReturn
<1>3. CASE acts' = [acts EXCEPT ![a] = Failed(acts[a])]
  BY <1>1, <1>2, <1>3, ActTraces, FailedTraced
<1>4. CASE acts' = [acts EXCEPT ![a] = Done(acts[a], "ok")]
  BY <1>2, <1>4, ActTraces, DoneTraced
<1> QED
  BY <1>3, <1>4 DEF LockAndReturn

LEMMA LockAndEditTraces ==
    ASSUME ConfigInv, TraceInv, NEW a \in Actions, LockAndEdit(a)
    PROVE  TraceInv'
<1>1. PICK act, r : /\ r \in Apply(acts[a].edit, cache.config)
                    /\ Locked(acts[a], cache.config, r, file.yaml,
                              Staleness(acts[a].hitch), act)
                    /\ acts' = [acts EXCEPT ![a] = act]
  BY LockAndEditIs
<1>2. PICK old : old = acts[a] /\ ActOK(old) /\ old.stage = "lock" /\ Lonely(old)
                 /\ Traced(old, file.valid, file.yaml) /\ ConfigOK(cache.config)
  BY DEF ConfigInv, ActsOK, CacheOK, LockAndEdit, TraceInv
<1>3. /\ act.stage = "write" /\ act.edit = old.edit /\ act.phase = old.phase
      /\ act.req = old.req /\ act.outcome = old.outcome /\ act.next = r
      /\ act.hitch = Staleness(old.hitch)
      /\ old.phase = "do" => /\ act.before = file.yaml /\ act.alone
                             /\ act.old = OldEntry(old.edit, cache.config)
      /\ old.phase # "do" => /\ act.before = old.before /\ act.alone = old.alone
                             /\ act.old = old.old
  BY <1>1, <1>2, LockedOK
<1>4. Lonely(act)
  BY <1>2, <1>3 DEF Lonely
<1>5. /\ EditOK(old.edit) /\ (old.phase = "do" => EditFits(old.req, old.edit))
      /\ old.phase \in {"do", "contract", "undo"} /\ act.outcome = "none"
  BY <1>2, <1>3 DEF ActOK, Lonely
<1>6. ASSUME act.alone, act.hitch = "none", Returns(act.req)
      PROVE  /\ file.valid /\ Found(act, file.yaml) /\ Goes(act)
  <2>1. /\ file.valid /\ file.yaml \in convertSpecToYaml(cache.config) /\ old.hitch = "none"
    BY <1>3, <1>6 DEF Staleness, CopyMatches
  <2>2. CASE old.phase = "do"
    <3>1. Began(act, act.edit, cache.config) /\ act.next \in Apply(act.edit, cache.config)
      BY <1>1, <1>2, <1>3, <1>5, <2>1, <2>2 DEF Began
    <3> QED
      BY <1>3, <2>1, <2>2, <3>1 DEF Found, Goes
  <2>3. CASE old.phase = "undo"
    <3>1. PICK c, e : /\ Updated(old, e, c, file.yaml)
                      /\ old.edit = UndoEdit(old.req, e, old.old)
      BY <1>2, <1>3, <1>6, <2>1, <2>3 DEF Traced, Turns
    <3>2. PICK x \in Apply(e, c) : file.yaml \in convertSpecToYaml(x)
      BY <3>1 DEF Updated
    <3>3. ConfigOK(c) /\ EditOK(e) /\ ConfigOK(x)
      BY <3>1, ApplyOK, SameSelf DEF Updated, Began
    <3>4. PICK z \in Apply(old.edit, x) : convertSpecToYaml(r) = convertSpecToYaml(z)
      BY <1>1, <1>2, <1>5, <2>1, <3>2, <3>3, WrittenAlike
    <3>5. \A w \in convertSpecToYaml(z) : w = old.before
      BY <1>3, <1>5, <1>6, <3>1, <3>2, <3>3, <3>4, UndoRestores DEF Updated, Began
    <3> QED
      BY <1>3, <2>1, <2>3, <3>4, <3>5 DEF Found, Goes
  <2>4. CASE old.phase = "contract"
    BY <1>3, <2>1, <2>4 DEF Found, Goes
  <2> QED
    BY <1>5, <2>2, <2>3, <2>4
<1>7. Traced(act, file.valid, file.yaml)
  BY <1>3, <1>5, <1>6 DEF Traced, Waits, Turns
<1>8. UNCHANGED file
  BY DEF LockAndEdit
<1> QED
  BY <1>1, <1>4, <1>7, <1>8, ActTraces

LEMMA WriteAndUnlockTraces ==
    ASSUME ConfigInv, TraceInv, NEW a \in Actions, WriteAndUnlock(a)
    PROVE  TraceInv'
<1>1. PICK old : /\ old = acts[a] /\ ActOK(old) /\ old.stage = "write" /\ Lonely(old)
                 /\ Traced(old, file.valid, file.yaml)
  BY DEF ConfigInv, ActsOK, TraceInv, WriteAndUnlock
<1>2. PICK y \in convertSpecToYaml(old.next) :
         file' = [valid |-> TRUE, yaml |-> y, mtime |-> file.mtime + 1]
  BY <1>1 DEF WriteAndUnlock, writeConfig
<1>3. PICK act \in AfterWrite(old) : acts' = Others(a, act)
  BY <1>1 DEF WriteAndUnlock
<1>4. file'.valid /\ file'.yaml = y
  BY <1>2
<1>5. /\ ActOK(act) /\ act.stage # "write"
      /\ \/ /\ old.phase = "do" /\ act.stage = "wait" /\ act.edit = old.edit
            /\ act.req = old.req /\ act.before = old.before /\ act.alone = old.alone
            /\ act.old = old.old /\ act.phase = "do" /\ act.outcome = old.outcome
            /\ act.hitch = old.hitch
         \/ old.phase = "do" /\ act.phase = "contract" /\ act.outcome = old.outcome
         \/ old.phase = "undo" /\ act = Done(old, "failed")
         \/ act = Done(old, "ok")
  BY <1>1, AfterWriteOK
<1>6. Lonely(act) /\ Traced(act, TRUE, y)
  <2>1. CASE act = Done(old, "ok")
    BY <2>1, DoneTraced
  <2>2. CASE old.phase = "do" /\ act.phase = "contract" /\ act.outcome = old.outcome
    <3>1. old.outcome = "none" /\ act.stage # "wait"
      BY <1>1, <1>5, <2>2 DEF Lonely, ActOK
    <3> QED
      BY <2>2, <3>1 DEF Lonely, Traced, Found, Waits, Turns, Goes
  <2>3. CASE /\ old.phase = "do" /\ act.stage = "wait" /\ act.edit = old.edit
             /\ act.req = old.req /\ act.before = old.before /\ act.alone = old.alone
             /\ act.old = old.old /\ act.phase = "do" /\ act.outcome = old.outcome
             /\ act.hitch = old.hitch
    <3>1. old.outcome = "none"
      BY <1>1 DEF Lonely
    <3>2. ASSUME old.alone, old.hitch = "none", Returns(old.req)
          PROVE  \E c : Updated(act, act.edit, c, y)
      <4>1. PICK c : Began(old, old.edit, c) /\ old.next \in Apply(old.edit, c)
        BY <1>1, <2>3, <3>2 DEF Traced, Found
      <4>2. Began(act, act.edit, c) /\ old.next \in Apply(act.edit, c)
        BY <2>3, <4>1 DEF Began
      <4> QED
        BY <4>2 DEF Updated
    <3> QED
      BY <2>3, <3>1, <3>2 DEF Lonely, Traced, Found, Waits, Turns, Goes
  <2>4. CASE old.phase = "undo" /\ act = Done(old, "failed")
    <3>1. ASSUME old.alone, old.hitch = "none", Returns(old.req)
          PROVE  y = old.before
      BY <1>1, <2>4, <3>1 DEF Traced, Goes
    <3> QED
      BY <2>4, <3>1, DoneTraced
  <2> QED
    BY <1>5, <2>1, <2>2, <2>3, <2>4
<1>7. Traced(act, file'.valid, file'.yaml)
  BY <1>2, <1>6
<1> QED
  BY <1>3, <1>5, <1>6, <1>7, WriteTraces

LEMMA WriteFailsTraces ==
    ASSUME ConfigInv, TraceInv, NEW a \in Actions, WriteFails(a)
    PROVE  TraceInv'
<1>1. /\ ActOK(acts[a]) /\ acts[a].stage = "write"
      /\ Traced(acts[a], file.valid, file.yaml)
  BY DEF ConfigInv, ActsOK, TraceInv, WriteFails
<1>2. UNCHANGED file /\ acts' = [acts EXCEPT ![a] = Failed(acts[a])]
  BY DEF WriteFails, managerVars
<1>3. Lonely(Failed(acts[a])) /\ Traced(Failed(acts[a]), file.valid, file.yaml)
  BY <1>1, FailedTraced DEF Traced, Found
<1> QED
  BY <1>2, <1>3, ActTraces

LEMMA StatFailsTraces ==
    ASSUME ConfigInv, TraceInv, NEW a \in Actions, StatFails(a)
    PROVE  TraceInv'
<1>0. PICK x : x = [acts[a] EXCEPT !.hitch = "stat"]
  OBVIOUS
<1>1. ActOK(x) /\ x.hitch = "stat"
  BY <1>0, HitchOK DEF ConfigInv, ActsOK
<1>2. acts' = Others(a, Failed(x))
  BY <1>0 DEF StatFails
<1>3. /\ ActOK(Failed(x)) /\ Failed(x).stage # "write"
      /\ Lonely(Failed(x)) /\ Traced(Failed(x), file'.valid, file'.yaml)
  BY <1>1, FailedOK, FailedTraced
<1> QED
  BY <1>2, <1>3, WriteTraces

LEMMA AwaitTraces ==
    ASSUME ConfigInv, TraceInv, NEW a \in Actions, Await(a)
    PROVE  TraceInv'
  BY ActTraces, DoneTraced DEF Await, managerVars

LEMMA ExpireTraces ==
    ASSUME ConfigInv, TraceInv, NEW a \in Actions, Expire(a)
    PROVE  TraceInv'
<1>1. PICK old : /\ old = acts[a] /\ ActOK(old) /\ old.stage = "wait" /\ Lonely(old)
                 /\ Traced(old, file.valid, file.yaml)
  BY DEF ConfigInv, ActsOK, TraceInv, Expire
<1>2. PICK act : act = Undo(old) /\ acts' = [acts EXCEPT ![a] = act]
  BY <1>1 DEF Expire
<1>3. UNCHANGED file
  BY DEF Expire, managerVars
<1>4. /\ IsAct(old) /\ old.req.do \in {"deploy", "edit", "delete"} /\ old.outcome = "none"
  BY <1>1, RequestsAssumption DEF ActOK, Lonely
<1>5. Lonely(act) /\ Traced(act, file.valid, file.yaml)
  <2>1. CASE old.req.do = "delete"
    <3>1. act = Done(old, "failed") /\ ~Returns(old.req)
      BY <1>2, <2>1 DEF Undo, Returns
    <3> QED
      BY <3>1, DoneTraced
  <2>2. CASE old.req.do = "deploy" /\ old.req.part = "pc"
    <3>1. act = [old EXCEPT !.phase = "undo", !.stage = "mutate"]
      BY <1>2, <2>2 DEF Undo
    <3>2. /\ act.phase = "undo" /\ act.stage = "mutate" /\ act.req = old.req
          /\ act.outcome = old.outcome
      BY <1>4, <3>1 DEF IsAct
    <3> QED
      BY <1>4, <2>2, <3>2 DEF Lonely, Traced, Returns
  <2>3. CASE old.req.do = "edit" \/ (old.req.do = "deploy" /\ old.req.part # "pc")
    <3>1. PICK u : u = UndoEdit(old.req, old.edit, old.old)
      OBVIOUS
    <3>2. act = [old EXCEPT !.phase = "undo", !.stage = "lock", !.edit = u]
      BY <1>2, <2>3, <3>1 DEF Undo, UndoEdit
    <3>3. /\ act.phase = "undo" /\ act.stage = "lock" /\ act.req = old.req /\ act.edit = u
          /\ act.outcome = old.outcome /\ act.before = old.before /\ act.alone = old.alone
          /\ act.old = old.old /\ act.hitch = old.hitch
      BY <1>4, <3>2 DEF IsAct
    <3>4. ASSUME act.alone, act.hitch = "none", Returns(act.req)
          PROVE  file.valid /\ \E c : Updated(act, old.edit, c, file.yaml)
      BY <1>1, <3>3, <3>4 DEF Traced, Waits, Updated, Began
    <3> QED
      BY <1>4, <3>1, <3>3, <3>4 DEF Lonely, Traced, Found, Waits, Turns, Goes
  <2> QED
    BY <1>4, <2>1, <2>2, <2>3
<1> QED
  BY <1>2, <1>3, <1>5, ActTraces

LEMMA SetConfigFileTraces ==
    ASSUME ConfigInv, TraceInv, NEW a \in Actions, SetConfigFile(a)
    PROVE  TraceInv'
<1>1. ~acts[a].alone
  BY DEF SetConfigFile, ConfigInv, ActsOK, ActOK, TraceInv, Lonely
<1>2. CASE acts' = [acts EXCEPT ![a] = Done(acts[a], "failed")] /\ UNCHANGED managerVars
  BY <1>1, <1>2, ActTraces, DoneTraced DEF managerVars
<1>3. CASE acts' = Others(a, Done(acts[a], "ok"))
  BY <1>3, WriteTraces, DoneOK, DoneTraced
<1> QED
  BY <1>2, <1>3 DEF SetConfigFile

LEMMA RestTraces ==
    ASSUME ConfigInv, TraceInv,
           Refresh \/ ControlLoopTick \/ Converge \/ Outside \/ UNCHANGED vars
    PROVE  TraceInv'
<1>1. CASE Refresh \/ ControlLoopTick \/ Converge \/ UNCHANGED vars
  <2>1. UNCHANGED <<file, acts>>
    BY <1>1 DEF Refresh, RefreshRead, RefreshStore, ControlLoopTick, Converge, managerVars, vars
  <2> QED
    BY <2>1 DEF TraceInv
<1>2. CASE Outside
  <2>1. acts' = [a \in Actions |-> [acts[a] EXCEPT !.alone = FALSE]]
    BY <1>2 DEF Outside
  <2>2. \A a \in Actions : Lonely(acts'[a]) /\ Traced(acts'[a], file'.valid, file'.yaml)
    BY <2>1, AloneTraces DEF ConfigInv, ActsOK, TraceInv
  <2> QED
    BY <2>2 DEF TraceInv
<1> QED
  BY <1>1, <1>2

LEMMA TraceNext == ConfigInv /\ TraceInv /\ [Next]_vars => TraceInv'
<1> SUFFICES ASSUME ConfigInv, TraceInv, [Next]_vars PROVE TraceInv'
  OBVIOUS
<1>1. ASSUME NEW a \in Actions,
             (\E req \in Requests : HandleActionMessage(a, req)) \/ Step(a) \/ Await(a)
      PROVE  TraceInv'
  BY <1>1, HandleTraces, MutateTraces, LockAndReturnTraces, LockAndEditTraces,
     WriteAndUnlockTraces, WriteFailsTraces, StatFailsTraces, SetConfigFileTraces, AwaitTraces,
     ExpireTraces DEF Step
<1> QED
  BY <1>1, RestTraces DEF Next

(* An action that reports failure has put the file back as it found it,    *)
(* whatever was written from outside before it began and whatever a        *)
(* refresh stores while it waits, unless somebody else has written the     *)
(* file since or one of three hitches is recorded: an update made to a     *)
(* copy not written as the file, a failed Stat, a failed undoing.  Proved  *)
(* as long as all files from outside were tidy.                            *)
THEOREM FailureRestores == Spec => [](FilesTidy => FailureLeavesNoTrace)
<1>1. TraceInv => FailureLeavesNoTrace
  BY DEF TraceInv, Traced, Returns, FailureLeavesNoTrace, FailedAlone
<1> QED
  BY <1>1, ConfigInit, ConfigNext, TidyBefore, TraceInit, TraceNext, PTL DEF Spec
==============================================================================
