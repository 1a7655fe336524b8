-------------------------- MODULE MessageSigning_proofs --------------------------
(***************************************************************************)
(* Theorems about MessageSigning, for every set of keys, labels, settings, *)
(* policies and clocks: its types; that no signature is lost before it is  *)
(* reported; that what is accepted was signed as it reads; that signatures *)
(* do not disturb each other; and that one survives an honest journey.     *)
(***************************************************************************)
EXTENDS MessageSigning, Httpsig_proofs, FiniteSetTheorems

\* A signature field, and a message with two of them, as they may get.
IsHeader(header) ==
    /\ DOMAIN header = {"ok", "occ"} /\ header.ok \in BOOLEAN
    /\ DOMAIN header.occ = SignLabels
    /\ \A l \in SignLabels : ListOf(header.occ[l])
IsMessage(m, s, made) ==
    /\ DOMAIN m = {"req", "fields", "inputs", "sigs"}
    /\ DOMAIN m.req = RequestFields /\ ListOf(m.req.query)
    /\ DOMAIN m.fields = DOMAIN s.contents
    /\ \A n \in DOMAIN m.fields : m.fields[n] \in s.contents[n]
    /\ IsHeader(m.inputs) /\ IsHeader(m.sigs)
    /\ \A l \in SignLabels : \A i \in DOMAIN m.inputs.occ[l] :
          m.inputs.occ[l][i] = Malformed \/ IsInput(m.inputs.occ[l][i])
    /\ \A l \in SignLabels : \A i \in DOMAIN m.sigs.occ[l] :
          m.sigs.occ[l][i] \in made \union {Malformed}
\* A signature in the history is one of the message it was made on.
Statement(h, s, made) ==
    /\ h.key \in Keys /\ IsInput(h.input) /\ IsMessage(h.msg, s, made)
    /\ HasBase(h.msg, FieldTypes, h.input.items)
    /\ h.sig = KeySign(h.key, SignatureBase(h.msg, h.target, FieldTypes, h.input))
TargetThere(req) == Target(req, setting.scheme, setting.authority)
Made == {h.sig : h \in signed}

\* The inductive invariant: of any journey.
Inv ==
    /\ setting \in Settings /\ side \in {"client", "server"}
    /\ now \in 1..MaxTime /\ edits \in 0..setting.maxEdits
    /\ IsMessage(msg, setting, Made)
    /\ \A h \in signed : Statement(h, setting, Made)
    /\ parsed # NotParsed =>
          /\ side = "server" /\ IsMessage(asParsed, setting, Made)
          /\ parsed = ParseSignatures(asParsed, TargetThere(asParsed.req), FieldTypes)

-----------------------------------------------------------------------------
(* The invariant *)

\* What is known of a message, and of a signature, outlasts the making of
\* another.
LEMMA Outlasts ==
    ASSUME NEW s, NEW made, NEW more, made \subseteq more
    PROVE  /\ \A m : IsMessage(m, s, made) => IsMessage(m, s, more)
           /\ \A h : Statement(h, s, made) => Statement(h, s, more)
<1>1. \A m : IsMessage(m, s, made) => IsMessage(m, s, more)
  BY DEF IsMessage
<1> QED
  BY <1>1 DEF Statement

\* Appending to a signature field keeps it one.
LEMMA Grows ==
    ASSUME NEW header, IsHeader(header), NEW l \in SignLabels, NEW value
    PROVE  LET grown == Append1(header, l, value)
           IN  /\ IsHeader(grown) /\ grown.ok = header.ok
               /\ \A m \in SignLabels : m # l => grown.occ[m] = header.occ[m]
               /\ grown.occ[l] = Append(header.occ[l], value)
               /\ \A i \in DOMAIN grown.occ[l] :
                     grown.occ[l][i] = value \/ (i \in DOMAIN header.occ[l]
                                                 /\ grown.occ[l][i] = header.occ[l][i])
               /\ grown.occ[l] # <<>> /\ Last(grown.occ[l]) = value
               /\ Len(grown.occ[l]) = Len(header.occ[l]) + 1
<1> DEFINE s == header.occ[l]
           t == Append(s, value)
           occ == [header.occ EXCEPT ![l] = t]
           grown == Append1(header, l, value)
<1>1. /\ s \in Seq(ToSet(s)) /\ Len(s) \in Nat
  BY DEF IsHeader, ListOf
<1>2. /\ t \in Seq(ToSet(s) \union {value}) /\ Len(t) = Len(s) + 1
      /\ \A i \in 1..Len(s) : t[i] = s[i]
      /\ t[Len(s) + 1] = value
  BY <1>1
<1>3. DOMAIN t = 1..(Len(s) + 1) /\ DOMAIN s = 1..Len(s)
  BY <1>1, <1>2
<1>4. \A i \in DOMAIN t : t[i] = value \/ (i \in DOMAIN s /\ t[i] = s[i])
  BY <1>1, <1>2, <1>3
<1>5. t # <<>> /\ Last(t) = value
  <2>1. t[Len(t)] = value
    BY <1>1, <1>2
  <2>2. Len(t) # 0
    BY <1>1, <1>2
  <2> HIDE DEF t
  <2> QED
    BY <2>1, <2>2 DEF Last
<1>6. ListOf(t)
  <2>1. \A i \in 1..Len(t) : t[i] \in ToSet(t)
    BY <1>2, <1>3 DEF ToSet
  <2>2. t = [i \in 1..Len(t) |-> t[i]] /\ Len(t) \in Nat
    BY <1>1, <1>2
  <2>3. t \in Seq(ToSet(t))
    <3> HIDE DEF t
    <3> QED
      BY <2>1, <2>2
  <2> QED
    BY <2>3 DEF ListOf
<1>7. grown.occ = occ /\ grown.ok = header.ok /\ DOMAIN grown = {"ok", "occ"}
  BY DEF IsHeader, Append1
<1>8. occ[l] = t /\ DOMAIN occ = SignLabels /\ \A m \in SignLabels : m # l => occ[m] = header.occ[m]
  BY DEF IsHeader
<1>9. IsHeader(grown)
  <2> HIDE DEF grown, occ, t
  <2> QED
    BY <1>6, <1>7, <1>8 DEF IsHeader
<1> HIDE DEF occ, t
<1> QED
  BY <1>2, <1>4, <1>5, <1>7, <1>8, <1>9 DEF s

\* Dropping a label's members keeps a signature field one, with the others.
LEMMA Shrinks ==
    ASSUME NEW header, IsHeader(header), NEW l \in setting.labels, setting.labels \subseteq SignLabels
    PROVE  LET g == Without(header, l)
           IN  /\ IsHeader(g) /\ g.ok = header.ok /\ g.occ[l] = <<>>
               /\ \A m \in SignLabels : m # l => g.occ[m] = header.occ[m]
<1> DEFINE g == Without(header, l)
<1>1. /\ DOMAIN g = {"ok", "occ"} /\ g.ok = header.ok /\ DOMAIN g.occ = SignLabels
      /\ g.occ[l] = <<>> /\ \A m \in SignLabels : m # l => g.occ[m] = header.occ[m]
  BY DEF IsHeader, Without
<1>2. ListOf(<<>>)
  BY DEF ListOf
<1> HIDE DEF g
<1>3. IsHeader(g)
  BY <1>1, <1>2 DEF IsHeader
<1> QED
  BY <1>1, <1>3 DEF g

\* Merging into a signature field keeps it one, and adds nothing else.
LEMMA Merges ==
    ASSUME NEW header, IsHeader(header), NEW l \in SignLabels, NEW value
    PROVE  LET merged == Merge(header, l, value)
           IN  /\ IsHeader(merged) /\ merged.ok = header.ok
               /\ merged.occ[l] = <<value>>
               /\ \A m \in SignLabels : \A i \in DOMAIN merged.occ[m] :
                     \/ m = l /\ merged.occ[m][i] = value
                     \/ \E j \in DOMAIN header.occ[m] : merged.occ[m][i] = header.occ[m][j]
               /\ \A m \in SignLabels \ {l} : Len(merged.occ[m]) <= Len(header.occ[m])
<1> DEFINE merged == Merge(header, l, value)
<1>1. /\ merged.ok = header.ok /\ DOMAIN merged = {"ok", "occ"}
      /\ DOMAIN merged.occ = SignLabels
      /\ merged.occ[l] = <<value>>
      /\ \A m \in SignLabels : m # l =>
            merged.occ[m] = IF header.occ[m] # <<>> THEN <<Last(header.occ[m])>> ELSE <<>>
  BY DEF IsHeader, Merge
<1>2. \A x : ListOf(<<x>>)
  BY DEF ListOf, ToSet
<1>3. ListOf(<<>>)
  BY DEF ListOf
<1>4. \A m \in SignLabels : header.occ[m] # <<>> =>
          /\ Len(header.occ[m]) \in DOMAIN header.occ[m] /\ Len(header.occ[m]) \in Nat \ {0}
          /\ Last(header.occ[m]) = header.occ[m][Len(header.occ[m])]
  BY DEF IsHeader, ListOf, Last
<1> HIDE DEF merged
<1>5. IsHeader(merged)
  <2>1. ASSUME NEW m \in SignLabels
        PROVE  ListOf(merged.occ[m])
    <3>1. CASE m = l
      BY <1>1, <1>2, <3>1
    <3>2. CASE m # l /\ header.occ[m] # <<>>
      BY <1>1, <1>2, <3>2
    <3>3. CASE m # l /\ header.occ[m] = <<>>
      BY <1>1, <1>3, <3>3
    <3> QED
      BY <3>1, <3>2, <3>3
  <2> QED
    BY <1>1, <2>1 DEF IsHeader
<1>6. ASSUME NEW m \in SignLabels, m # l
      PROVE  /\ Len(merged.occ[m]) <= Len(header.occ[m])
             /\ \A i \in DOMAIN merged.occ[m] :
                   \E j \in DOMAIN header.occ[m] : merged.occ[m][i] = header.occ[m][j]
  <2>1. CASE header.occ[m] # <<>>
    <3>1. merged.occ[m] = <<Last(header.occ[m])>>
      BY <1>1, <1>6, <2>1
    <3> QED
      BY <1>4, <2>1, <3>1
  <2>2. CASE header.occ[m] = <<>>
    <3>1. merged.occ[m] = <<>>
      BY <1>1, <1>6, <2>2
    <3> QED
      BY <2>2, <3>1
  <2> QED
    BY <2>1, <2>2
<1>7. \A i \in DOMAIN merged.occ[l] : merged.occ[l][i] = value
  BY <1>1
<1> QED
  BY <1>1, <1>5, <1>6, <1>7 DEF merged

\* The invariant holds at the start.
LEMMA InitInv == Init => Inv
<1> SUFFICES ASSUME Init
             PROVE  Inv
  OBVIOUS
<1>1. PICK r \in setting.requests, f \in Contents :
          msg = [req |-> r, fields |-> f, inputs |-> EmptyHeader, sigs |-> EmptyHeader]
  BY DEF Init
<1>2. setting \in Settings /\ IsRequest(r)
  BY SettingsAssumption DEF Init
<1>3. IsHeader(EmptyHeader) /\ \A l \in SignLabels : EmptyHeader.occ[l] = <<>>
  BY DEF IsHeader, EmptyHeader, ListOf
<1>4. DOMAIN f = DOMAIN setting.contents /\ \A n \in DOMAIN f : f[n] \in setting.contents[n]
  BY DEF Contents
<1>5. IsMessage(msg, setting, Made)
  <2>1. /\ msg.req = r /\ msg.fields = f /\ msg.inputs = EmptyHeader /\ msg.sigs = EmptyHeader
        /\ DOMAIN msg = {"req", "fields", "inputs", "sigs"}
    BY <1>1
  <2> QED
    BY <1>2, <1>3, <1>4, <2>1 DEF IsMessage, IsRequest, RequestFields
<1>6. now \in 1..MaxTime /\ edits \in 0..setting.maxEdits
  BY <1>2, SettingsAssumption, TimesAssumption DEF Init
<1> QED
  BY <1>2, <1>5, <1>6 DEF Init, Inv

\* Another request, or another field, in a message.
LEMMA Rewritten ==
    ASSUME NEW s, NEW made, NEW m, IsMessage(m, s, made), NEW n, DOMAIN n = DOMAIN m,
           n.inputs = m.inputs, n.sigs = m.sigs,
           DOMAIN n.req = DOMAIN m.req,
           ListOf(n.req.query),
           DOMAIN n.fields = DOMAIN m.fields,
           \A f \in DOMAIN n.fields : n.fields[f] \in s.contents[f]
    PROVE  IsMessage(n, s, made)
BY DEF IsMessage

\* Other signature fields in a message.
LEMMA Resigned ==
    ASSUME NEW s, NEW made, NEW m, IsMessage(m, s, made), NEW n, DOMAIN n = DOMAIN m,
           n.req = m.req, n.fields = m.fields,
           IsHeader(n.inputs), IsHeader(n.sigs),
           \A l \in SignLabels : \A i \in DOMAIN n.inputs.occ[l] :
              n.inputs.occ[l][i] = Malformed \/ IsInput(n.inputs.occ[l][i]),
           \A l \in SignLabels : \A i \in DOMAIN n.sigs.occ[l] :
              n.sigs.occ[l][i] \in made \union {Malformed}
    PROVE  IsMessage(n, s, made)
BY DEF IsMessage

\* Sign writes a sound message.
LEMMA Signs ==
    ASSUME NEW s, NEW made, NEW m, IsMessage(m, s, made), NEW l \in SignLabels,
           NEW input, IsInput(input), NEW sig \in made
    PROVE  IsMessage(AddSignature(m, l, input, sig), s, made)
<1> DEFINE n == AddSignature(m, l, input, sig)
<1>1. /\ DOMAIN n = DOMAIN m /\ n.req = m.req /\ n.fields = m.fields
      /\ n.inputs = Merge(m.inputs, l, input) /\ n.sigs = Merge(m.sigs, l, sig)
  BY DEF IsMessage, AddSignature
<1>2. IsHeader(m.inputs) /\ IsHeader(m.sigs)
  BY DEF IsMessage
<1>3. IsHeader(n.inputs) /\ IsHeader(n.sigs)
  BY <1>1, <1>2, Merges
<1>4. ASSUME NEW k \in SignLabels, NEW i \in DOMAIN n.inputs.occ[k]
      PROVE  n.inputs.occ[k][i] = Malformed \/ IsInput(n.inputs.occ[k][i])
  <2>1. n.inputs.occ[k][i] = input \/ \E j \in DOMAIN m.inputs.occ[k] : n.inputs.occ[k][i] = m.inputs.occ[k][j]
    BY <1>1, <1>2, <1>4, Merges
  <2> HIDE DEF n
  <2> QED
    BY <2>1 DEF IsMessage
<1>5. ASSUME NEW k \in SignLabels, NEW i \in DOMAIN n.sigs.occ[k]
      PROVE  n.sigs.occ[k][i] \in made \union {Malformed}
  <2>1. n.sigs.occ[k][i] = sig \/ \E j \in DOMAIN m.sigs.occ[k] : n.sigs.occ[k][i] = m.sigs.occ[k][j]
    BY <1>1, <1>2, <1>5, Merges
  <2> HIDE DEF n
  <2> QED
    BY <2>1 DEF IsMessage
<1> HIDE DEF n
<1>6. IsMessage(n, s, made)
  BY <1>1, <1>3, <1>4, <1>5, Resigned
<1> QED
  BY <1>6 DEF n

\* Appending a member to either signature field leaves the message sound.
LEMMA Appends ==
    ASSUME NEW s, NEW made, NEW m, IsMessage(m, s, made), NEW l \in SignLabels
    PROVE  /\ \A input : input = Malformed \/ IsInput(input) =>
                  IsMessage([m EXCEPT !.inputs = Append1(@, l, input)], s, made)
           /\ \A sig \in made \union {Malformed} :
                  IsMessage([m EXCEPT !.sigs = Append1(@, l, sig)], s, made)
<1>1. IsHeader(m.inputs) /\ IsHeader(m.sigs)
  BY DEF IsMessage
<1>2. ASSUME NEW input, input = Malformed \/ IsInput(input)
      PROVE  IsMessage([m EXCEPT !.inputs = Append1(@, l, input)], s, made)
  <2> DEFINE n == [m EXCEPT !.inputs = Append1(@, l, input)]
             g == Append1(m.inputs, l, input)
  <2>1. /\ DOMAIN n = DOMAIN m /\ n.req = m.req /\ n.fields = m.fields
        /\ n.inputs = g /\ n.sigs = m.sigs
    BY DEF IsMessage
  <2>2. /\ IsHeader(g)
        /\ \A k \in SignLabels : k # l => g.occ[k] = m.inputs.occ[k]
        /\ \A i \in DOMAIN g.occ[l] :
              g.occ[l][i] = input \/ (i \in DOMAIN m.inputs.occ[l] /\ g.occ[l][i] = m.inputs.occ[l][i])
    BY <1>1, Grows
  <2> HIDE DEF g, n
  <2>3. \A k \in SignLabels : \A i \in DOMAIN g.occ[k] : g.occ[k][i] = Malformed \/ IsInput(g.occ[k][i])
    BY <1>2, <2>2 DEF IsMessage
  <2>4. \A k \in SignLabels : \A i \in DOMAIN m.sigs.occ[k] : m.sigs.occ[k][i] \in made \union {Malformed}
    BY DEF IsMessage
  <2>5. IsMessage(n, s, made)
    BY <1>1, <2>1, <2>2, <2>3, <2>4, Resigned
  <2> QED
    BY <2>5 DEF n
<1>3. ASSUME NEW sig \in made \union {Malformed}
      PROVE  IsMessage([m EXCEPT !.sigs = Append1(@, l, sig)], s, made)
  <2> DEFINE n == [m EXCEPT !.sigs = Append1(@, l, sig)]
             g == Append1(m.sigs, l, sig)
  <2>1. /\ DOMAIN n = DOMAIN m /\ n.req = m.req /\ n.fields = m.fields
        /\ n.inputs = m.inputs /\ n.sigs = g
    BY DEF IsMessage
  <2>2. /\ IsHeader(g)
        /\ \A k \in SignLabels : k # l => g.occ[k] = m.sigs.occ[k]
        /\ \A i \in DOMAIN g.occ[l] :
              g.occ[l][i] = sig \/ (i \in DOMAIN m.sigs.occ[l] /\ g.occ[l][i] = m.sigs.occ[l][i])
    BY <1>1, Grows
  <2> HIDE DEF g, n
  <2>3. \A k \in SignLabels : \A i \in DOMAIN g.occ[k] : g.occ[k][i] \in made \union {Malformed}
    BY <1>3, <2>2 DEF IsMessage
  <2>4. \A k \in SignLabels : \A i \in DOMAIN m.inputs.occ[k] :
            m.inputs.occ[k][i] = Malformed \/ IsInput(m.inputs.occ[k][i])
    BY DEF IsMessage
  <2>5. IsMessage(n, s, made)
    BY <1>1, <2>1, <2>2, <2>3, <2>4, Resigned
  <2> QED
    BY <2>5 DEF n
<1> QED
  BY <1>2, <1>3

\* What is made of a message is in the history, and is sound.
LEMMA Recorded ==
    ASSUME Inv, NEW key \in Keys, NEW label, NEW input, IsInput(input),
           HasBase(msg, FieldTypes, input.items), Record(key, label, input), setting' = setting
    PROVE  /\ KeySign(key, SignatureBase(msg, TargetHere(msg), FieldTypes, input)) \in Made'
           /\ Made \subseteq Made'
           /\ \A h \in signed' : Statement(h, setting', Made')
<1> DEFINE sig == KeySign(key, SignatureBase(msg, TargetHere(msg), FieldTypes, input))
<1>1. PICK h : h = [key |-> key, label |-> label, input |-> input, msg |-> msg,
                    target |-> TargetHere(msg), sig |-> sig]
  OBVIOUS
<1>2. signed' = signed \union {h}
  BY <1>1 DEF Record
<1>3. /\ h.key = key /\ h.input = input /\ h.msg = msg /\ h.target = TargetHere(msg) /\ h.sig = sig
  BY <1>1
<1> HIDE DEF sig
<1>4. Made \subseteq Made' /\ sig \in Made'
  BY <1>2, <1>3 DEF Made
<1>5. Statement(h, setting, Made)
  BY <1>3 DEF Statement, Inv, sig
<1>6. \A g \in signed' : Statement(g, setting, Made)
  BY <1>2, <1>5 DEF Inv
<1>7. \A g \in signed' : Statement(g, setting', Made')
  BY <1>4, <1>6, Outlasts
<1> QED
  BY <1>4, <1>7 DEF sig

\* Sign keeps the invariant.
LEMMA SignInv ==
    ASSUME Inv, NEW key \in Keys, NEW label \in setting.labels, NEW comps \in setting.lists,
           NEW ttl \in setting.ttls, Sign(key, label, comps, ttl)
    PROVE  Inv'
<1> DEFINE items == Covered(comps)
           input == [items |-> items,
                     params |-> [created |-> Created(now), expires |-> Expires(now, ttl),
                                 alg |-> AlgorithmOf[key]]]
           sig == KeySign(key, SignatureBase(msg, TargetHere(msg), FieldTypes, input))
<1>1. label \in SignLabels /\ ListOf(comps) /\ ttl \in Int /\ now \in Int
  BY SettingsAssumption DEF Inv
<1>2. IsInput(input)
  <2>1. ListOf(items)
    <3>1. DOMAIN items = 1..Len(comps) /\ Len(comps) \in Nat
      BY <1>1 DEF Covered, ListOf
    <3>2. items = [i \in 1..Len(comps) |-> items[i]]
      BY <3>1 DEF Covered
    <3>3. \A i \in 1..Len(comps) : items[i] \in ToSet(items)
      BY <3>1 DEF ToSet
    <3> HIDE DEF items
    <3> QED
      BY <3>1, <3>2, <3>3 DEF ListOf
  <2>2. Created(now) \in Int /\ Expires(now, ttl) \in Int \union {Absent}
    BY <1>1, SecondAssumption DEF Created, Expires
  <2> HIDE DEF items
  <2> QED
    BY <2>1, <2>2 DEF IsInput
<1>3. /\ CanSign(msg, FieldTypes, input, label) /\ Record(key, label, input)
      /\ msg' = AddSignature(msg, label, input, sig)
      /\ UNCHANGED <<side, setting, now, edits, parsed, asParsed>>
  BY Zenon DEF Sign
<1> HIDE DEF input
<1>4. HasBase(msg, FieldTypes, input.items)
  BY <1>3 DEF CanSign
<1>5. sig \in Made' /\ Made \subseteq Made' /\ \A h \in signed' : Statement(h, setting', Made')
  BY <1>2, <1>3, <1>4, Recorded
<1> HIDE DEF sig
<1>6. IsMessage(msg, setting, Made')
  BY <1>5, Outlasts DEF Inv
<1>7. IsMessage(msg', setting', Made')
  BY <1>1, <1>2, <1>3, <1>5, <1>6, Signs
<1>8. IsMessage(asParsed, setting, Made) => IsMessage(asParsed', setting', Made')
  BY <1>3, <1>5, Outlasts
<1> QED
  BY <1>3, <1>5, <1>7, <1>8 DEF Inv, TargetThere

\* So does the signature of a peer.
LEMMA PeerSignInv ==
    ASSUME Inv, NEW key \in Keys, NEW label \in setting.labels, NEW input \in setting.peers,
           PeerSign(key, label, input)
    PROVE  Inv'
<1> DEFINE sig == KeySign(key, SignatureBase(msg, TargetHere(msg), FieldTypes, input))
           half == [msg EXCEPT !.inputs = Append1(@, label, input)]
<1>1. label \in SignLabels /\ IsInput(input)
  BY SettingsAssumption DEF Inv
<1>2. /\ HasBase(msg, FieldTypes, input.items) /\ Record(key, label, input)
      /\ msg' = [msg EXCEPT !.inputs = Append1(@, label, input), !.sigs = Append1(@, label, sig)]
      /\ UNCHANGED <<side, setting, now, edits, parsed, asParsed>>
  BY DEF PeerSign
<1>3. sig \in Made' /\ Made \subseteq Made' /\ \A h \in signed' : Statement(h, setting', Made')
  BY <1>1, <1>2, Recorded
<1> HIDE DEF sig
<1>4. IsMessage(msg, setting, Made')
  BY <1>3, Outlasts DEF Inv
<1>5. IsMessage(half, setting, Made')
  BY <1>1, <1>4, Appends
<1>6. msg' = [half EXCEPT !.sigs = Append1(@, label, sig)]
  BY <1>2, <1>4 DEF IsMessage
<1> HIDE DEF half
<1>7. IsMessage(msg', setting', Made')
  <2>1. \A x \in Made' \union {Malformed} : IsMessage([half EXCEPT !.sigs = Append1(@, label, x)], setting, Made')
    BY <1>1, <1>5, Appends
  <2>2. IsMessage([half EXCEPT !.sigs = Append1(@, label, sig)], setting, Made')
    BY <1>3, <2>1
  <2> QED
    BY <1>2, <1>6, <2>2
<1>8. IsMessage(asParsed, setting, Made) => IsMessage(asParsed', setting', Made')
  BY <1>2, <1>3, Outlasts
<1> QED
  BY <1>2, <1>3, <1>7, <1>8 DEF Inv, TargetThere

\* An edit that leaves the message sound keeps the invariant.
LEMMA EditInv ==
    ASSUME Inv, NEW m, IsMessage(m, setting, Made), Edit(m)
    PROVE  Inv'
<1>1. Made' = Made
  BY DEF Edit, Made
<1>2. edits' \in 0..setting.maxEdits
  BY SettingsAssumption DEF Edit, Inv
<1> QED
  BY <1>1, <1>2 DEF Edit, Inv, TargetThere

\* The edits of intermediaries do.
LEMMA EditsInv ==
    ASSUME Inv
    PROVE  /\ \A n \in DOMAIN setting.contents : \A ls \in setting.contents[n] : EditField(n, ls) => Inv'
           /\ \A part \in DOMAIN setting.rewrites : \A val \in setting.rewrites[part] :
                  EditRequest(part, val) => Inv'
           /\ \A l \in setting.labels, i \in WireInputs \union {Malformed} : AppendInput(l, i) => Inv'
           /\ \A l \in setting.labels, sig \in {h.sig : h \in signed} \union {Malformed} :
                  AppendSig(l, sig) => Inv'
           /\ \A l \in setting.labels : DropInput(l) \/ DropSig(l) => Inv'
           /\ BreakInputs => Inv'
<1>1. /\ IsMessage(msg, setting, Made) /\ setting.labels \subseteq SignLabels
      /\ IsHeader(msg.inputs) /\ IsHeader(msg.sigs)
  BY SettingsAssumption DEF Inv, IsMessage
<1>2. ASSUME NEW n \in DOMAIN setting.contents, NEW ls \in setting.contents[n], EditField(n, ls)
      PROVE  Inv'
  <2> DEFINE m == [msg EXCEPT !.fields = [msg.fields EXCEPT ![n] = ls]]
  <2>1. /\ DOMAIN m = DOMAIN msg /\ m.req = msg.req /\ m.inputs = msg.inputs /\ m.sigs = msg.sigs
        /\ m.fields = [msg.fields EXCEPT ![n] = ls]
    BY <1>1 DEF IsMessage
  <2>2. DOMAIN m.fields = DOMAIN msg.fields /\ \A f \in DOMAIN m.fields : m.fields[f] \in setting.contents[f]
    BY <1>1, <2>1 DEF IsMessage
  <2>3. Edit(m)
    BY <1>2 DEF EditField
  <2> HIDE DEF m
  <2>4. DOMAIN m.req = DOMAIN msg.req /\ ListOf(m.req.query)
    BY <1>1, <2>1 DEF IsMessage
  <2>5. IsMessage(m, setting, Made)
    BY <1>1, <2>1, <2>2, <2>4, Rewritten
  <2> QED
    BY <2>3, <2>5, EditInv
<1>3. ASSUME NEW part \in DOMAIN setting.rewrites, NEW val \in setting.rewrites[part], EditRequest(part, val)
      PROVE  Inv'
  <2> DEFINE m == [msg EXCEPT !.req = [msg.req EXCEPT ![part] = val]]
  <2>1. /\ DOMAIN m = DOMAIN msg /\ m.fields = msg.fields /\ m.inputs = msg.inputs /\ m.sigs = msg.sigs
        /\ m.req = [msg.req EXCEPT ![part] = val]
    BY <1>1 DEF IsMessage
  <2>2. DOMAIN m.req = DOMAIN msg.req /\ m.req.query \in {msg.req.query} \union {q \in {val} : part = "query"}
    BY <1>1, <2>1 DEF IsMessage, RequestFields
  <2>3. Edit(m)
    BY <1>3 DEF EditRequest
  <2> HIDE DEF m
  <2>4. ListOf(m.req.query)
    BY <1>1, <2>2, SettingsAssumption DEF IsMessage, Inv
  <2>5. DOMAIN m.fields = DOMAIN msg.fields /\ \A f \in DOMAIN m.fields : m.fields[f] \in setting.contents[f]
    BY <1>1, <2>1 DEF IsMessage
  <2>6. IsMessage(m, setting, Made)
    BY <1>1, <2>1, <2>2, <2>4, <2>5, Rewritten
  <2> QED
    BY <2>3, <2>6, EditInv
<1>4. ASSUME NEW l \in setting.labels, NEW i \in WireInputs \union {Malformed}, AppendInput(l, i)
      PROVE  Inv'
  <2> DEFINE m == [msg EXCEPT !.inputs = Append1(@, l, i)]
  <2>1. i = Malformed \/ IsInput(i)
    <3>1. ASSUME NEW h \in signed
          PROVE  IsInput(h.input) /\ IsInput(Extended(h.input))
      <4>1. IsInput(h.input)
        BY DEF Inv, Statement
      <4>2. /\ DOMAIN Extended(h.input) = DOMAIN h.input /\ Extended(h.input).items = h.input.items
            /\ DOMAIN Extended(h.input).params = DOMAIN h.input.params
            /\ Extended(h.input).params.created = h.input.params.created
            /\ Extended(h.input).params.expires = MaxTime + 1 /\ MaxTime + 1 \in Int
        BY <4>1, TimesAssumption DEF IsInput, Extended
      <4> QED
        BY <4>1, <4>2 DEF IsInput
    <3> QED
      BY <3>1 DEF WireInputs
  <2>2. IsMessage(m, setting, Made)
    BY <1>1, <2>1, Appends
  <2>3. Edit(m)
    BY <1>4 DEF AppendInput
  <2> HIDE DEF m
  <2> QED
    BY <2>2, <2>3, EditInv
<1>5. ASSUME NEW l \in setting.labels, NEW sig \in {h.sig : h \in signed} \union {Malformed}, AppendSig(l, sig)
      PROVE  Inv'
  <2> DEFINE m == [msg EXCEPT !.sigs = Append1(@, l, sig)]
  <2>1. sig \in Made \union {Malformed}
    BY DEF Made
  <2>2. IsMessage(m, setting, Made)
    BY <1>1, <2>1, Appends
  <2>3. Edit(m)
    BY <1>5 DEF AppendSig
  <2> HIDE DEF m
  <2> QED
    BY <2>2, <2>3, EditInv
<1>6. ASSUME NEW l \in setting.labels, DropInput(l) \/ DropSig(l)
      PROVE  Inv'
  <2>1. CASE DropInput(l)
    <3> DEFINE g == Without(msg.inputs, l)
               m == [msg EXCEPT !.inputs = g]
    <3>1. /\ DOMAIN m = DOMAIN msg /\ m.req = msg.req /\ m.fields = msg.fields
          /\ m.inputs = g /\ m.sigs = msg.sigs
      BY <1>1 DEF IsMessage
    <3>2. Edit(m)
      BY <2>1 DEF DropInput
    <3> HIDE DEF m
    <3>3. IsMessage(m, setting, Made)
      <4>1. /\ IsHeader(g) /\ g.occ[l] = <<>>
            /\ \A k \in SignLabels : k # l => g.occ[k] = msg.inputs.occ[k]
        BY <1>1, Shrinks
      <4> HIDE DEF g
      <4>2. \A k \in SignLabels : \A i \in DOMAIN g.occ[k] : g.occ[k][i] = Malformed \/ IsInput(g.occ[k][i])
        BY <1>1, <4>1 DEF IsMessage
      <4>3. \A k \in SignLabels : \A i \in DOMAIN m.sigs.occ[k] : m.sigs.occ[k][i] \in Made \union {Malformed}
        BY <1>1, <3>1 DEF IsMessage
      <4> QED
        BY <1>1, <3>1, <4>1, <4>2, <4>3, Resigned
    <3> QED
      BY <3>2, <3>3, EditInv
  <2>2. CASE DropSig(l)
    <3> DEFINE g == Without(msg.sigs, l)
               m == [msg EXCEPT !.sigs = g]
    <3>1. /\ DOMAIN m = DOMAIN msg /\ m.req = msg.req /\ m.fields = msg.fields
          /\ m.inputs = msg.inputs /\ m.sigs = g
      BY <1>1 DEF IsMessage
    <3>2. Edit(m)
      BY <2>2 DEF DropSig
    <3> HIDE DEF m
    <3>3. IsMessage(m, setting, Made)
      <4>1. /\ IsHeader(g) /\ g.occ[l] = <<>>
            /\ \A k \in SignLabels : k # l => g.occ[k] = msg.sigs.occ[k]
        BY <1>1, Shrinks
      <4> HIDE DEF g
      <4>2. \A k \in SignLabels : \A i \in DOMAIN g.occ[k] : g.occ[k][i] \in Made \union {Malformed}
        BY <1>1, <4>1 DEF IsMessage
      <4>3. \A k \in SignLabels : \A i \in DOMAIN m.inputs.occ[k] :
                m.inputs.occ[k][i] = Malformed \/ IsInput(m.inputs.occ[k][i])
        BY <1>1, <3>1 DEF IsMessage
      <4> QED
        BY <1>1, <3>1, <4>1, <4>2, <4>3, Resigned
    <3> QED
      BY <3>2, <3>3, EditInv
  <2> QED
    BY <1>6, <2>1, <2>2
<1>7. ASSUME BreakInputs
      PROVE  Inv'
  <2> DEFINE g == [msg.inputs EXCEPT !.ok = FALSE]
             m == [msg EXCEPT !.inputs = g]
  <2>1. /\ DOMAIN m = DOMAIN msg /\ m.req = msg.req /\ m.fields = msg.fields
        /\ m.inputs = g /\ m.sigs = msg.sigs
    BY <1>1 DEF IsMessage
  <2>2. DOMAIN g = {"ok", "occ"} /\ g.ok = FALSE /\ g.occ = msg.inputs.occ
    BY <1>1 DEF IsHeader
  <2>3. Edit(m)
    BY <1>7 DEF BreakInputs
  <2> HIDE DEF g, m
  <2>4. IsHeader(g)
    BY <1>1, <2>2 DEF IsHeader
  <2>5. IsMessage(m, setting, Made)
    BY <1>1, <2>1, <2>2, <2>4 DEF IsMessage
  <2> QED
    BY <2>3, <2>5, EditInv
<1> QED
  BY <1>2, <1>3, <1>4, <1>5, <1>6, <1>7

\* Delivery, parsing and the clock do.
LEMMA WorldInv ==
    ASSUME Inv, (\E ended \in setting.ends, absolute \in BOOLEAN : Deliver(ended, absolute)) \/ Parse \/ Tick
    PROVE  Inv'
<1>1. ASSUME NEW ended \in setting.ends, NEW absolute \in BOOLEAN, Deliver(ended, absolute)
      PROVE  Inv'
  <2> DEFINE req == IF absolute THEN InboundAbsolute(msg.req)
                    ELSE Inbound(msg.req, msg.req.urlScheme = "https" /\ ~ended)
             m == [msg EXCEPT !.req = req]
  <2>1. IsMessage(msg, setting, Made) /\ Made' = Made
    BY <1>1 DEF Inv, Deliver, Made
  <2>2. /\ DOMAIN m = DOMAIN msg /\ m.req = req /\ m.fields = msg.fields
        /\ m.inputs = msg.inputs /\ m.sigs = msg.sigs
    BY <2>1 DEF IsMessage
  <2>3. DOMAIN req = DOMAIN msg.req /\ req.query = msg.req.query
    BY <2>1 DEF IsMessage, RequestFields, Inbound, InboundAbsolute
  <2>4. msg' = m
    BY <1>1 DEF Deliver
  <2> HIDE DEF req, m
  <2>5. DOMAIN m.fields = DOMAIN msg.fields /\ \A f \in DOMAIN m.fields : m.fields[f] \in setting.contents[f]
    BY <2>1, <2>2 DEF IsMessage
  <2>6. ListOf(m.req.query)
    BY <2>1, <2>2, <2>3 DEF IsMessage
  <2>7. IsMessage(m, setting, Made)
    BY <2>1, <2>2, <2>3, <2>5, <2>6, Rewritten
  <2> QED
    BY <1>1, <2>1, <2>4, <2>7 DEF Inv, Deliver, TargetThere
<1>2. ASSUME Parse
      PROVE  Inv'
  <2>1. Made' = Made
    BY <1>2 DEF Parse, Made
  <2> QED
    BY <1>2, <2>1 DEF Inv, Parse, TargetHere, TargetThere
<1>3. ASSUME Tick
      PROVE  Inv'
  <2>1. Made' = Made /\ now' \in 1..MaxTime
    BY <1>3, TimesAssumption DEF Tick, Made, Inv
  <2> QED
    BY <1>3, <2>1 DEF Inv, Tick, TargetThere
<1> QED
  BY <1>1, <1>2, <1>3

\* Every step keeps the invariant.
LEMMA NextInv == Inv /\ [Next]_vars => Inv'
<1> SUFFICES ASSUME Inv, [Next]_vars
             PROVE  Inv'
  OBVIOUS
<1>1. CASE UNCHANGED vars
  <2>1. Made' = Made
    BY <1>1 DEF vars, Made
  <2> QED
    BY <1>1, <2>1 DEF Inv, vars, TargetThere
<1>2. CASE \E k \in Keys, l \in setting.labels, cs \in setting.lists, ttl \in setting.ttls : Sign(k, l, cs, ttl)
  BY <1>2, SignInv
<1>3. CASE \E k \in Keys, l \in setting.labels, i \in setting.peers : PeerSign(k, l, i)
  BY <1>3, PeerSignInv
<1>4. CASE \/ \E n \in DOMAIN setting.contents : \E ls \in setting.contents[n] : EditField(n, ls)
           \/ \E part \in DOMAIN setting.rewrites : \E val \in setting.rewrites[part] : EditRequest(part, val)
           \/ \E l \in setting.labels, i \in WireInputs \union {Malformed} : AppendInput(l, i)
           \/ \E l \in setting.labels, s \in {h.sig : h \in signed} \union {Malformed} : AppendSig(l, s)
           \/ \E l \in setting.labels : DropInput(l) \/ DropSig(l)
           \/ BreakInputs
  BY <1>4, EditsInv
<1>5. CASE (\E ended \in setting.ends, absolute \in BOOLEAN : Deliver(ended, absolute)) \/ Parse \/ Tick
  BY <1>5, WorldInv
<1> QED
  BY <1>1, <1>2, <1>3, <1>4, <1>5 DEF Next

\* The inductive invariant holds in every reachable state.
THEOREM Invariance == Spec => []Inv
<1> QED
  BY InitInv, NextInv, PTL DEF Spec

\* Messages, the history and parse results have their types, whatever is
\* signed and edited.
THEOREM TypeCorrect == Spec => []TypeOK
<1>1. Inv => TypeOK
  <2> SUFFICES ASSUME Inv
               PROVE  TypeOK
    OBVIOUS
  <2>1. IsMessage(msg, setting, Made)
    BY DEF Inv
  <2>2. /\ DOMAIN msg = {"req", "fields", "inputs", "sigs"}
        /\ \A n \in DOMAIN msg.fields : msg.fields[n] \in setting.contents[n]
        /\ \A h \in Headers : h.ok \in BOOLEAN /\ DOMAIN h.occ = SignLabels
    BY <2>1 DEF IsMessage, IsHeader, Headers
  <2>3. \A l \in SignLabels : \A i \in DOMAIN msg.sigs.occ[l] :
            msg.sigs.occ[l][i] \in {h.sig : h \in signed} \union {Malformed}
    BY <2>1 DEF IsMessage, Made
  <2>4. \A h \in signed : h.key \in Keys /\ h.sig.key = h.key
    <3> SUFFICES ASSUME NEW h \in signed
                 PROVE  h.key \in Keys /\ h.sig.key = h.key
      OBVIOUS
    <3>1. h.key \in Keys /\ h.sig = KeySign(h.key, SignatureBase(h.msg, h.target, FieldTypes, h.input))
      BY DEF Inv, Statement
    <3> QED
      BY <3>1 DEF KeySign
  <2>5. parsed # NotParsed => side = "server" /\ DOMAIN parsed \subseteq SignLabels
    BY DEF Inv, ParseSignatures, Labels, IsMessage, IsHeader
  <2> QED
    BY <2>2, <2>3, <2>4, <2>5 DEF TypeOK, Inv
<1> QED
  BY <1>1, Invariance, PTL

-----------------------------------------------------------------------------
(* What was signed is reported *)

SignedUnder == {h.label : h \in signed}
\* Until somebody edits, both signature fields have the labels signed under;
\* after one edit, one of the fields still does.
Present ==
    /\ SignedUnder \subseteq SignLabels
    /\ edits = 0 => Labels(msg.inputs) = SignedUnder /\ Labels(msg.sigs) = SignedUnder
    /\ edits <= 1 => SignedUnder \subseteq Labels(msg.inputs) \union Labels(msg.sigs)

\* What is recorded is recorded under its label.
LEMMA RecordsLabel ==
    ASSUME NEW key, NEW label, NEW input, Record(key, label, input)
    PROVE  SignedUnder' = SignedUnder \union {label}
<1>1. PICK h : h.label = label /\ signed' = signed \union {h}
  <2> DEFINE base == SignatureBase(msg, TargetHere(msg), FieldTypes, input)
             g == [key |-> key, label |-> label, input |-> input, msg |-> msg,
                   target |-> TargetHere(msg), sig |-> KeySign(key, base)]
  <2>1. g.label = label /\ signed' = signed \union {g}
    BY DEF Record
  <2> HIDE DEF g
  <2> QED
    BY <2>1
<1> QED
  BY <1>1 DEF SignedUnder

\* A signature under a label puts it into both fields, next to the others.
LEMMA AddsPresent ==
    ASSUME Inv, Present, NEW l \in SignLabels,
           SignedUnder' = SignedUnder \union {l}, edits' = edits,
           Labels(msg'.inputs) = Labels(msg.inputs) \union {l},
           Labels(msg'.sigs) = Labels(msg.sigs) \union {l}
    PROVE  Present'
BY DEF Present

\* An edit leaves one of the two fields alone.
LEMMA EditPresent ==
    ASSUME Inv, Present, NEW m, Edit(m), m.inputs = msg.inputs \/ m.sigs = msg.sigs
    PROVE  Present'
<1>1. SignedUnder' = SignedUnder /\ edits' = edits + 1 /\ msg' = m
  BY DEF Edit, SignedUnder
<1>2. edits \in Nat
  BY SettingsAssumption DEF Inv
<1>3. edits' <= 1 => edits = 0
  BY <1>1, <1>2
<1>4. edits' # 0
  BY <1>1, <1>2
<1>5. edits' <= 1 => SignedUnder \subseteq Labels(m.inputs) \union Labels(m.sigs)
  BY <1>3 DEF Present
<1> QED
  BY <1>1, <1>4, <1>5 DEF Present

\* Every step keeps that.
LEMMA PresentStays == Inv /\ Present /\ [Next]_vars => Present'
<1> SUFFICES ASSUME Inv, Present, [Next]_vars
             PROVE  Present'
  OBVIOUS
<1>1. /\ DOMAIN msg = {"req", "fields", "inputs", "sigs"} /\ IsHeader(msg.inputs) /\ IsHeader(msg.sigs)
      /\ setting.labels \subseteq SignLabels
  BY SettingsAssumption DEF Inv, IsMessage
<1>2. ASSUME NEW k \in Keys, NEW l \in setting.labels, NEW cs \in setting.lists, NEW ttl, Sign(k, l, cs, ttl)
      PROVE  Present'
  <2>1. PICK input, sig : /\ msg' = AddSignature(msg, l, input, sig)
                          /\ Record(k, l, input) /\ edits' = edits
    BY <1>2 DEF Sign
  <2>2. msg'.inputs = Merge(msg.inputs, l, input) /\ msg'.sigs = Merge(msg.sigs, l, sig)
    BY <1>1, <2>1 DEF AddSignature
  <2>3. /\ Labels(msg'.inputs) = Labels(msg.inputs) \union {l}
        /\ Labels(msg'.sigs) = Labels(msg.sigs) \union {l}
    <3>1. \A header, value : IsHeader(header) =>
              Labels(Merge(header, l, value)) = Labels(header) \union {l}
      <4> SUFFICES ASSUME NEW header, NEW value, IsHeader(header)
                   PROVE  Labels(Merge(header, l, value)) = Labels(header) \union {l}
        OBVIOUS
      <4>1. "occ" \in DOMAIN header /\ l \in DOMAIN header.occ
        BY <1>1 DEF IsHeader
      <4>2. Labels(header) \subseteq DOMAIN header.occ
        BY DEF Labels
      <4> QED
        BY <4>1, <4>2, MergeKeeps
    <3> QED
      BY <1>1, <2>2, <3>1
  <2> QED
    BY <1>1, <2>1, <2>3, RecordsLabel, AddsPresent
<1>3. ASSUME NEW k \in Keys, NEW l \in setting.labels, NEW input \in setting.peers, PeerSign(k, l, input)
      PROVE  Present'
  <2>1. PICK sig : /\ msg'.inputs = Append1(msg.inputs, l, input) /\ msg'.sigs = Append1(msg.sigs, l, sig)
                   /\ Record(k, l, input) /\ edits' = edits
    BY <1>1, <1>3 DEF PeerSign
  <2>2. \A header, value : IsHeader(header) =>
            Labels(Append1(header, l, value)) = Labels(header) \union {l}
    <3> SUFFICES ASSUME NEW header, NEW value, IsHeader(header)
                 PROVE  Labels(Append1(header, l, value)) = Labels(header) \union {l}
      OBVIOUS
    <3> DEFINE g == Append1(header, l, value)
    <3>1. /\ IsHeader(g) /\ g.occ[l] # <<>>
          /\ \A m \in SignLabels : m # l => g.occ[m] = header.occ[m]
      BY <1>1, Grows
    <3> HIDE DEF g
    <3>2. Labels(g) = Labels(header) \union {l}
      BY <1>1, <3>1 DEF Labels, IsHeader
    <3> QED
      BY <3>2 DEF g
  <2> QED
    BY <1>1, <2>1, <2>2, RecordsLabel, AddsPresent
<1>4. CASE UNCHANGED vars \/ (\E ended \in setting.ends, absolute \in BOOLEAN : Deliver(ended, absolute))
           \/ Parse \/ Tick
  <2>1. /\ msg'.inputs = msg.inputs /\ msg'.sigs = msg.sigs
        /\ SignedUnder' = SignedUnder /\ edits' = edits
    BY <1>1, <1>4 DEF vars, Deliver, Parse, Tick, SignedUnder
  <2> QED
    BY <2>1 DEF Present
<1>5. CASE \E m : Edit(m) /\ (m.inputs = msg.inputs \/ m.sigs = msg.sigs)
  BY <1>5, EditPresent
<1>6. CASE \/ \E n \in DOMAIN setting.contents : \E ls \in setting.contents[n] : EditField(n, ls)
           \/ \E part \in DOMAIN setting.rewrites : \E val \in setting.rewrites[part] : EditRequest(part, val)
           \/ \E l \in setting.labels, i \in WireInputs \union {Malformed} : AppendInput(l, i)
           \/ \E l \in setting.labels, s \in {h.sig : h \in signed} \union {Malformed} : AppendSig(l, s)
           \/ \E l \in setting.labels : DropInput(l) \/ DropSig(l)
           \/ BreakInputs
  <2>1. \A x : /\ [msg EXCEPT !.fields = x].inputs = msg.inputs /\ [msg EXCEPT !.req = x].inputs = msg.inputs
               /\ [msg EXCEPT !.sigs = x].inputs = msg.inputs /\ [msg EXCEPT !.inputs = x].sigs = msg.sigs
    BY <1>1
  <2>2. \E m : Edit(m) /\ (m.inputs = msg.inputs \/ m.sigs = msg.sigs)
    BY <1>6, <2>1 DEF EditField, EditRequest, AppendInput, AppendSig, DropInput, DropSig, BreakInputs
  <2> QED
    BY <1>5, <2>2
<1> QED
  BY <1>2, <1>3, <1>4, <1>6 DEF Next

\* Everything anybody signed under is reported, as long as there was no more
\* than one edit, and nothing else if there was none.
THEOREM SignaturesAreReported == Spec => SignaturesReported
<1>1. Init => Present
  <2> SUFFICES ASSUME Init
               PROVE  Present
    OBVIOUS
  <2>1. msg.inputs = EmptyHeader /\ msg.sigs = EmptyHeader /\ SignedUnder = {}
    BY DEF Init, SignedUnder
  <2>2. Labels(EmptyHeader) = {}
    BY DEF Labels, EmptyHeader
  <2> QED
    BY <2>1, <2>2 DEF Present
<1>2. Inv /\ Present /\ [Next]_vars =>
        [parsed' # parsed =>
            LET labels == {h.label : h \in signed}
            IN  /\ edits = 0 => DOMAIN parsed' = labels
                /\ edits <= 1 => labels \subseteq DOMAIN parsed']_vars
  <2> SUFFICES ASSUME Inv, Present, [Next]_vars, parsed' # parsed
               PROVE  /\ edits = 0 => DOMAIN parsed' = SignedUnder
                      /\ edits <= 1 => SignedUnder \subseteq DOMAIN parsed'
    BY DEF SignedUnder
  <2>1. Parse
    BY DEF Next, vars, Sign, PeerSign, Edit, EditField, EditRequest, AppendInput, AppendSig, DropInput,
           DropSig, BreakInputs, Deliver, Tick
  <2>2. DOMAIN parsed' = Labels(msg.inputs) \union Labels(msg.sigs)
    BY <2>1 DEF Parse, ParseSignatures
  <2> QED
    BY <2>2 DEF Present
<1> QED
  BY <1>1, <1>2, PresentStays, Invariance, PTL DEF Spec, SignaturesReported

-----------------------------------------------------------------------------
(* What an accepted signature says *)

\* Under a key that is there, the one value read is the member's.
LEMMA FirstIsMember ==
    ASSUME NEW S, NEW es \in Seq(S), NEW key
    PROVE  FirstVals(es, key) = IF key \in KeysIn(es) THEN {Member(es, key)} ELSE {}
<1> DEFINE At == {i \in DOMAIN es : es[i].key = key}
           IsLast(i) == i \in DOMAIN es /\ es[i].key = key /\ \A j \in DOMAIN es : es[j].key = key => j <= i
           last == CHOOSE i \in DOMAIN es : es[i].key = key /\ \A j \in DOMAIN es : es[j].key = key => j <= i
<1>1. DOMAIN es = 1..Len(es) /\ Len(es) \in Nat
  OBVIOUS
<1>2. CASE key \in KeysIn(es)
  <2>1. At \subseteq 1..Len(es) /\ At # {}
    BY <1>1, <1>2 DEF KeysIn
  <2>2. \E i \in At : \A j \in At : j <= i
    <3> HIDE DEF At
    <3> QED
      BY <1>1, <2>1, GreatestIndex
  <2>3. \E i \in DOMAIN es : es[i].key = key /\ \A j \in DOMAIN es : es[j].key = key => j <= i
    BY <2>2
  <2>4. IsLast(last)
    BY <2>3
  <2>5. \A i : IsLast(i) => i = last
    <3> HIDE DEF last
    <3> QED
      BY <1>1, <2>4
  <2>6. Member(es, key) = es[last].val
    BY DEF Member
  <2>7. FirstVals(es, key) = {es[i].val : i \in {j \in DOMAIN es : IsLast(j)}}
    BY DEF FirstVals
  <2>8. {j \in DOMAIN es : IsLast(j)} = {last}
    <3> HIDE DEF last
    <3> QED
      BY <2>4, <2>5
  <2> HIDE DEF last, IsLast
  <2> QED
    BY <1>2, <2>6, <2>7, <2>8
<1>3. CASE key \notin KeysIn(es)
  BY <1>3 DEF FirstVals, KeysIn
<1> QED
  BY <1>2, <1>3

\* The lines of a field, joined, are a list of elements.
LEMMA LinesJoin ==
    ASSUME NEW s \in Settings, NEW made, NEW m, IsMessage(m, s, made), NEW name
    PROVE  \E S : FlattenSeq(FieldLines(m, name)) \in Seq(S)
<1> DEFINE host == [key |-> "", val |-> m.req.host, raw |-> "text"]
<1>1. CASE name \in DOMAIN m.fields /\ m.fields[name] # <<>>
  <2> DEFINE lines == m.fields[name]
             S == UNION {ToSet(lines[i]) : i \in DOMAIN lines}
  <2>1. FieldLines(m, name) = lines
    BY <1>1 DEF FieldLines
  <2>2. ListOf(lines) /\ \A i \in DOMAIN lines : ListOf(lines[i])
    BY <1>1, SettingsAssumption DEF IsMessage
  <2>3. lines \in Seq(ToSet(lines)) /\ \A i \in DOMAIN lines : lines[i] \in Seq(ToSet(lines[i]))
    BY <2>2 DEF ListOf
  <2>4. \A i \in DOMAIN lines : lines[i] \in Seq(S)
    <3> SUFFICES ASSUME NEW i \in DOMAIN lines
                 PROVE  lines[i] \in Seq(S)
      OBVIOUS
    <3>1. ToSet(lines[i]) \subseteq S
      OBVIOUS
    <3> HIDE DEF S, lines
    <3> QED
      BY <2>3, <3>1
  <2> HIDE DEF S, lines
  <2>5. lines \in Seq(Seq(S))
    BY <2>3, <2>4
  <2> QED
    BY <2>1, <2>5, FlattenIsSeq
<1>2. CASE ~(name \in DOMAIN m.fields /\ m.fields[name] # <<>>) /\ name = "host" /\ m.req.host # NoHost
  <2>1. FieldLines(m, name) = <<<<host>>>>
    BY <1>2 DEF FieldLines
  <2> HIDE DEF host
  <2>2. <<<<host>>>> \in Seq(Seq({host}))
    OBVIOUS
  <2> QED
    BY <2>1, <2>2, FlattenIsSeq
<1>3. CASE ~(name \in DOMAIN m.fields /\ m.fields[name] # <<>>) /\ ~(name = "host" /\ m.req.host # NoHost)
  <2>1. FieldLines(m, name) = <<>>
    BY <1>3 DEF FieldLines
  <2>2. <<>> \in Seq(Seq({}))
    OBVIOUS
  <2> QED
    BY <2>1, <2>2, FlattenIsSeq
<1> QED
  BY <1>1, <1>2, <1>3

\* The lines of two fields read the same under component c.
ReadsSame(c, x, y) ==
    IF c.bs THEN x = y
    ELSE IF c.key # "" THEN FirstVals(FlattenSeq(x), c.key) = FirstVals(FlattenSeq(y), c.key)
    ELSE IF c.sf THEN \A k : FirstVals(FlattenSeq(x), k) = FirstVals(FlattenSeq(y), k)
    ELSE FlattenSeq(x) = FlattenSeq(y)

\* Field values that are equal are of fields that read the same, line by
\* line, by member or by structure, or joined.
LEMMA FieldsAgree ==
    ASSUME NEW S, NEW T, NEW x, NEW y, FlattenSeq(x) \in Seq(S), FlattenSeq(y) \in Seq(T),
           NEW types, NEW c, Valid(c), c.name \notin DerivedNames,
           Readable(x, types, c), Readable(y, types, c),
           FieldValue(x, types, c) = FieldValue(y, types, c)
    PROVE  ReadsSame(c, x, y)
<1> USE DEF ReadsSame
<1> DEFINE es == FlattenSeq(x)  fs == FlattenSeq(y)
<1>1. c.bs => ~c.sf /\ c.key = ""
  BY DEF Valid
<1>2. CASE c.bs
  <2>1. FieldValue(x, types, c) = <<"lines", x>> /\ FieldValue(y, types, c) = <<"lines", y>>
    BY <1>1, <1>2 DEF FieldValue
  <2>2. <<"lines", x>> = <<"lines", y>>
    BY <2>1
  <2>3. x = y
    BY ONLY <2>2
  <2> QED
    BY <1>2, <2>3
<1>3. CASE ~c.bs /\ c.key # ""
  <2>1. FieldValue(x, types, c) = <<"member", Member(es, c.key)>>
        /\ FieldValue(y, types, c) = <<"member", Member(fs, c.key)>>
    BY <1>3 DEF FieldValue
  <2>2. c.key \in KeysIn(es) /\ c.key \in KeysIn(fs)
    BY <1>3 DEF Readable
  <2> HIDE DEF es, fs
  <2>3. Member(es, c.key) = Member(fs, c.key)
    <3>1. <<"member", Member(es, c.key)>> = <<"member", Member(fs, c.key)>>
      BY <2>1
    <3> QED
      BY ONLY <3>1
  <2>4. FirstVals(es, c.key) = FirstVals(fs, c.key)
    BY <2>2, <2>3, FirstIsMember DEF es, fs
  <2> QED
    BY <1>3, <2>4 DEF es, fs
<1>4. CASE ~c.bs /\ c.key = "" /\ c.sf /\ types[c.name] = "dictionary"
  <2> DEFINE F == [k \in KeysIn(es) |-> Member(es, k)]
             G == [k \in KeysIn(fs) |-> Member(fs, k)]
  <2>1. FieldValue(x, types, c) = <<"dictionary", F>> /\ FieldValue(y, types, c) = <<"dictionary", G>>
    BY <1>4 DEF FieldValue
  <2>2. F = G
    <3> HIDE DEF F, G
    <3>1. <<"dictionary", F>> = <<"dictionary", G>>
      BY <2>1
    <3> QED
      BY ONLY <3>1
  <2>3. KeysIn(es) = KeysIn(fs) /\ \A k \in KeysIn(es) : Member(es, k) = Member(fs, k)
    <3>1. DOMAIN F = KeysIn(es) /\ DOMAIN G = KeysIn(fs)
      OBVIOUS
    <3>2. \A k \in KeysIn(es) : F[k] = Member(es, k)
      OBVIOUS
    <3>3. \A k \in KeysIn(fs) : G[k] = Member(fs, k)
      OBVIOUS
    <3> HIDE DEF F, G, es, fs
    <3> QED
      BY <2>2, <3>1, <3>2, <3>3
  <2> HIDE DEF es, fs
  <2>4. \A k : FirstVals(es, k) = FirstVals(fs, k)
    BY <2>3, FirstIsMember DEF es, fs
  <2> QED
    BY <1>4, <2>4 DEF es, fs
<1>5. CASE ~c.bs /\ c.key = "" /\ c.sf /\ types[c.name] # "dictionary"
  <2> DEFINE F == [i \in DOMAIN es |-> <<es[i].key, es[i].val>>]
             G == [i \in DOMAIN fs |-> <<fs[i].key, fs[i].val>>]
  <2>1. FieldValue(x, types, c) = <<"list", F>> /\ FieldValue(y, types, c) = <<"list", G>>
    BY <1>5 DEF FieldValue
  <2>2. F = G
    <3> HIDE DEF F, G
    <3>1. <<"list", F>> = <<"list", G>>
      BY <2>1
    <3> QED
      BY ONLY <3>1
  <2>3. DOMAIN es = DOMAIN fs
    BY <2>2
  <2>4. \A i \in DOMAIN es : es[i].key = fs[i].key /\ es[i].val = fs[i].val
    <3> SUFFICES ASSUME NEW i \in DOMAIN es
                 PROVE  es[i].key = fs[i].key /\ es[i].val = fs[i].val
      OBVIOUS
    <3>1. F[i] = <<es[i].key, es[i].val>> /\ G[i] = <<fs[i].key, fs[i].val>>
      BY <2>3
    <3> HIDE DEF F, G, es, fs
    <3> QED
      BY <2>2, <3>1
  <2> HIDE DEF es, fs
  <2>5. \A k : FirstVals(es, k) = FirstVals(fs, k)
    BY <2>3, <2>4 DEF FirstVals
  <2> QED
    BY <1>5, <2>5 DEF es, fs
<1>6. CASE ~c.bs /\ c.key = "" /\ ~c.sf
  <2>1. FieldValue(x, types, c) = <<"joined", es>> /\ FieldValue(y, types, c) = <<"joined", fs>>
    BY <1>6 DEF FieldValue
  <2> HIDE DEF es, fs
  <2>2. es = fs
    <3>1. <<"joined", es>> = <<"joined", fs>>
      BY <2>1
    <3> QED
      BY ONLY <3>1
  <2> QED
    BY <1>6, <2>2 DEF es, fs
<1> QED
  BY <1>2, <1>3, <1>4, <1>5, <1>6

\* The values of a signature field that are equal are of fields with the
\* same members.
LEMMA HeadersAgree ==
    ASSUME NEW x, NEW y, NEW types, NEW c, Valid(c), c.name \notin DerivedNames,
           HeaderReadable(x, types, c), HeaderReadable(y, types, c),
           HeaderValue(x, c) = HeaderValue(y, c)
    PROVE  MembersAgree(c, x, y)
<1>1. CASE c.key # ""
  <2>1. HeaderValue(x, c) = <<"member", Get(x, c.key)>> /\ HeaderValue(y, c) = <<"member", Get(y, c.key)>>
    BY <1>1 DEF HeaderValue
  <2>2. <<"member", Get(x, c.key)>> = <<"member", Get(y, c.key)>>
    BY <2>1
  <2>3. Get(x, c.key) = Get(y, c.key)
    BY ONLY <2>2
  <2>4. c.key \in Labels(x) /\ c.key \in Labels(y)
    BY <1>1 DEF HeaderReadable
  <2> QED
    BY <1>1, <2>3, <2>4 DEF MembersAgree
<1>2. CASE c.key = "" /\ c.sf
  <2> DEFINE F == [l \in Labels(x) |-> Get(x, l)]
             G == [l \in Labels(y) |-> Get(y, l)]
  <2>1. HeaderValue(x, c) = <<"dictionary", F>> /\ HeaderValue(y, c) = <<"dictionary", G>>
    BY <1>2 DEF HeaderValue, Valid
  <2>2. DOMAIN F = Labels(x) /\ DOMAIN G = Labels(y)
        /\ (\A l \in Labels(x) : F[l] = Get(x, l)) /\ (\A l \in Labels(y) : G[l] = Get(y, l))
    OBVIOUS
  <2> HIDE DEF F, G
  <2>3. F = G
    <3>1. <<"dictionary", F>> = <<"dictionary", G>>
      BY <2>1
    <3> QED
      BY ONLY <3>1
  <2>4. Labels(x) = Labels(y) /\ \A l \in Labels(x) : Get(x, l) = Get(y, l)
    BY <2>2, <2>3
  <2> QED
    BY <1>2, <2>4 DEF MembersAgree
<1>3. CASE c.key = "" /\ ~c.sf
  <2>1. x.occ = y.occ
    <3>1. CASE c.bs
      <4>1. HeaderValue(x, c) = <<"lines", x.occ>> /\ HeaderValue(y, c) = <<"lines", y.occ>>
        BY <1>3, <3>1 DEF HeaderValue
      <4>2. <<"lines", x.occ>> = <<"lines", y.occ>>
        BY <4>1
      <4> QED
        BY ONLY <4>2
    <3>2. CASE ~c.bs
      <4>1. HeaderValue(x, c) = <<"joined", x.occ>> /\ HeaderValue(y, c) = <<"joined", y.occ>>
        BY <1>3, <3>2 DEF HeaderValue
      <4>2. <<"joined", x.occ>> = <<"joined", y.occ>>
        BY <4>1
      <4> QED
        BY ONLY <4>2
    <3> QED
      BY <3>1, <3>2
  <2> QED
    BY <1>3, <2>1 DEF MembersAgree
<1> QED
  BY <1>1, <1>2, <1>3

\* Values of a query parameter that are equal are of queries that have it
\* once, with that value.
LEMMA ParamsAgree ==
    ASSUME NEW q, ListOf(q), NEW r, ListOf(r), NEW name, HasParam(q, name), HasParam(r, name),
           q[CHOOSE i \in ParamAt(q, name) : TRUE].val = r[CHOOSE i \in ParamAt(r, name) : TRUE].val
    PROVE  ParamAgrees(name, q, r)
<1>1. ASSUME NEW s, ListOf(s), HasParam(s, name)
      PROVE  \E i \in DOMAIN s : ParamAt(s, name) = {i} /\ (CHOOSE j \in ParamAt(s, name) : TRUE) = i
  <2>1. DOMAIN s = 1..Len(s) /\ Len(s) \in Nat
    BY <1>1 DEF ListOf
  <2>2. IsFiniteSet(ParamAt(s, name))
    <3>1. IsFiniteSet(1..Len(s))
      BY <2>1, FS_Interval
    <3>2. ParamAt(s, name) \in SUBSET (1..Len(s))
      BY <2>1 DEF ParamAt
    <3> QED
      BY <3>1, <3>2, FS_Subset
  <2>3. PICK i : ParamAt(s, name) = {i}
    BY <1>1, <2>2, FS_Singleton DEF HasParam
  <2>4. i \in DOMAIN s
    BY <2>3 DEF ParamAt
  <2> QED
    BY <2>3, <2>4
<1>2. PICK i \in DOMAIN q : ParamAt(q, name) = {i} /\ (CHOOSE n \in ParamAt(q, name) : TRUE) = i
  BY <1>1
<1>3. PICK j \in DOMAIN r : ParamAt(r, name) = {j} /\ (CHOOSE n \in ParamAt(r, name) : TRUE) = j
  BY <1>1
<1>4. q[i].val = r[j].val
  BY <1>2, <1>3
<1>5. /\ \A n \in DOMAIN q : q[n].key = name <=> n = i
      /\ \A n \in DOMAIN r : r[n].key = name <=> n = j
  BY <1>2, <1>3 DEF ParamAt
<1> QED
  BY <1>4, <1>5 DEF ParamAgrees

\* Values of a component of the request or its target that are equal are of
\* requests and targets that agree there.
LEMMA DerivedAgree ==
    ASSUME NEW a, NEW b, NEW t, NEW u, NEW c, c.name \in DerivedNames,
           ListOf(a.req.query), ListOf(b.req.query),
           HasValue(a, FieldTypes, c), HasValue(b, FieldTypes, c),
           ComponentValue(a, t, FieldTypes, c) = ComponentValue(b, u, FieldTypes, c)
    PROVE  Agree(c, a, t, b, u)
<1>0. \A x, y : <<x>> = <<y>> => x = y
  OBVIOUS
<1>1. CASE c.name = "@method"
  <2>1. ComponentValue(a, t, FieldTypes, c) = <<IF a.req.method = "" THEN "GET" ELSE a.req.method>>
        /\ ComponentValue(b, u, FieldTypes, c) = <<IF b.req.method = "" THEN "GET" ELSE b.req.method>>
    BY <1>1 DEF ComponentValue
  <2>2. <<IF a.req.method = "" THEN "GET" ELSE a.req.method>> = <<IF b.req.method = "" THEN "GET" ELSE b.req.method>>
    BY <2>1
  <2>3. (IF a.req.method = "" THEN "GET" ELSE a.req.method) = (IF b.req.method = "" THEN "GET" ELSE b.req.method)
    BY ONLY <2>2
  <2> QED
    BY <1>1, <2>3 DEF Agree, DerivedNames
<1>2. CASE c.name = "@path"
  <2>1. <<Path(a.req)>> = <<Path(b.req)>>
    BY <1>2 DEF ComponentValue
  <2>2. Path(a.req) = Path(b.req)
    BY ONLY <2>1
  <2> QED
    BY <1>2, <2>2 DEF Agree, DerivedNames
<1>3. CASE c.name = "@target-uri"
  <2>1. <<t, Path(a.req), a.req.query>> = <<u, Path(b.req), b.req.query>>
    BY <1>3 DEF ComponentValue
  <2>2. t = u /\ Path(a.req) = Path(b.req) /\ a.req.query = b.req.query
    BY ONLY <2>1
  <2> QED
    BY <1>3, <2>2 DEF Agree, DerivedNames
<1>4. CASE c.name = "@request-target"
  <2>1. <<RequestTarget(a.req)>> = <<RequestTarget(b.req)>>
    BY <1>4 DEF ComponentValue
  <2>2. RequestTarget(a.req) = RequestTarget(b.req)
    BY ONLY <2>1
  <2> QED
    BY <1>4, <2>2 DEF Agree, DerivedNames
<1>5. CASE c.name = "@query"
  <2>1. <<a.req.query>> = <<b.req.query>>
    BY <1>5 DEF ComponentValue
  <2>2. a.req.query = b.req.query
    BY ONLY <2>1
  <2> QED
    BY <1>5, <2>2 DEF Agree, DerivedNames
<1>6. CASE c.name = "@authority"
  <2>1. <<t.authority>> = <<u.authority>>
    BY <1>6 DEF ComponentValue
  <2>2. t.authority = u.authority
    BY ONLY <2>1
  <2> QED
    BY <1>6, <2>2 DEF Agree, DerivedNames
<1>7. CASE c.name = "@scheme"
  <2>1. <<t.scheme>> = <<u.scheme>>
    BY <1>7 DEF ComponentValue
  <2>2. t.scheme = u.scheme
    BY ONLY <2>1
  <2> QED
    BY <1>7, <2>2 DEF Agree, DerivedNames
<1>8. CASE c.name = "@query-param"
  <2> DEFINE v == a.req.query[CHOOSE i \in ParamAt(a.req.query, c.param) : TRUE].val
             w == b.req.query[CHOOSE i \in ParamAt(b.req.query, c.param) : TRUE].val
  <2>1. <<v>> = <<w>>
    BY <1>8 DEF ComponentValue
  <2> HIDE DEF v, w
  <2>2. v = w
    BY ONLY <2>1
  <2>3. HasParam(a.req.query, c.param) /\ HasParam(b.req.query, c.param)
    BY <1>8 DEF HasValue
  <2>4. ParamAgrees(c.param, a.req.query, b.req.query)
    BY <2>2, <2>3, ParamsAgree DEF v, w
  <2> QED
    BY <1>8, <2>4 DEF Agree, DerivedNames
<1> QED
  BY <1>1, <1>2, <1>3, <1>4, <1>5, <1>6, <1>7, <1>8 DEF DerivedNames

\* Component values that are equal are of messages and targets that agree.
LEMMA ValuesAgree ==
    ASSUME NEW made, NEW more, setting \in Settings,
           NEW a, IsMessage(a, setting, made), NEW b, IsMessage(b, setting, more),
           NEW t, NEW u, NEW c, Valid(c),
           HasValue(a, FieldTypes, c), HasValue(b, FieldTypes, c),
           ComponentValue(a, t, FieldTypes, c) = ComponentValue(b, u, FieldTypes, c)
    PROVE  Agree(c, a, t, b, u)
<1>1. CASE c.name \in DerivedNames
  BY <1>1, DerivedAgree DEF IsMessage
<1>2. CASE c.name = "signature-input"
  <2>1. HeaderReadable(a.inputs, FieldTypes, c) /\ HeaderReadable(b.inputs, FieldTypes, c)
        /\ HeaderValue(a.inputs, c) = HeaderValue(b.inputs, c)
    BY <1>2 DEF HasValue, ComponentValue, DerivedNames
  <2>2. MembersAgree(c, a.inputs, b.inputs)
    BY <1>2, <2>1, HeadersAgree DEF DerivedNames
  <2> QED
    BY <1>2, <2>2 DEF Agree, DerivedNames
<1>3. CASE c.name = "signature"
  <2>1. HeaderReadable(a.sigs, FieldTypes, c) /\ HeaderReadable(b.sigs, FieldTypes, c)
        /\ HeaderValue(a.sigs, c) = HeaderValue(b.sigs, c)
    BY <1>3 DEF HasValue, ComponentValue, DerivedNames
  <2>2. MembersAgree(c, a.sigs, b.sigs)
    BY <1>3, <2>1, HeadersAgree DEF DerivedNames
  <2> QED
    BY <1>3, <2>2 DEF Agree, DerivedNames
<1>4. CASE c.name \notin DerivedNames \union {"signature", "signature-input"}
  <2> DEFINE x == FieldLines(a, c.name)  y == FieldLines(b, c.name)
  <2>1. /\ ComponentValue(a, t, FieldTypes, c) = FieldValue(x, FieldTypes, c)
        /\ ComponentValue(b, u, FieldTypes, c) = FieldValue(y, FieldTypes, c)
    BY <1>4 DEF ComponentValue, DerivedNames
  <2>2. Readable(x, FieldTypes, c) /\ Readable(y, FieldTypes, c)
    BY <1>4 DEF HasValue, DerivedNames
  <2>3. /\ \E S : FlattenSeq(x) \in Seq(S)
        /\ \E S : FlattenSeq(y) \in Seq(S)
    BY LinesJoin
  <2> HIDE DEF x, y
  <2>4. ReadsSame(c, x, y)
    <3>1. PICK S, T : FlattenSeq(x) \in Seq(S) /\ FlattenSeq(y) \in Seq(T)
      BY <2>3
    <3>2. FieldValue(x, FieldTypes, c) = FieldValue(y, FieldTypes, c)
      BY <2>1
    <3> QED
      BY <1>4, <2>2, <3>1, <3>2, FieldsAgree
  <2>5. LinesAgree(c, x, y)
    BY <2>4 DEF ReadsSame, LinesAgree
  <2> QED
    BY <1>4, <2>5 DEF Agree, DerivedNames, x, y
<1> QED
  BY <1>1, <1>2, <1>3, <1>4

\* What the window of a policy lets pass, sums that wrap included: those are
\* below the true ones.
LEMMA WindowIsOpen ==
    ASSUME NEW s, NEW p \in Policies, NEW time \in Nat, NEW key,
           s.params.created \in Int \union {Absent}, s.params.expires \in Int \union {Absent},
           Accepts(s, key, p, time)
    PROVE  WindowOpen(s.params, p, time)
<1> DEFINE created == s.params.created
           expires == s.params.expires
<1>1. p.maxAge \in Int /\ p.tolerance \in Int /\ Second \in Nat \ {0} /\ MaxInt \in Nat
      /\ ZeroTime \in Int /\ Second * ZeroTime <= p.tolerance
  BY PolicyAssumption, SecondAssumption, MaxIntAssumption, TimesAssumption
<1>2. Plus(p.maxAge, p.tolerance) \in Int /\ Plus(p.maxAge, p.tolerance) <= p.maxAge + p.tolerance
  BY <1>1 DEF Plus
<1>3. ~FromFuture(s, p, time) /\ ~TooOld(s, p, time) /\ ~Expired(s, p, time)
  BY DEF Accepts
<1>4. ASSUME p.maxAge > 0
      PROVE  created # Absent /\ time <= Second * created + p.maxAge + p.tolerance
  <2>1. /\ TimeOf(created) # ZeroTime
        /\ ~(time > Second * TimeOf(created) + Plus(p.maxAge, p.tolerance))
    BY <1>3, <1>4 DEF TooOld
  <2>2. created # Absent /\ TimeOf(created) = created /\ created \in Int
    BY <2>1 DEF TimeOf
  <2>3. Second * created \in Int
    BY <1>1, <2>2
  <2>4. time <= Second * created + Plus(p.maxAge, p.tolerance)
    BY <1>2, <2>1, <2>2, <2>3
  <2> QED
    BY <1>1, <1>2, <2>2, <2>3, <2>4
<1>5. ASSUME created # Absent
      PROVE  Second * created <= time + p.tolerance
  <2>1. created \in Int /\ TimeOf(created) = created
    BY <1>5 DEF TimeOf
  <2>2. Second * created \in Int
    BY <1>1, <2>1
  <2>3. CASE created # ZeroTime
    <3>1. ~(Second * created > time + p.tolerance)
      BY <1>3, <2>1, <2>3 DEF FromFuture
    <3> QED
      BY <1>1, <2>2, <3>1
  <2>4. CASE created = ZeroTime
    BY <1>1, <2>2, <2>4
  <2> QED
    BY <2>3, <2>4
<1>6. ASSUME expires \notin {Absent, ZeroTime}
      PROVE  time <= Second * expires + p.tolerance
  <2>1. expires \in Int /\ TimeOf(expires) = expires /\ expires # ZeroTime
    BY <1>6 DEF TimeOf
  <2>2. Second * expires \in Int
    BY <1>1, <2>1
  <2>3. ~(time > Second * expires + p.tolerance)
    BY <1>3, <2>1 DEF Expired
  <2> QED
    BY <1>1, <2>2, <2>3
<1> QED
  BY <1>4, <1>5, <1>6 DEF WindowOpen

\* An accepted signature is a statement of its signer about what is read.
THEOREM AcceptedAreStatements == Spec => []AcceptedIsStatement
<1>1. Inv => AcceptedIsStatement
  <2> SUFFICES ASSUME Inv, parsed # NotParsed, NEW l \in DOMAIN parsed, NEW k \in Keys, NEW p \in Policies,
                      Accepts(parsed[l], k, p, now)
               PROVE  \E h \in signed :
                        /\ h.key = k
                        /\ h.input.items = parsed[l].items /\ h.input.params = parsed[l].params
                        /\ \A i \in DOMAIN h.input.items :
                              Agree(h.input.items[i].c, h.msg, h.target, asParsed, TargetHere(asParsed))
                        /\ p.required \subseteq {h.input.items[i].c : i \in DOMAIN h.input.items}
                        /\ WindowOpen(h.input.params, p, now)
    BY DEF AcceptedIsStatement
  <2> DEFINE s == parsed[l]
             target == TargetThere(asParsed.req)
             input == Get(asParsed.inputs, l)
  <2>1. /\ parsed = ParseSignatures(asParsed, target, FieldTypes)
        /\ IsMessage(asParsed, setting, Made)
        /\ setting \in Settings /\ now \in Nat /\ target = TargetHere(asParsed)
    BY DEF Inv, TargetHere, TargetThere
  <2>2. s.ok /\ Covers(s, p.required) /\ s.sig = KeySign(k, s.base)
    BY DEF Accepts, KeyVerify
  <2>3. /\ l \in Labels(asParsed.inputs) /\ input # Malformed
        /\ l \in Labels(asParsed.sigs) /\ s.sig = Get(asParsed.sigs, l) /\ s.sig # Malformed
        /\ s.items = input.items /\ s.params = input.params
        /\ s.base = SignatureBase(asParsed, target, FieldTypes, input)
        /\ HasBase(asParsed, FieldTypes, s.items)
        /\ \A i \in DOMAIN s.items : ParsesAsComponent(s.items[i])
        /\ \A x \in DOMAIN s.params : s.params[x] # IllTyped
    BY <2>1, <2>2, ParsedSound
  <2> HIDE DEF target, input, s
  <2>4. PICK h \in signed : s.sig = h.sig
    <3>1. l \in SignLabels /\ asParsed.sigs.occ[l] # <<>> /\ ListOf(asParsed.sigs.occ[l])
      BY <2>1, <2>3 DEF Labels, IsMessage, IsHeader
    <3>2. Len(asParsed.sigs.occ[l]) \in DOMAIN asParsed.sigs.occ[l]
      BY <3>1 DEF ListOf
    <3>3. s.sig \in Made \union {Malformed}
      BY <2>1, <2>3, <3>1, <3>2 DEF IsMessage, Get, Last
    <3> QED
      BY <2>3, <3>3 DEF Made
  <2>5. IsInput(input)
    <3>1. l \in SignLabels /\ asParsed.inputs.occ[l] # <<>> /\ ListOf(asParsed.inputs.occ[l])
      BY <2>1, <2>3 DEF Labels, IsMessage, IsHeader
    <3>2. Len(asParsed.inputs.occ[l]) \in DOMAIN asParsed.inputs.occ[l]
      BY <3>1 DEF ListOf
    <3> QED
      BY <2>1, <2>3, <3>1, <3>2 DEF IsMessage, Get, Last, input
  <2>6. Statement(h, setting, Made)
    BY DEF Inv
  <2>7. h.key = k /\ SignatureBase(h.msg, h.target, FieldTypes, h.input) = s.base
    <3>1. KeySign(h.key, SignatureBase(h.msg, h.target, FieldTypes, h.input)) = KeySign(k, s.base)
      BY <2>2, <2>4, <2>6 DEF Statement
    <3> QED
      BY <3>1 DEF KeySign
  <2>8. SignatureBase(h.msg, h.target, FieldTypes, h.input) = SignatureBase(asParsed, target, FieldTypes, input)
        /\ ListOf(h.input.items) /\ ListOf(input.items)
    BY <2>3, <2>5, <2>6, <2>7 DEF Statement, IsInput
  <2>9. /\ h.input.items = input.items /\ h.input.params = input.params
        /\ \A i \in DOMAIN h.input.items :
              ComponentValue(h.msg, h.target, FieldTypes, h.input.items[i].c)
                = ComponentValue(asParsed, target, FieldTypes, input.items[i].c)
    BY <2>8, BaseDetermines
  <2>10. ASSUME NEW i \in DOMAIN h.input.items
         PROVE  Agree(h.input.items[i].c, h.msg, h.target, asParsed, target)
    <3> DEFINE c == h.input.items[i].c
    <3>1. Valid(c) /\ HasValue(asParsed, FieldTypes, c)
      BY <2>3, <2>9 DEF ParsesAsComponent, HasBase
    <3>2. HasValue(h.msg, FieldTypes, c) /\ IsMessage(h.msg, setting, Made)
      BY <2>6 DEF Statement, HasBase
    <3>3. ComponentValue(h.msg, h.target, FieldTypes, c) = ComponentValue(asParsed, target, FieldTypes, c)
      BY <2>9
    <3> HIDE DEF c
    <3>4. Agree(c, h.msg, h.target, asParsed, target)
      BY <2>1, <3>1, <3>2, <3>3, ValuesAgree
    <3> QED
      BY <3>4 DEF c
  <2>11. p.required \subseteq {h.input.items[i].c : i \in DOMAIN h.input.items}
    BY <2>2, <2>3, <2>9 DEF Covers
  <2>12. s.params.created \in Int \union {Absent} /\ s.params.expires \in Int \union {Absent}
    BY <2>3, <2>5 DEF IsInput
  <2>13. WindowOpen(s.params, p, now)
    BY <2>1, <2>12, WindowIsOpen DEF s
  <2> QED
    BY <2>1, <2>3, <2>7, <2>9, <2>10, <2>11, <2>13 DEF s
<1> QED
  BY <1>1, Invariance, PTL

-----------------------------------------------------------------------------
(* What leaves a signature standing *)

\* A step leaves what counts under a label that it does not write over.
LEMMA Undisturbed ==
    ASSUME Inv, [Next]_vars, NEW l \in SignLabels, ~Overwritten(l)
    PROVE  /\ l \in Labels(msg.inputs) => l \in Labels(msg'.inputs) /\ Get(msg'.inputs, l) = Get(msg.inputs, l)
           /\ l \in Labels(msg.sigs) => l \in Labels(msg'.sigs) /\ Get(msg'.sigs, l) = Get(msg.sigs, l)
<1>1. /\ IsMessage(msg, setting, Made) /\ IsHeader(msg.inputs) /\ IsHeader(msg.sigs)
      /\ setting.labels \subseteq SignLabels
  BY SettingsAssumption DEF Inv, IsMessage
<1>2. Inv'
  BY NextInv
<1>3. DOMAIN msg'.inputs.occ = SignLabels /\ DOMAIN msg'.sigs.occ = SignLabels
  BY <1>2 DEF Inv, IsMessage, IsHeader
<1>4. CASE msg'.inputs.occ[l] = msg.inputs.occ[l] /\ msg'.sigs.occ[l] = msg.sigs.occ[l]
  BY <1>1, <1>3, <1>4 DEF Labels, Get, IsHeader
<1>5. CASE edits' # edits
  BY <1>4, <1>5 DEF Overwritten
<1>6. ASSUME NEW k \in Keys, NEW m \in setting.labels, NEW cs \in setting.lists, NEW ttl, Sign(k, m, cs, ttl)
      PROVE  /\ l \in Labels(msg.inputs) => l \in Labels(msg'.inputs) /\ Get(msg'.inputs, l) = Get(msg.inputs, l)
             /\ l \in Labels(msg.sigs) => l \in Labels(msg'.sigs) /\ Get(msg'.sigs, l) = Get(msg.sigs, l)
  <2>1. PICK input, sig : /\ CanSign(msg, FieldTypes, input, m)
                          /\ msg' = AddSignature(msg, m, input, sig)
    BY <1>6 DEF Sign
  <2>2. m \notin Labels(msg.inputs) /\ m \notin Labels(msg.sigs) /\ m \in SignLabels
    BY <1>1, <2>1 DEF CanSign
  <2>3. msg'.inputs = Merge(msg.inputs, m, input) /\ msg'.sigs = Merge(msg.sigs, m, sig)
    BY <1>1, <2>1 DEF AddSignature, IsMessage
  <2>4. l # m => /\ l \in Labels(msg.inputs) => l \in Labels(msg'.inputs) /\ Get(msg'.inputs, l) = Get(msg.inputs, l)
                 /\ l \in Labels(msg.sigs) => l \in Labels(msg'.sigs) /\ Get(msg'.sigs, l) = Get(msg.sigs, l)
    BY <1>1, <2>2, <2>3, MergeKeeps DEF IsHeader
  <2> QED
    BY <2>2, <2>4
<1>7. ASSUME NEW k \in Keys, NEW m \in setting.labels, NEW input \in setting.peers, PeerSign(k, m, input)
      PROVE  /\ l \in Labels(msg.inputs) => l \in Labels(msg'.inputs) /\ Get(msg'.inputs, l) = Get(msg.inputs, l)
             /\ l \in Labels(msg.sigs) => l \in Labels(msg'.sigs) /\ Get(msg'.sigs, l) = Get(msg.sigs, l)
  <2>1. PICK sig : msg'.inputs = Append1(msg.inputs, m, input) /\ msg'.sigs = Append1(msg.sigs, m, sig)
    BY <1>1, <1>7 DEF PeerSign, IsMessage
  <2>2. CASE l # m
    <3>1. msg'.inputs.occ[l] = msg.inputs.occ[l] /\ msg'.sigs.occ[l] = msg.sigs.occ[l]
      BY <1>1, <2>1, <2>2, Grows
    <3> QED
      BY <1>4, <3>1
  <2>3. CASE l = m
    <3>1. Len(msg'.inputs.occ[l]) = Len(msg.inputs.occ[l]) + 1
      BY <1>1, <2>1, <2>3, Grows
    <3>2. Len(msg'.sigs.occ[l]) = Len(msg.sigs.occ[l]) + 1
      BY <1>1, <2>1, <2>3, Grows
    <3>3. Len(msg.inputs.occ[l]) \in Nat /\ Len(msg.sigs.occ[l]) \in Nat
      BY <1>1 DEF IsHeader, ListOf
    <3>4. /\ Len(msg'.inputs.occ[l]) > Len(msg.inputs.occ[l])
          /\ Len(msg'.sigs.occ[l]) > Len(msg.sigs.occ[l])
      <4>1. \A x, y : y \in Nat /\ x = y + 1 => x > y
        OBVIOUS
      <4> QED
        BY ONLY <3>1, <3>2, <3>3, <4>1
    <3>5. msg.inputs.occ[l] = <<>> /\ msg.sigs.occ[l] = <<>>
      BY <3>4 DEF Overwritten
    <3> QED
      BY <3>5 DEF Labels
  <2> QED
    BY <2>2, <2>3
<1>8. CASE UNCHANGED vars \/ (\E ended \in setting.ends, absolute \in BOOLEAN : Deliver(ended, absolute))
           \/ Parse \/ Tick
  <2>1. msg'.inputs = msg.inputs /\ msg'.sigs = msg.sigs
    BY <1>1, <1>8 DEF vars, Deliver, Parse, Tick, IsMessage
  <2> QED
    BY <1>4, <2>1
<1>9. CASE \E m : Edit(m)
  <2>1. edits' # edits
    BY <1>9 DEF Edit, Inv
  <2> QED
    BY <1>5, <2>1
<1> QED
  BY <1>6, <1>7, <1>8, <1>9
     DEF Next, EditField, EditRequest, AppendInput, AppendSig, DropInput, DropSig, BreakInputs

\* No step changes the setting.
LEMMA SettingStays == [Next]_vars => setting' = setting
BY DEF Next, vars, Sign, PeerSign, Edit, EditField, EditRequest, AppendInput, AppendSig, DropInput,
       DropSig, BreakInputs, Deliver, Parse, Tick

\* A member that is covered and not written over carries.
LEMMA CoveredCarries ==
    ASSUME Inv, [Next]_vars, NEW c, HasValue(msg, FieldTypes, c),
           c.name \in {"signature", "signature-input"}, c.key # "",
           msg'.inputs.ok, msg'.sigs.ok,
           \A m \in SignLabels : c.key = m => ~Overwritten(m)
    PROVE  /\ c.name = "signature-input" => MemberCarries(msg.inputs, msg'.inputs, c.key)
           /\ c.name = "signature" => MemberCarries(msg.sigs, msg'.sigs, c.key)
<1>1. /\ c.name = "signature-input" => HeaderReadable(msg.inputs, FieldTypes, c)
      /\ c.name = "signature" => HeaderReadable(msg.sigs, FieldTypes, c)
  BY DEF HasValue, DerivedNames
<1>2. c.key \in SignLabels
  BY <1>1 DEF HeaderReadable, Labels, Inv, IsMessage, IsHeader
<1>3. ~Overwritten(c.key)
  BY <1>2
<1> QED
  BY <1>2, <1>3, Undisturbed DEF MemberCarries

\* A step that leaves the request, and the members it covers, leaves a
\* standing signature standing.
LEMMA StillStands ==
    ASSUME Inv, [Next]_vars, NEW l \in SignLabels, NEW k \in Keys, Stands(l, k),
           msg'.req = msg.req, msg'.fields = msg.fields,
           msg'.inputs.ok, msg'.sigs.ok, side' = side,
           ~Overwritten(l), ~CoversHeader(Get(msg.inputs, l)),
           \A m \in SignLabels : CoversMember(Get(msg.inputs, l), m) => ~Overwritten(m)
    PROVE  Stands(l, k)'
<1> DEFINE input == Get(msg.inputs, l)
           target == TargetHere(msg)
<1>1. PICK n : n = msg'
  OBVIOUS
<1>2. WellFormed(msg, FieldTypes, l) /\ KeyVerify(k, SignatureBase(msg, target, FieldTypes, input), Get(msg.sigs, l))
  BY DEF Stands
<1>3. HasBase(msg, FieldTypes, input.items)
  BY <1>2 DEF WellFormed
<1>4. /\ l \in Labels(n.inputs) /\ Get(n.inputs, l) = input
      /\ l \in Labels(n.sigs) /\ Get(n.sigs, l) = Get(msg.sigs, l)
  BY <1>1, <1>2, Undisturbed DEF WellFormed
<1>5. TargetHere(msg)' = target
  BY SettingStays DEF TargetHere
<1>6. ASSUME NEW i \in DOMAIN input.items
      PROVE  Carries(msg, n, input.items[i].c)
  <2> DEFINE c == input.items[i].c
  <2>1. HasValue(msg, FieldTypes, c)
    BY <1>3 DEF HasBase
  <2>2. c.name \in {"signature", "signature-input"} =>
          c.key # "" /\ \A m \in SignLabels : c.key = m => ~Overwritten(m)
    BY DEF CoversHeader, CoversMember
  <2> HIDE DEF c
  <2>3. /\ c.name = "signature-input" => MemberCarries(msg.inputs, n.inputs, c.key)
        /\ c.name = "signature" => MemberCarries(msg.sigs, n.sigs, c.key)
    <3>1. CASE c.name \in {"signature", "signature-input"}
      BY <1>1, <2>1, <2>2, <3>1, CoveredCarries
    <3> QED
      BY <3>1
  <2>4. ReadsAs(msg.req, n.req)
    BY <1>1, ReadsAsItself
  <2>5. Carries(msg, n, c)
    BY <1>1, <2>3, <2>4 DEF Carries, FieldCarries
  <2> QED
    BY <2>5 DEF c
<1> HIDE DEF input, target
<1>7. /\ HasBase(n, FieldTypes, input.items)
      /\ SignatureBase(n, target, FieldTypes, input) = SignatureBase(msg, target, FieldTypes, input)
  BY <1>3, <1>6, BaseCarries DEF TargetCarries
<1>8. WellFormed(n, FieldTypes, l)
  BY <1>2, <1>4, <1>7 DEF WellFormed, input
<1>9. KeyVerify(k, SignatureBase(n, target, FieldTypes, Get(n.inputs, l)), Get(n.sigs, l))
  BY <1>2, <1>4, <1>7
<1> QED
  BY <1>1, <1>5, <1>8, <1>9 DEF Stands

\* Nothing done under other labels brings a standing signature down.
THEOREM SignaturesStandApart == Spec => OthersStand
<1>1. Inv /\ [Next]_vars =>
        [\A l \in SignLabels, k \in Keys :
           (/\ Stands(l, k) /\ ~Stands(l, k)'
            /\ msg'.req = msg.req /\ msg'.fields = msg.fields
            /\ msg'.inputs.ok /\ msg'.sigs.ok /\ side' = side)
           => \/ Overwritten(l)
              \/ CoversHeader(Get(msg.inputs, l))
              \/ \E m \in SignLabels : CoversMember(Get(msg.inputs, l), m) /\ Overwritten(m)]_vars
  BY StillStands
<1> QED
  BY <1>1, Invariance, PTL DEF Spec, OthersStand
-----------------------------------------------------------------------------
(* The honest journey *)

\* The labels somebody signed under while they were in use.
ReusedAmong(hs) == {m \in SignLabels : \E g \in hs : g.label = m /\ m \in Labels(g.msg.inputs)}
\* The request line of q reads as that of p, or is a server's that does not
\* read as the client's did: in absolute form, or with a bare "?".
SameLine(p, q) ==
    RequestTarget(q) = RequestTarget(p) \/ (q.uri # <<>> /\ (q.urlScheme # "" \/ BareQuery(q)))
\* What message n keeps of m: the request, the fields and every member but
\* those signed under again.
Since(m, n, reused) ==
    /\ ReadsAs(m.req, n.req) /\ SameLine(m.req, n.req) /\ n.fields = m.fields
    /\ Labels(m.inputs) = Labels(m.sigs)
    /\ \A l \in Labels(m.inputs) \ reused :
          /\ l \in Labels(n.inputs) /\ Get(n.inputs, l) = Get(m.inputs, l)
          /\ l \in Labels(n.sigs) /\ Get(n.sigs, l) = Get(m.sigs, l)
TargetOf(q, s, at) == IF at = "client" THEN Target(q, "", NoHost) ELSE Target(q, s.scheme, s.authority)
\* Message m, on side at, with the signatures hs made, if nobody edited it.
Unedited(m, s, at, hs) ==
    /\ m.inputs.ok /\ m.sigs.ok /\ Labels(m.inputs) = Labels(m.sigs)
    /\ at = "client" => m.req \in s.requests
    /\ \A h \in hs : h.target = TargetOf(m.req, s, at) /\ Since(h.msg, m, ReusedAmong(hs))
Quiet == edits = 0 => Unedited(msg, setting, side, signed)

\* Request r, as it comes out of the network.
Arrived(r, ended, absolute) ==
    IF absolute THEN InboundAbsolute(r) ELSE Inbound(r, r.urlScheme = "https" /\ ~ended)

\* The verifier derives the target that the client derived.
LEMMA SameTarget ==
    ASSUME NEW s \in Settings, NEW r \in s.requests, NEW ended \in s.ends, NEW absolute \in BOOLEAN
    PROVE  Target(Arrived(r, ended, absolute), s.scheme, s.authority) = Target(r, "", NoHost)
<1> DEFINE q == Arrived(r, ended, absolute)
<1>1. /\ DOMAIN r = RequestFields
      /\ r.urlScheme \in {"http", "https"} /\ r.urlHost # NoHost
      /\ r.host \in {NoHost, r.urlHost}
  BY SettingsAssumption DEF IsRequest, RequestFields
<1>2. /\ ~absolute => /\ q.urlScheme = "" /\ q.urlHost = NoHost /\ q.host = r.urlHost
                      /\ q.tls = (r.urlScheme = "https" /\ ~ended)
      /\ absolute => q.urlScheme = r.urlScheme /\ q.urlHost = r.urlHost
  <2>1. \A tls : LET o == Inbound(r, tls)
                 IN  /\ o.urlScheme = "" /\ o.urlHost = NoHost /\ o.host = r.urlHost /\ o.tls = tls
                     /\ DOMAIN o = DOMAIN r
    BY <1>1 DEF Inbound, RequestFields
  <2>2. InboundAbsolute(r).urlScheme = r.urlScheme /\ InboundAbsolute(r).urlHost = r.urlHost
    <3> DEFINE o == Inbound(r, FALSE)
    <3>1. o.host = r.urlHost /\ DOMAIN o = DOMAIN r
      BY <2>1
    <3> HIDE DEF o
    <3>2. InboundAbsolute(r) = [o EXCEPT !.urlScheme = r.urlScheme, !.urlHost = o.host,
                                         !.uri = <<r.urlScheme, o.host>> \o @]
      BY DEF InboundAbsolute, o
    <3> QED
      BY <1>1, <3>1, <3>2 DEF RequestFields
  <2> QED
    BY <2>1, <2>2 DEF Arrived
<1>3. ToLower(r.urlScheme) = r.urlScheme /\ r.urlScheme # ""
  BY <1>1, LowerCaseAssumption DEF ToLower
<1>4. Target(r, "", NoHost) = [scheme |-> r.urlScheme, authority |-> NormalAuthority(r.urlHost, r.urlScheme)]
  BY <1>1, <1>3 DEF Target
<1> HIDE DEF q
<1>5. ToLower(CASE s.scheme # "" -> s.scheme
                [] s.scheme = "" /\ q.urlScheme # "" -> q.urlScheme
                [] OTHER -> IF q.tls THEN "https" ELSE "http") = r.urlScheme
  <2>1. CASE s.scheme # ""
    BY <1>3, <2>1, ToldAssumption
  <2>2. CASE s.scheme = "" /\ ~absolute
    <3>1. ended = FALSE
      BY <2>2, SettingsAssumption, ToldAssumption
    <3>2. (IF q.tls THEN "https" ELSE "http") = r.urlScheme
      BY <1>1, <1>2, <2>2, <3>1
    <3> QED
      BY <1>2, <1>3, <2>2, <3>2
  <2>3. CASE s.scheme = "" /\ absolute
    BY <1>2, <1>3, <2>3
  <2> QED
    BY <2>1, <2>2, <2>3
<1>6. NormalAuthority(CASE s.authority # NoHost -> s.authority
                        [] s.authority = NoHost /\ q.urlHost # NoHost -> q.urlHost
                        [] OTHER -> q.host, r.urlScheme) = NormalAuthority(r.urlHost, r.urlScheme)
  <2>1. CASE s.authority # NoHost
    BY <2>1, ToldAssumption
  <2>2. CASE s.authority = NoHost /\ absolute
    <3>1. q.urlHost = r.urlHost /\ q.urlHost # NoHost
      BY <1>1, <1>2, <2>2
    <3> QED
      BY <2>2, <3>1
  <2>3. CASE s.authority = NoHost /\ ~absolute
    <3>1. q.urlHost = NoHost /\ q.host = r.urlHost
      BY <1>2, <2>3
    <3> QED
      BY <2>3, <3>1
  <2> QED
    BY <2>1, <2>2, <2>3
<1>7. Target(q, s.scheme, s.authority)
        = [scheme |-> r.urlScheme, authority |-> NormalAuthority(r.urlHost, r.urlScheme)]
  BY <1>5, <1>6 DEF Target
<1> QED
  BY <1>4, <1>7 DEF q

\* Without signatures, nothing is there to disturb.
LEMMA QuietAtFirst == Init => Quiet
<1> SUFFICES ASSUME Init
             PROVE  Quiet
  OBVIOUS
<1>1. PICK r \in setting.requests, f \in Contents :
          msg = [req |-> r, fields |-> f, inputs |-> EmptyHeader, sigs |-> EmptyHeader]
  BY DEF Init
<1>2. msg.req = r /\ msg.inputs = EmptyHeader /\ msg.sigs = EmptyHeader /\ EmptyHeader.ok
  BY <1>1 DEF EmptyHeader
<1> QED
  BY <1>2 DEF Quiet, Unedited, Init

\* A signature added to a message, under a label that was free or is now
\* known as reused, disturbs nothing else.
LEMMA AddedUnedited ==
    ASSUME NEW m, NEW s, NEW at, NEW hs, Unedited(m, s, at, hs),
           NEW h, h.msg = m, h.target = TargetOf(m.req, s, at), h.label \in SignLabels,
           NEW n, n.req = m.req, n.fields = m.fields, n.inputs.ok, n.sigs.ok,
           Labels(n.inputs) = Labels(n.sigs), Labels(m.inputs) \subseteq SignLabels,
           \A l \in Labels(m.inputs) : l # h.label =>
              /\ l \in Labels(n.inputs) /\ Get(n.inputs, l) = Get(m.inputs, l)
              /\ l \in Labels(n.sigs) /\ Get(n.sigs, l) = Get(m.sigs, l)
    PROVE  Unedited(n, s, at, hs \union {h})
<1> DEFINE more == hs \union {h}
<1>1. ReusedAmong(hs) \subseteq ReusedAmong(more)
  BY DEF ReusedAmong
<1>2. h.label \in Labels(m.inputs) => h.label \in ReusedAmong(more)
  BY DEF ReusedAmong
<1> HIDE DEF more
<1>3. ASSUME NEW l \in Labels(m.inputs) \ ReusedAmong(more)
      PROVE  /\ l \in Labels(n.inputs) /\ Get(n.inputs, l) = Get(m.inputs, l)
             /\ l \in Labels(n.sigs) /\ Get(n.sigs, l) = Get(m.sigs, l)
  BY <1>2
<1>4. Since(m, n, ReusedAmong(more))
  BY <1>3, ReadsAsItself DEF Since, SameLine, Unedited
<1>5. ASSUME NEW g \in hs
      PROVE  Since(g.msg, n, ReusedAmong(more))
  <2>1. Since(g.msg, m, ReusedAmong(hs))
    BY DEF Unedited
  <2> QED
    BY <1>1, <1>3, <2>1 DEF Since
<1>6. \A g \in more : g.target = TargetOf(n.req, s, at) /\ Since(g.msg, n, ReusedAmong(more))
  BY <1>4, <1>5 DEF Unedited, more
<1> QED
  BY <1>6 DEF Unedited, more
\* Signing an unedited message keeps it so.
LEMMA SignQuiet ==
    ASSUME Inv, Quiet, NEW key \in Keys, NEW label \in setting.labels, NEW comps \in setting.lists,
           NEW ttl, Sign(key, label, comps, ttl)
    PROVE  Quiet'
<1>1. PICK input, sig, h :
          /\ CanSign(msg, FieldTypes, input, label)
          /\ msg' = AddSignature(msg, label, input, sig)
          /\ h.msg = msg /\ h.target = TargetHere(msg) /\ h.label = label
          /\ signed' = signed \union {h}
          /\ side' = side /\ setting' = setting /\ edits' = edits
  <2> DEFINE i == [items |-> Covered(comps),
                   params |-> [created |-> Created(now), expires |-> Expires(now, ttl),
                               alg |-> AlgorithmOf[key]]]
             s == KeySign(key, SignatureBase(msg, TargetHere(msg), FieldTypes, i))
             g == [key |-> key, label |-> label, input |-> i, msg |-> msg,
                   target |-> TargetHere(msg), sig |-> s]
  <2>1. /\ CanSign(msg, FieldTypes, i, label) /\ msg' = AddSignature(msg, label, i, s)
        /\ signed' = signed \union {g}
        /\ side' = side /\ setting' = setting /\ edits' = edits
    BY DEF Sign, Record
  <2>2. g.msg = msg /\ g.target = TargetHere(msg) /\ g.label = label
    OBVIOUS
  <2> HIDE DEF i, s, g
  <2> QED
    BY <2>1, <2>2
<1>2. PICK n : n = msg'
  OBVIOUS
<1>3. /\ IsMessage(msg, setting, Made) /\ IsHeader(msg.inputs) /\ IsHeader(msg.sigs) /\ label \in SignLabels
  BY SettingsAssumption DEF Inv, IsMessage
<1>4. /\ n.req = msg.req /\ n.fields = msg.fields
      /\ n.inputs = Merge(msg.inputs, label, input) /\ n.sigs = Merge(msg.sigs, label, sig)
  BY <1>1, <1>2, <1>3 DEF AddSignature, IsMessage
<1>5. n.inputs.ok = msg.inputs.ok /\ n.sigs.ok = msg.sigs.ok
  BY <1>3, <1>4, Merges
<1>6. label \notin Labels(msg.inputs)
  BY <1>1 DEF CanSign
<1>7. ASSUME edits = 0
      PROVE  Unedited(n, setting, side, signed \union {h})
  <2>1. Unedited(msg, setting, side, signed)
    BY <1>7 DEF Quiet
  <2>2. Labels(msg.inputs) = Labels(msg.sigs) /\ Labels(msg.inputs) \subseteq SignLabels
    BY <1>3, <2>1 DEF Unedited, Labels, IsHeader
  <2>3. /\ label \in Labels(n.inputs) /\ label \in Labels(n.sigs)
        /\ \A l \in SignLabels \ {label} :
              /\ l \in Labels(n.inputs) <=> l \in Labels(msg.inputs)
              /\ l \in Labels(n.sigs) <=> l \in Labels(msg.sigs)
              /\ l \in Labels(msg.inputs) => Get(n.inputs, l) = Get(msg.inputs, l)
              /\ l \in Labels(msg.sigs) => Get(n.sigs, l) = Get(msg.sigs, l)
        /\ Labels(n.inputs) \subseteq SignLabels /\ Labels(n.sigs) \subseteq SignLabels
    BY <1>3, <1>4, MergeKeeps DEF IsHeader
  <2>4. Labels(n.inputs) = Labels(n.sigs)
    BY <2>2, <2>3
  <2>5. h.target = TargetOf(msg.req, setting, side)
    BY <1>1 DEF TargetHere, TargetOf
  <2>6. n.inputs.ok /\ n.sigs.ok
    BY <1>5, <2>1 DEF Unedited
  <2>7. \A l \in Labels(msg.inputs) : l # h.label =>
              /\ l \in Labels(n.inputs) /\ Get(n.inputs, l) = Get(msg.inputs, l)
              /\ l \in Labels(n.sigs) /\ Get(n.sigs, l) = Get(msg.sigs, l)
    BY <1>1, <2>2, <2>3
  <2> QED
    BY <1>1, <1>3, <1>4, <2>1, <2>2, <2>4, <2>5, <2>6, <2>7, AddedUnedited
<1> QED
  BY <1>1, <1>2, <1>7 DEF Quiet

\* So does a peer, who may sign under a label in use.
LEMMA PeerSignQuiet ==
    ASSUME Inv, Quiet, NEW key \in Keys, NEW label \in setting.labels, NEW input \in setting.peers,
           PeerSign(key, label, input)
    PROVE  Quiet'
<1>1. PICK sig, h :
          /\ msg' = [msg EXCEPT !.inputs = Append1(@, label, input), !.sigs = Append1(@, label, sig)]
          /\ h.msg = msg /\ h.target = TargetHere(msg) /\ h.label = label
          /\ signed' = signed \union {h}
          /\ side' = side /\ setting' = setting /\ edits' = edits
  <2> DEFINE s == KeySign(key, SignatureBase(msg, TargetHere(msg), FieldTypes, input))
             g == [key |-> key, label |-> label, input |-> input, msg |-> msg,
                   target |-> TargetHere(msg), sig |-> s]
  <2>1. /\ msg' = [msg EXCEPT !.inputs = Append1(@, label, input), !.sigs = Append1(@, label, s)]
        /\ signed' = signed \union {g}
        /\ side' = side /\ setting' = setting /\ edits' = edits
    BY DEF PeerSign, Record
  <2>2. g.msg = msg /\ g.target = TargetHere(msg) /\ g.label = label
    OBVIOUS
  <2> HIDE DEF s, g
  <2> QED
    BY <2>1, <2>2
<1>2. PICK n : n = msg'
  OBVIOUS
<1>3. /\ IsMessage(msg, setting, Made) /\ IsHeader(msg.inputs) /\ IsHeader(msg.sigs) /\ label \in SignLabels
  BY SettingsAssumption DEF Inv, IsMessage
<1>4. /\ n.req = msg.req /\ n.fields = msg.fields
      /\ n.inputs = Append1(msg.inputs, label, input) /\ n.sigs = Append1(msg.sigs, label, sig)
  BY <1>1, <1>2, <1>3 DEF IsMessage
<1>5. /\ IsHeader(n.inputs) /\ n.inputs.ok = msg.inputs.ok /\ n.inputs.occ[label] # <<>>
      /\ \A l \in SignLabels : l # label => n.inputs.occ[l] = msg.inputs.occ[l]
  BY <1>3, <1>4, Grows
<1>6. /\ IsHeader(n.sigs) /\ n.sigs.ok = msg.sigs.ok /\ n.sigs.occ[label] # <<>>
      /\ \A l \in SignLabels : l # label => n.sigs.occ[l] = msg.sigs.occ[l]
  BY <1>3, <1>4, Grows
<1>7. ASSUME edits = 0
      PROVE  Unedited(n, setting, side, signed \union {h})
  <2>1. Unedited(msg, setting, side, signed)
    BY <1>7 DEF Quiet
  <2>2. Labels(msg.inputs) = Labels(msg.sigs) /\ Labels(msg.inputs) \subseteq SignLabels
    BY <1>3, <2>1 DEF Unedited, Labels, IsHeader
  <2>3. /\ Labels(n.inputs) = Labels(msg.inputs) \union {label}
        /\ Labels(n.sigs) = Labels(msg.sigs) \union {label}
    BY <1>3, <1>5, <1>6 DEF Labels, IsHeader
  <2>4. h.target = TargetOf(msg.req, setting, side)
    BY <1>1 DEF TargetHere, TargetOf
  <2>5. n.inputs.ok /\ n.sigs.ok
    BY <1>5, <1>6, <2>1 DEF Unedited
  <2>6. \A l \in Labels(msg.inputs) : l # h.label =>
              /\ l \in Labels(n.inputs) /\ Get(n.inputs, l) = Get(msg.inputs, l)
              /\ l \in Labels(n.sigs) /\ Get(n.sigs, l) = Get(msg.sigs, l)
    BY <1>1, <1>5, <1>6, <2>2, <2>3 DEF Get
  <2> QED
    BY <1>1, <1>3, <1>4, <2>1, <2>2, <2>3, <2>4, <2>5, <2>6, AddedUnedited
<1> QED
  BY <1>1, <1>2, <1>7 DEF Quiet

\* Delivery changes how the request is read by nobody.
LEMMA DeliverQuiet ==
    ASSUME Inv, Quiet, NEW ended \in setting.ends, NEW absolute \in BOOLEAN, Deliver(ended, absolute)
    PROVE  Quiet'
<1> DEFINE r == msg.req
           q == Arrived(r, ended, absolute)
<1>1. PICK n : n = msg'
  OBVIOUS
<1>2. /\ n.req = q /\ n.fields = msg.fields /\ n.inputs = msg.inputs /\ n.sigs = msg.sigs
  BY <1>1 DEF Deliver, Arrived, Inv, IsMessage
<1>3. ASSUME edits = 0
      PROVE  Unedited(n, setting, "server", signed)
  <2>1. Unedited(msg, setting, "client", signed) /\ setting \in Settings /\ r \in setting.requests
    BY <1>3 DEF Quiet, Unedited, Deliver, Inv
  <2>2. RequestFields \subseteq DOMAIN r /\ r.uri = <<>> /\ r.urlScheme # ""
    BY <2>1, SettingsAssumption DEF IsRequest, RequestFields
  <2>3. ReadsAs(r, q) /\ SameLine(r, q)
    <3>1. CASE absolute
      <4>1. q = InboundAbsolute(r)
        BY <3>1 DEF Arrived
      <4>2. ReadsAs(r, q) /\ q.uri # <<>>
        BY <2>2, <4>1, AbsoluteReads
      <4>3. q.urlScheme # ""
        BY <2>2, <4>1 DEF InboundAbsolute, Inbound, RequestFields
      <4> HIDE DEF r, q
      <4> QED
        BY <4>2, <4>3 DEF SameLine
    <3>2. CASE ~absolute
      <4>1. q = Inbound(r, r.urlScheme = "https" /\ ~ended)
        BY <3>2 DEF Arrived
      <4>2. /\ ReadsAs(r, q) /\ q.uri # <<>>
            /\ ~BareQuery(r) => RequestTarget(q) = RequestTarget(r)
        BY <2>2, <4>1, InboundReads
      <4>3. BareQuery(r) => BareQuery(q)
        BY <2>2, <4>1 DEF Inbound, BareQuery, RequestFields
      <4> HIDE DEF r, q
      <4> QED
        BY <4>2, <4>3 DEF SameLine
    <3> QED
      BY <3>1, <3>2
  <2>4. TargetOf(q, setting, "server") = TargetOf(r, setting, "client")
    BY <2>1, SameTarget DEF TargetOf
  <2> HIDE DEF q
  <2>5. ASSUME NEW h \in signed
        PROVE  h.target = TargetOf(n.req, setting, "server") /\ Since(h.msg, n, ReusedAmong(signed))
    <3>1. h.target = TargetOf(r, setting, "client") /\ Since(h.msg, msg, ReusedAmong(signed))
      BY <2>1 DEF Unedited
    <3>2. ReadsAs(h.msg.req, n.req)
      BY <1>2, <2>3, <3>1 DEF Since, ReadsAs
    <3>3. SameLine(h.msg.req, n.req)
      BY <1>2, <2>2, <2>3, <3>1 DEF Since, SameLine
    <3> QED
      BY <1>2, <2>4, <3>1, <3>2, <3>3 DEF Since
  <2> QED
    BY <1>2, <2>1, <2>5 DEF Unedited
<1> QED
  BY <1>1, <1>3 DEF Quiet, Deliver

\* Every step keeps an unedited message as it was meant.
LEMMA QuietStays == Inv /\ Quiet /\ [Next]_vars => Quiet'
<1> SUFFICES ASSUME Inv, Quiet, [Next]_vars
             PROVE  Quiet'
  OBVIOUS
<1>1. CASE UNCHANGED vars \/ Parse \/ Tick
  <2>1. msg' = msg /\ setting' = setting /\ side' = side /\ signed' = signed /\ edits' = edits
    BY <1>1 DEF vars, Parse, Tick
  <2> QED
    BY <2>1 DEF Quiet
<1>2. CASE \E m : Edit(m)
  <2>1. edits' # 0
    BY <1>2, SettingsAssumption DEF Edit, Inv
  <2> QED
    BY <2>1 DEF Quiet
<1>3. CASE \E k \in Keys, l \in setting.labels, cs \in setting.lists, ttl \in setting.ttls : Sign(k, l, cs, ttl)
  BY <1>3, SignQuiet
<1>4. CASE \E k \in Keys, l \in setting.labels, i \in setting.peers : PeerSign(k, l, i)
  BY <1>4, PeerSignQuiet
<1>5. CASE \E ended \in setting.ends, absolute \in BOOLEAN : Deliver(ended, absolute)
  BY <1>5, DeliverQuiet
<1> QED
  BY <1>1, <1>2, <1>3, <1>4, <1>5
     DEF Next, EditField, EditRequest, AppendInput, AppendSig, DropInput, DropSig, BreakInputs

\* A signature of a message still reads over what the message has become.
LEMMA ReadsStill ==
    ASSUME Inv, Quiet, edits = 0, NEW h \in signed, ~CoversHeader(h.input),
           (\E i \in DOMAIN h.input.items : h.input.items[i].c.name = "@request-target") => LineKept(h),
           \A m \in SignLabels : CoversMember(h.input, m) => ~Reused(m)
    PROVE  /\ HasBase(msg, FieldTypes, h.input.items)
           /\ SignatureBase(msg, TargetHere(msg), FieldTypes, h.input)
                = SignatureBase(h.msg, h.target, FieldTypes, h.input)
<1>1. Unedited(msg, setting, side, signed)
  BY DEF Quiet
<1>2. h.target = TargetHere(msg)
  BY <1>1 DEF Unedited, TargetHere, TargetOf
<1>3. Since(h.msg, msg, ReusedAmong(signed)) /\ msg.inputs.ok /\ msg.sigs.ok
  BY <1>1 DEF Unedited
<1>4. Statement(h, setting, Made) /\ HasBase(h.msg, FieldTypes, h.input.items)
  BY DEF Inv, Statement
<1>5. Labels(h.msg.inputs) = Labels(h.msg.sigs) /\ Labels(h.msg.inputs) \subseteq SignLabels
  BY <1>3, <1>4 DEF Since, Statement, IsMessage, IsHeader, Labels
<1>6. ASSUME NEW i \in DOMAIN h.input.items
      PROVE  Carries(h.msg, msg, h.input.items[i].c)
  <2> DEFINE c == h.input.items[i].c
  <2>1. c.name \in {"signature", "signature-input"} =>
          c.key # "" /\ \A m \in SignLabels : c.key = m => ~Reused(m)
    BY DEF CoversHeader, CoversMember
  <2>2. ASSUME c.name \in {"signature", "signature-input"}, c.key \in Labels(h.msg.inputs)
        PROVE  c.key \in Labels(h.msg.inputs) \ ReusedAmong(signed)
    BY <1>5, <2>1, <2>2 DEF Reused, ReusedAmong
  <2> HIDE DEF c
  <2>3. c.name = "signature-input" => MemberCarries(h.msg.inputs, msg.inputs, c.key)
    BY <1>3, <2>1, <2>2 DEF Since, MemberCarries
  <2>4. c.name = "signature" => MemberCarries(h.msg.sigs, msg.sigs, c.key)
    BY <1>3, <1>5, <2>1, <2>2 DEF Since, MemberCarries
  <2>5. c.name = "@request-target" => RequestTarget(msg.req) = RequestTarget(h.msg.req)
    <3>1. c.name = "@request-target" => LineKept(h)
      BY DEF c
    <3>2. SameLine(h.msg.req, msg.req)
      BY <1>3 DEF Since
    <3>3. side = "client" => msg.req.uri = <<>>
      BY <1>1, SettingsAssumption DEF Unedited, IsRequest, Inv
    <3> QED
      BY <3>1, <3>2, <3>3 DEF LineKept, SameLine
  <2>6. Carries(h.msg, msg, c)
    BY <1>3, <2>3, <2>4, <2>5 DEF Since, Carries, FieldCarries
  <2> QED
    BY <2>6 DEF c
<1>7. /\ HasBase(msg, FieldTypes, h.input.items)
      /\ SignatureBase(msg, h.target, FieldTypes, h.input)
           = SignatureBase(h.msg, h.target, FieldTypes, h.input)
  BY <1>4, <1>6, BaseCarries DEF TargetCarries
<1> QED
  BY <1>2, <1>7

\* With no edits and the target the client saw, its signature verifies.
THEOREM SurvivesTheJourney == Spec => []HonestJourney
<1>1. Inv /\ Quiet => HonestJourney
  <2> SUFFICES ASSUME Inv, Quiet, edits = 0, NEW h \in signed, NEW l \in Labels(msg.inputs),
                      Get(msg.inputs, l) = h.input, Get(msg.sigs, l) = h.sig, ~CoversHeader(h.input),
                      (\E i \in DOMAIN h.input.items : h.input.items[i].c.name = "@request-target")
                          => LineKept(h),
                      \A i \in DOMAIN h.input.items : ParsesAsComponent(h.input.items[i]),
                      \A p \in DOMAIN h.input.params : h.input.params[p] # IllTyped,
                      \A m \in SignLabels : CoversMember(h.input, m) => ~Reused(m)
               PROVE  Stands(l, h.key)
    BY DEF HonestJourney
  <2>1. /\ msg.inputs.ok /\ msg.sigs.ok /\ l \in Labels(msg.sigs)
    BY DEF Quiet, Unedited
  <2>2. IsInput(h.input)
        /\ h.sig = KeySign(h.key, SignatureBase(h.msg, h.target, FieldTypes, h.input))
    BY DEF Inv, Statement
  <2>3. h.input # Malformed
    <3>1. "items" \in DOMAIN h.input /\ "items" \notin DOMAIN Malformed
      BY <2>2 DEF IsInput, Malformed
    <3> QED
      BY <3>1
  <2>4. h.sig # Malformed
    <3>1. "key" \in DOMAIN h.sig /\ "key" \notin DOMAIN Malformed
      BY <2>2 DEF KeySign, Malformed
    <3> QED
      BY <3>1
  <2>5. /\ HasBase(msg, FieldTypes, h.input.items)
        /\ SignatureBase(msg, TargetHere(msg), FieldTypes, h.input)
             = SignatureBase(h.msg, h.target, FieldTypes, h.input)
    BY ReadsStill
  <2>6. WellFormed(msg, FieldTypes, l)
    BY <2>1, <2>3, <2>4, <2>5 DEF WellFormed
  <2>7. KeyVerify(h.key, SignatureBase(msg, TargetHere(msg), FieldTypes, Get(msg.inputs, l)), Get(msg.sigs, l))
    BY <2>2, <2>5 DEF KeyVerify
  <2> QED
    BY <2>1, <2>6, <2>7 DEF Stands
<1> QED
  BY <1>1, QuietAtFirst, QuietStays, Invariance, PTL DEF Spec
===============================================================================
