---------------------------- MODULE DocumentsProofs ----------------------------
(* Proofs about Documents for every value of its constants: whatever the       *)
(* dashboard and the command line write can be started from, and a gateway     *)
(* that learned of every change runs what it would run after a restart.        *)
EXTENDS Documents, FiniteSetTheorems, WellFoundedInduction, TLAPS

-----------------------------------------------------------------------------
(* What a document, an overlay and the credentials add up to. *)

\* A catalog is neither a failure nor no gateway, and its key is the one the
\* document refers to.
LEMMA CatalogOf ==
    ASSUME NEW d, NEW s, CatalogFromDocument(d, s) # Broken
    PROVE  /\ CatalogFromDocument(d, s) # Off
           /\ CatalogFromDocument(d, s).gateway = OptionalKey(s, d.gateway.key)
           /\ CatalogFromDocument(d, s).strategies = StrategiesFromDocument(d)
    BY DEF CatalogFromDocument, Broken, Off

\* An overlay leaves the gateway's section alone, and one that applies is of a
\* version this gateway reads.
LEMMA MergedGateway ==
    ASSUME NEW d, IsDocument(d), NEW o, MergeOverlay(d, o) # Broken
    PROVE  /\ MergeOverlay(d, o).gateway = d.gateway
           /\ OverlayIsShaped(o) /\ o.version # 3
<1>1. OverlayIsShaped(o) /\ o.version \in {0, 1, 2}
    BY DEF MergeOverlay, OverlayIsShaped
<1>2. CASE o.version = 0
    BY <1>1, <1>2 DEF MergeOverlay
<1>3. CASE o.version = 1
    <2>1. MergeOverlay(d, o) = MergeRules(d, o)
        BY <1>1, <1>3 DEF MergeOverlay
    <2> QED
        BY <1>1, <1>3, <2>1 DEF MergeRules, IsDocument
<1>4. CASE o.version = 2
    <2>1. MergeOverlay(d, o) = MergeWorkflows(d, o)
        BY <1>1, <1>4 DEF MergeOverlay
    <2> QED
        BY <1>1, <1>4, <2>1 DEF MergeWorkflows, IsDocument
<1> QED
    BY <1>1, <1>2, <1>3, <1>4

\* Nor do the global default and the decision providers depend on an overlay.
LEMMA SharedSections ==
    ASSUME NEW d, IsDocument(d), NEW o, NEW s, Effective(d, o, s) # Broken
    PROVE  /\ Effective(d, o, s).defaultModel = d.defaultModel
           /\ Effective(d, o, s).decision = DecisionFromDict(d.decision, s)
<1>1. PICK merged : merged = MergeOverlay(d, o)
    OBVIOUS
<1>2. merged # Broken /\ Effective(d, o, s) = CatalogFromDocument(merged, s)
    BY <1>1 DEF Effective
<1>3. OverlayIsShaped(o) /\ o.version \in {0, 1, 2}
    BY <1>1, <1>2 DEF MergeOverlay, OverlayIsShaped
<1>4. merged.defaultModel = d.defaultModel /\ merged.decision = d.decision
    <2>1. CASE o.version = 0
        BY <1>1, <1>3, <2>1 DEF MergeOverlay
    <2>2. CASE o.version = 1
        <3>1. merged = MergeRules(d, o)
            BY <1>1, <1>3, <2>2 DEF MergeOverlay
        <3> QED
            BY <1>2, <3>1 DEF MergeRules, IsDocument
    <2>3. CASE o.version = 2
        <3>1. merged = MergeWorkflows(d, o)
            BY <1>1, <1>3, <2>3 DEF MergeOverlay
        <3> QED
            BY <1>2, <3>1 DEF MergeWorkflows, IsDocument
    <2> QED
        BY <1>3, <2>1, <2>2, <2>3
<1> QED
    BY <1>2, <1>4 DEF CatalogFromDocument

\* What a writer found valid is what a gateway loads from it.
LEMMA EffectiveIsLoaded ==
    ASSUME NEW d, IsDocument(d), NEW o, NEW s, Effective(d, o, s) # Broken
    PROVE  /\ Effective(d, o, s) # Off
           /\ Effective(d, o, s).gateway = OptionalKey(s, d.gateway.key)
           /\ OverlayIsShaped(o) /\ ReadOverlay(o) = o
           /\ Load(d, o, s) = Effective(d, o, s)
<1>1. /\ MergeOverlay(d, o) # Broken
      /\ Effective(d, o, s) = CatalogFromDocument(MergeOverlay(d, o), s)
    BY DEF Effective
<1>2. MergeOverlay(d, o).gateway = d.gateway /\ OverlayIsShaped(o) /\ ReadOverlay(o) = o
    BY <1>1, MergedGateway DEF ReadOverlay
<1> QED
    BY <1>1, <1>2, CatalogOf DEF Load

\* What is loaded, with the overlay or without it, has the document's key.
LEMMA LoadedIsCatalog ==
    ASSUME NEW d, IsDocument(d), NEW o, NEW s, Load(d, o, s) # Broken
    PROVE  /\ Load(d, o, s) # Off
           /\ Load(d, o, s).gateway = OptionalKey(s, d.gateway.key)
<1>1. CASE Effective(d, ReadOverlay(o), s) # Broken
    BY <1>1, EffectiveIsLoaded DEF Load
<1>2. CASE Effective(d, ReadOverlay(o), s) = Broken
    BY <1>2, CatalogOf DEF Load
<1> QED
    BY <1>1, <1>2

\* Credentials other than the gateway's do not matter to what can be loaded.
LEMMA OtherSecrets ==
    ASSUME NEW d, IsDocument(d), NEW o, NEW s, NEW t,
           d.gateway.key # None => Resolve(t, d.gateway.key) = Resolve(s, d.gateway.key),
           Effective(d, o, s) # Broken, RegistryBuilds(Effective(d, o, s))
    PROVE  Effective(d, o, t) # Broken /\ RegistryBuilds(Effective(d, o, t))
<1> DEFINE merged == MergeOverlay(d, o)
<1>1. /\ merged # Broken /\ Effective(d, o, s) = CatalogFromDocument(merged, s)
      /\ Effective(d, o, t) = CatalogFromDocument(merged, t)
    BY DEF Effective
<1>2. merged.gateway = d.gateway
    BY <1>1, MergedGateway
<1> HIDE DEF merged
<1>3. GatewayParses(merged.gateway, t) <=> GatewayParses(merged.gateway, s)
    BY <1>2 DEF GatewayParses
<1>4. CatalogFromDocument(merged, t) # Broken
    BY <1>1, <1>3 DEF CatalogFromDocument, Broken
<1>5. CatalogFromDocument(merged, t).strategies = CatalogFromDocument(merged, s).strategies
    BY <1>1, <1>4, CatalogOf
<1> QED
    BY <1>1, <1>4, <1>5 DEF RegistryBuilds

-----------------------------------------------------------------------------
(* Operations on a candidate. *)

\* A set of numbers that is not empty has a least element.
LEMMA LeastNumber ==
    ASSUME NEW S, S \subseteq Nat, S # {}
    PROVE  \E i \in S : \A j \in S : i <= j
<1>1. PICK i \in S : \A j \in S : <<j, i>> \notin OpToRel(<, Nat)
    BY NatLessThanWellFounded, WFMin
<1>2. \A j \in S : i <= j
    <2> SUFFICES ASSUME NEW j \in S, j < i
                 PROVE  FALSE
        OBVIOUS
    <2>1. <<j, i>> \in OpToRel(<, Nat)
        BY DEF OpToRel
    <2> QED
        BY <1>1, <2>1
<1> QED
    BY <1>2

Unchanged == [document |-> document, secrets |-> secrets, changes |-> {}]

\* The fold over the first n operations, as a function on sets of positions.
Folds(g, operations, n) ==
    g = [s \in SUBSET (1..n) |->
            IF s = {} THEN Unchanged ELSE Perform(g[s \ {Max(s)}], operations[Max(s)])]

\* There is such a function, and the sets of positions have greatest elements.
LEMMA FoldExists ==
    ASSUME NEW operations, NEW n \in Nat
    PROVE  /\ \A s \in SUBSET (1..n) : s # {} => Max(s) \in s
           /\ \E g : Folds(g, operations, n)
<1> DEFINE Good(m) == /\ \A s \in SUBSET (1..m) : s # {} => Max(s) \in s
                      /\ \E g : Folds(g, operations, m)
           bad == {m \in Nat : ~Good(m)}
<1>1. SUFFICES ASSUME bad # {}
               PROVE  FALSE
    OBVIOUS
<1>2. PICK m \in bad : \A j \in bad : m <= j
    <2>1. bad \subseteq Nat
        OBVIOUS
    <2> HIDE DEF bad
    <2> QED
        BY <1>1, <2>1, LeastNumber
<1>3. Good(0)
    <2> DEFINE g == [s \in SUBSET (1..0) |-> Unchanged]
    <2>1. 1..0 = {}
        OBVIOUS
    <2>2. Folds(g, operations, 0)
        BY <2>1 DEF Folds
    <2> HIDE DEF g
    <2> QED
        BY <2>1, <2>2
<1>4. m # 0 /\ m - 1 \in Nat /\ Good(m - 1)
    <2> HIDE DEF Good
    <2>1. m # 0
        BY <1>3
    <2>2. m - 1 \in Nat /\ ~(m <= m - 1)
        BY <2>1
    <2> QED
        BY <1>2, <2>1, <2>2
<1>5. PICK g : Folds(g, operations, m - 1)
    BY <1>4
<1>6. \A s \in SUBSET (1..(m - 1)) : s # {} => Max(s) \in s
    BY <1>4
<1>7. \A s \in SUBSET (1..m) : m \notin s => s \in SUBSET (1..(m - 1))
    BY <1>4
<1>8. \A s \in SUBSET (1..m) : m \in s => Max(s) = m /\ s \ {m} \in SUBSET (1..(m - 1))
    <2> SUFFICES ASSUME NEW s \in SUBSET (1..m), m \in s
                 PROVE  Max(s) = m /\ s \ {m} \in SUBSET (1..(m - 1))
        OBVIOUS
    <2>1. m \in Nat /\ \A y \in s : y \in Nat /\ m >= y
        OBVIOUS
    <2>2. Max(s) \in s /\ \A y \in s : Max(s) >= y
        BY <2>1 DEF Max
    <2>3. Max(s) \in Nat /\ m >= Max(s)
        BY <2>1, <2>2
    <2>4. Max(s) >= m
        BY <2>2
    <2>5. Max(s) = m
        BY <2>1, <2>3, <2>4
    <2> QED
        BY <1>4, <2>5
<1> DEFINE h == [s \in SUBSET (1..m) |->
                    IF m \in s THEN Perform(g[s \ {m}], operations[m]) ELSE g[s]]
<1>9. \A s \in SUBSET (1..m) :
          h[s] = IF s = {} THEN Unchanged ELSE Perform(h[s \ {Max(s)}], operations[Max(s)])
    <2> SUFFICES ASSUME NEW s \in SUBSET (1..m)
                 PROVE  h[s] = IF s = {} THEN Unchanged
                               ELSE Perform(h[s \ {Max(s)}], operations[Max(s)])
        OBVIOUS
    <2>1. CASE m \in s
        <3>1. h[s \ {m}] = g[s \ {m}]
            BY <1>8
        <3>2. h[s] = Perform(g[s \ {m}], operations[m])
            BY <2>1
        <3> HIDE DEF h
        <3> QED
            BY <1>8, <2>1, <3>1, <3>2
    <2>2. CASE m \notin s
        <3>1. s \in SUBSET (1..(m - 1)) /\ h[s] = g[s]
            BY <1>7, <2>2
        <3>2. g[s] = IF s = {} THEN Unchanged
                     ELSE Perform(g[s \ {Max(s)}], operations[Max(s)])
            BY <1>5, <3>1 DEF Folds
        <3>3. h[s \ {Max(s)}] = g[s \ {Max(s)}]
            BY <2>2
        <3> HIDE DEF h
        <3> QED
            BY <3>1, <3>2, <3>3
    <2> QED
        BY <2>1, <2>2
<1>10. Folds(h, operations, m)
    <2>1. h = [s \in SUBSET (1..m) |-> h[s]]
        OBVIOUS
    <2> HIDE DEF h
    <2>2. [s \in SUBSET (1..m) |-> h[s]] =
          [s \in SUBSET (1..m) |->
              IF s = {} THEN Unchanged ELSE Perform(h[s \ {Max(s)}], operations[Max(s)])]
        BY <1>9
    <2> QED
        BY <2>1, <2>2 DEF Folds
<1>11. \A s \in SUBSET (1..m) : s # {} => Max(s) \in s
    BY <1>6, <1>7, <1>8
<1> HIDE DEF h
<1>12. Good(m)
    BY <1>10, <1>11
<1> QED
    BY <1>2, <1>12

\* The operations of a request are performed one after the other.
LEMMA PerformedInOrder ==
    ASSUME NEW operations, NEW n \in Nat, DOMAIN operations = 1..n
    PROVE  \E trace :
              /\ trace[0] = Unchanged /\ trace[n] = Candidate(operations)
              /\ \A i \in 1..n : trace[i] = Perform(trace[i - 1], operations[i])
<1> DEFINE iter == CHOOSE g : g = [s \in SUBSET DOMAIN operations |->
               IF s = {} THEN Unchanged ELSE Perform(g[s \ {Max(s)}], operations[Max(s)])]
           trace == [i \in 0..n |-> iter[1..i]]
<1>1. Candidate(operations) = iter[DOMAIN operations]
    BY Zenon DEF Candidate, FoldLeft, MapThenFoldSet, Unchanged
<1>2. Folds(iter, operations, n)
    <2>1. \E g : g = [s \in SUBSET DOMAIN operations |->
               IF s = {} THEN Unchanged ELSE Perform(g[s \ {Max(s)}], operations[Max(s)])]
        <3>1. PICK g : Folds(g, operations, n)
            BY FoldExists
        <3> QED
            BY <3>1, Zenon DEF Folds
    <2> QED
        BY <2>1, Zenon DEF Folds
<1> HIDE DEF iter
<1>3. \A s \in SUBSET (1..n) :
          iter[s] = IF s = {} THEN Unchanged
                    ELSE Perform(iter[s \ {Max(s)}], operations[Max(s)])
    BY <1>2 DEF Folds
<1>4. trace[0] = Unchanged
    <2>1. 1..0 = {} /\ {} \in SUBSET (1..n)
        OBVIOUS
    <2>2. iter[{}] = Unchanged
        BY <1>3, <2>1
    <2>3. 0 \in 0..n
        OBVIOUS
    <2>4. trace[0] = iter[1..0]
        BY <2>3
    <2> HIDE DEF trace
    <2> QED
        BY <2>1, <2>2, <2>4
<1>5. trace[n] = Candidate(operations)
    BY <1>1
<1>6. ASSUME NEW i \in 1..n
      PROVE  trace[i] = Perform(trace[i - 1], operations[i])
    <2>1. 1..i \in SUBSET (1..n) /\ 1..i # {} /\ i \in Nat
        OBVIOUS
    <2>2. Max(1..i) = i
        <3>1. i \in 1..i /\ \A y \in 1..i : i >= y
            OBVIOUS
        <3>2. Max(1..i) \in 1..i /\ \A y \in 1..i : Max(1..i) >= y
            BY <3>1 DEF Max
        <3> QED
            BY <3>1, <3>2
    <2>3. (1..i) \ {i} = 1..(i - 1)
        OBVIOUS
    <2>4. iter[1..i] = Perform(iter[1..(i - 1)], operations[i])
        BY <1>3, <2>1, <2>2, <2>3
    <2>5. trace[i] = iter[1..i] /\ trace[i - 1] = iter[1..(i - 1)]
        OBVIOUS
    <2> QED
        BY <2>4, <2>5
<1> HIDE DEF trace
<1> QED
    BY <1>4, <1>5, <1>6

\* What an update of a credential may be.
IsUpdate(action, value) ==
    action \in {"keep", "set", "clear"} /\ (action = "set" => value \in Secrets)

\* An update of a credential changes that one, to a value or to none.
LEMMA SecretIsChanged ==
    ASSUME NEW values \in SecretFiles, NEW ref, NEW action, NEW value,
           IsUpdate(action, value)
    PROVE  /\ WithSecret(values, ref, action, value) \in SecretFiles
           /\ \A r \in DOMAIN External :
                  r # ref => WithSecret(values, ref, action, value)[r] = values[r]
<1> DEFINE File == [file : Secrets \cup {None}, env : Secrets \cup {None}]
<1>1. values \in [DOMAIN External -> File]
    BY DEF SecretFiles
<1>2. CASE action = "keep"
    BY <1>2 DEF WithSecret
<1>3. CASE action = "set"
    <2> DEFINE new == [values[ref] EXCEPT !.file = value]
    <2>1. WithSecret(values, ref, action, value) = [values EXCEPT ![ref] = new]
        BY <1>3 DEF WithSecret
    <2>2. ref \in DOMAIN External => new \in File
        BY <1>1, <1>3 DEF IsUpdate
    <2> HIDE DEF new, File
    <2>3. [values EXCEPT ![ref] = new] \in [DOMAIN External -> File]
        BY <1>1, <2>2
    <2> QED
        BY <1>1, <2>1, <2>3 DEF SecretFiles, File
<1>4. CASE action = "clear"
    <2> DEFINE new == [file |-> None, env |-> None]
    <2>1. WithSecret(values, ref, action, value) = [values EXCEPT ![ref] = new]
        BY <1>4 DEF WithSecret
    <2>2. new \in File
        OBVIOUS
    <2> HIDE DEF new, File
    <2>3. [values EXCEPT ![ref] = new] \in [DOMAIN External -> File]
        BY <1>1, <2>2
    <2> QED
        BY <1>1, <2>1, <2>3 DEF SecretFiles, File
<1> QED
    BY <1>2, <1>3, <1>4 DEF IsUpdate

\* A candidate keeps the gateway's section, and has a record of every credential
\* that was changed.
CandidateIsSound(c) ==
    c # Broken =>
        /\ DOMAIN c = {"document", "secrets", "changes"}
        /\ IsDocument(c.document) /\ c.document.gateway = document.gateway
        /\ c.secrets \in SecretFiles
        /\ \A ref \in DOMAIN External :
              c.secrets[ref] # secrets[ref] => \E change \in c.changes : change[1] = ref

\* A change of a credential is recorded.
LEMMA ChangeIsSound ==
    ASSUME NEW c, CandidateIsSound(c), c # Broken, NEW ref, NEW owner, NEW action,
           NEW value, IsUpdate(action, value)
    PROVE  CandidateIsSound(ChangeSecret(c, ref, owner, action, value))
<1>1. CASE action = "keep"
    BY <1>1 DEF ChangeSecret
<1>2. CASE action # "keep" /\ ref # None /\ ~Shared(c.document, ref, owner)
    <2> DEFINE values == WithSecret(c.secrets, ref, action, value)
               new == [c EXCEPT !.secrets = values, !.changes = c.changes \cup {<<ref, owner>>}]
    <2>1. ChangeSecret(c, ref, owner, action, value) = new
        BY <1>2 DEF ChangeSecret
    <2>2. c.secrets \in SecretFiles
        BY DEF CandidateIsSound
    <2>3. /\ values \in SecretFiles
          /\ \A r \in DOMAIN External : r # ref => values[r] = c.secrets[r]
        BY <2>2, SecretIsChanged
    <2> HIDE DEF values
    <2>4. /\ DOMAIN new = {"document", "secrets", "changes"}
          /\ new.document = c.document /\ new.secrets = values
          /\ new.changes = c.changes \cup {<<ref, owner>>}
        BY DEF CandidateIsSound
    <2> HIDE DEF new
    <2>5. ASSUME NEW r \in DOMAIN External, values[r] # secrets[r]
          PROVE  \E change \in new.changes : change[1] = r
        <3>1. CASE r = ref
            <4>1. <<ref, owner>> \in new.changes /\ <<ref, owner>>[1] = r
                BY <2>4, <3>1
            <4> QED
                BY <4>1
        <3>2. CASE r # ref
            <4>1. \E change \in c.changes : change[1] = r
                BY <2>3, <2>5, <3>2 DEF CandidateIsSound
            <4> QED
                BY <2>4, <4>1
        <3> QED
            BY <3>1, <3>2
    <2> QED
        BY <2>1, <2>3, <2>4, <2>5 DEF CandidateIsSound
<1>3. CASE action # "keep" /\ ~(ref # None /\ ~Shared(c.document, ref, owner))
    BY <1>3 DEF ChangeSecret, CandidateIsSound
<1> QED
    BY <1>1, <1>2, <1>3

\* What operations on providers and models leave alone.
SameRest(d, e) ==
    /\ DOMAIN d = DOMAIN e /\ d.gateway = e.gateway
    /\ d.strategies = e.strategies /\ d.policy = e.policy

\* A document keeps its shape when only providers and models change.
LEMMA RestOfDocument ==
    ASSUME NEW d, NEW e, IsDocument(e), SameRest(d, e)
    PROVE  IsDocument(d)
    BY DEF IsDocument, SameRest

\* A change of the document elsewhere than in the gateway's section.
LEMMA SectionIsSound ==
    ASSUME NEW c, CandidateIsSound(c), c # Broken, NEW d,
           SameRest(d, c.document)
    PROVE  CandidateIsSound([c EXCEPT !.document = d])
<1> DEFINE new == [c EXCEPT !.document = d]
<1>1. /\ DOMAIN new = {"document", "secrets", "changes"}
      /\ new.document = d /\ new.secrets = c.secrets /\ new.changes = c.changes
    BY DEF CandidateIsSound
<1>2. IsDocument(d) /\ d.gateway = document.gateway
    BY RestOfDocument DEF CandidateIsSound, SameRest
<1> HIDE DEF new
<1>3. CandidateIsSound(new)
    BY <1>1, <1>2 DEF CandidateIsSound
<1> QED
    BY <1>3 DEF new

\* Saving an LLM provider, with its key and one of its parameters.
LEMMA UpsertIsSound ==
    ASSUME NEW c, CandidateIsSound(c), c # Broken, NEW operation, IsOperation(operation),
           operation.kind = "upsert_llm"
    PROVE  CandidateIsSound(UpsertProvider(c, operation))
<1> DEFINE p == operation.id
           known == p \in DOMAIN c.document.providers
           old == c.document.providers[p]
           entry == [operation.entry EXCEPT
                        !.bindings = IF operation.entry.bindings # None
                                     THEN operation.entry.bindings
                                     ELSE IF known THEN old.bindings ELSE <<>>]
           ref == IF entry.key = None /\ operation.action = "clear" /\ known
                  THEN old.key ELSE entry.key
           keyed == ChangeSecret(c, ref, <<"llm", p>>, operation.action, operation.value)
           d == [keyed.document EXCEPT !.providers = With(keyed.document.providers, p, entry)]
           saved == [keyed EXCEPT !.document = d]
           bound == ChangeSecret(saved, entry.bindings[operation.parameter],
                                 <<"llm", p, operation.parameter>>,
                                 operation.parameterAction, operation.value)
<1>1. UpsertProvider(c, operation) =
          IF keyed = Broken THEN Broken
          ELSE IF operation.parameter = None THEN saved
          ELSE IF operation.parameter \notin DOMAIN entry.bindings THEN Broken
          ELSE bound
    BY DEF UpsertProvider
<1>2. IsUpdate(operation.action, operation.value)
    BY DEF IsOperation, IsUpdate
<1>3. operation.parameter # None => IsUpdate(operation.parameterAction, operation.value)
    BY DEF IsOperation, IsUpdate
<1> HIDE DEF ref, entry
<1>4. CandidateIsSound(keyed)
    BY <1>2, ChangeIsSound
<1> HIDE DEF keyed
<1>5. keyed # Broken => CandidateIsSound(saved)
    <2> SUFFICES ASSUME keyed # Broken
                 PROVE  CandidateIsSound(saved)
        OBVIOUS
    <2>1. SameRest(d, keyed.document)
        BY <1>4 DEF CandidateIsSound, IsDocument, SameRest
    <2> HIDE DEF d
    <2> QED
        BY <1>4, <2>1, SectionIsSound
<1>6. keyed # Broken => saved # Broken
    <2> SUFFICES ASSUME keyed # Broken
                 PROVE  saved # Broken
        OBVIOUS
    <2>1. DOMAIN saved = DOMAIN keyed /\ DOMAIN keyed = {"document", "secrets", "changes"}
        BY <1>4 DEF CandidateIsSound
    <2> QED
        BY <2>1 DEF Broken
<1> HIDE DEF saved
<1>7. keyed # Broken /\ operation.parameter # None => CandidateIsSound(bound)
    BY <1>3, <1>5, <1>6, ChangeIsSound
<1> HIDE DEF bound
<1>8. CandidateIsSound(Broken)
    BY DEF CandidateIsSound
<1> QED
    BY <1>1, <1>5, <1>7, <1>8

\* Every operation leaves a sound candidate, or fails.
LEMMA PerformIsSound ==
    ASSUME NEW c, CandidateIsSound(c), NEW operation, IsOperation(operation)
    PROVE  CandidateIsSound(Perform(c, operation))
<1>1. CandidateIsSound(Broken)
    BY DEF CandidateIsSound
<1>2. SUFFICES ASSUME c # Broken
               PROVE  CandidateIsSound(Perform(c, operation))
    BY <1>1 DEF Perform
<1>3. IsDocument(c.document) /\ DOMAIN c = {"document", "secrets", "changes"}
    BY <1>2 DEF CandidateIsSound
<1>4. CASE operation.kind = "upsert_llm"
    BY <1>2, <1>4, UpsertIsSound DEF Perform
<1>5. CASE operation.kind = "upsert_decision"
    <2> DEFINE keyed == ChangeSecret(c, operation.entry.key, <<"decision", operation.id>>,
                                     operation.action, operation.value)
               decision == [keyed.document.decision EXCEPT !.providers =
                              With(keyed.document.decision.providers, operation.id, operation.entry)]
               d == [keyed.document EXCEPT !.decision = decision]
    <2>1. Perform(c, operation) = IF keyed = Broken THEN Broken
                                  ELSE [keyed EXCEPT !.document = d]
        BY <1>2, <1>5 DEF Perform, UpsertDecision
    <2>2. IsUpdate(operation.action, operation.value)
        BY <1>5 DEF IsOperation, IsUpdate
    <2>3. CandidateIsSound(keyed)
        BY <1>2, <2>2, ChangeIsSound
    <2> HIDE DEF keyed, decision
    <2>4. keyed # Broken => SameRest(d, keyed.document)
        BY <2>3 DEF CandidateIsSound, IsDocument, SameRest
    <2> HIDE DEF d
    <2> QED
        BY <1>1, <2>1, <2>3, <2>4, SectionIsSound
<1> DEFINE Edited(field, x) == [c EXCEPT !.document = [c.document EXCEPT ![field] = x]]
<1>6. ASSUME NEW field \in {"providers", "models", "decision", "defaultModel"}, NEW x
      PROVE  CandidateIsSound(Edited(field, x))
    <2>1. SameRest([c.document EXCEPT ![field] = x], c.document)
        BY <1>3 DEF IsDocument, SameRest
    <2> QED
        BY <1>2, <2>1, SectionIsSound
<1>7. CASE operation.kind = "delete_llm"
    <2>1. Perform(c, operation) \in
              {Broken, Edited("providers", Restrict(c.document.providers,
                           DOMAIN c.document.providers \ {operation.id}))}
        BY <1>2, <1>7 DEF Perform, DeleteProvider
    <2> HIDE DEF Edited
    <2> QED
        BY <1>1, <1>6, <2>1
<1>8. CASE operation.kind = "delete_decision"
    <2>1. Perform(c, operation) \in
              {Broken, Edited("decision", [c.document.decision EXCEPT !.providers =
                           Restrict(c.document.decision.providers,
                                    DOMAIN c.document.decision.providers \ {operation.id})])}
        BY <1>2, <1>8 DEF Perform, DeleteDecision
    <2> HIDE DEF Edited
    <2> QED
        BY <1>1, <1>6, <2>1
<1>9. CASE operation.kind = "import"
    <2>1. Perform(c, operation) \in
              {Broken, Edited("models",
                           c.document.models @@ (operation.id :> operation.entry))}
        BY <1>2, <1>9 DEF Perform, ImportModel
    <2> HIDE DEF Edited
    <2> QED
        BY <1>1, <1>6, <2>1
<1>10. CASE operation.kind = "update_model"
    <2>1. PICK model : Perform(c, operation) \in
              {Broken, Edited("models", [c.document.models EXCEPT ![operation.id] = model])}
        BY <1>2, <1>10 DEF Perform, UpdateModel
    <2> HIDE DEF Edited
    <2> QED
        BY <1>1, <1>6, <2>1
<1>11. CASE operation.kind = "default_model"
    <2>1. Perform(c, operation) = Edited("defaultModel", operation.model)
        BY <1>2, <1>11 DEF Perform
    <2> HIDE DEF Edited
    <2> QED
        BY <1>6, <2>1
<1>12. CASE operation.kind = "decision_enabled"
    <2>1. Perform(c, operation) =
              Edited("decision", [c.document.decision EXCEPT !.enabled = operation.enabled])
        BY <1>2, <1>12 DEF Perform
    <2> HIDE DEF Edited
    <2> QED
        BY <1>6, <2>1
<1> QED
    BY <1>4, <1>5, <1>7, <1>8, <1>9, <1>10, <1>11, <1>12 DEF IsOperation

\* What a request adds up to.
LEMMA CandidatesAreSound ==
    ASSUME IsDocument(document), secrets \in SecretFiles, NEW operations \in Commands
    PROVE  CandidateIsSound(Candidate(operations))
<1>1. /\ Len(operations) \in Nat /\ DOMAIN operations = 1..Len(operations)
      /\ \A i \in 1..Len(operations) : IsOperation(operations[i])
    BY RequestsAssumption
<1>2. PICK n \in Nat : n = Len(operations)
    BY <1>1
<1>3. PICK trace :
              /\ trace[0] = Unchanged /\ trace[n] = Candidate(operations)
              /\ \A i \in 1..n : trace[i] = Perform(trace[i - 1], operations[i])
    BY <1>1, <1>2, PerformedInOrder
<1> DEFINE bad == {i \in 0..n : ~CandidateIsSound(trace[i])}
<1>4. CandidateIsSound(trace[0])
    BY <1>3 DEF Unchanged, CandidateIsSound
<1>5. bad = {}
    <2> SUFFICES ASSUME bad # {}
                 PROVE  FALSE
        OBVIOUS
    <2>1. PICK i \in bad : \A j \in bad : i <= j
        <3>1. bad \subseteq Nat
            OBVIOUS
        <3> HIDE DEF bad
        <3> QED
            BY <3>1, LeastNumber
    <2>2. i # 0 /\ i \in 1..n /\ i - 1 \in 0..n /\ ~(i <= i - 1)
        BY <1>4
    <2>3. CandidateIsSound(trace[i - 1])
        BY <2>1, <2>2
    <2>4. IsOperation(operations[i])
        BY <1>1, <1>2, <2>2
    <2>5. CandidateIsSound(trace[i])
        BY <1>3, <2>2, <2>3, <2>4, PerformIsSound
    <2> QED
        BY <2>1, <2>5
<1> QED
    BY <1>3, <1>5

-----------------------------------------------------------------------------
(* The invariant. *)

\* What the files may hold, edited by hand or not.
FilesTyped ==
    /\ IsDocument(document) /\ IsOverlay(overlay)
    /\ IsLayout(layout) /\ secrets \in SecretFiles

\* A gateway runs on a catalog. The command line makes catalog and settings
\* stale together; a routing edit brings only the catalog up to date.
GatewayTyped ==
    /\ running # Broken
    /\ stale \in {{}, {"settings"}, {"catalog", "settings"}}
    /\ running = Off => key = None /\ stale = {}

\* What is not stale is what a restart would load.
RunsCurrent ==
    running # Off =>
        /\ "catalog" \notin stale => running = Load(document, overlay, secrets)
        /\ "settings" \notin stale => key = OptionalKey(secrets, document.gateway.key)

DocumentsInv ==
    /\ edits \in 0..MaxEdits
    /\ FilesTyped /\ GatewayTyped /\ RunsCurrent /\ AlwaysLoads

\* A catalog that was loaded from the files is activated with its settings.
LEMMA Activated ==
    ASSUME FilesTyped', NEW catalog, catalog # Broken, Loaded(catalog),
           catalog = Load(document, overlay, secrets)'
    PROVE  GatewayTyped' /\ RunsCurrent'
<1>1. /\ Load(document, overlay, secrets)' # Off
      /\ Load(document, overlay, secrets)'.gateway =
             OptionalKey(secrets, document.gateway.key)'
    BY LoadedIsCatalog DEF FilesTyped
<1> QED
    BY <1>1 DEF Loaded, GatewayTyped, RunsCurrent

\* What a gateway does not learn of.
LEMMA UntoldIsStale ==
    ASSUME GatewayTyped, Untold
    PROVE  GatewayTyped' /\ RunsCurrent'
    BY DEF GatewayTyped, RunsCurrent, Untold

\* One more write.
LEMMA WithinBudget ==
    ASSUME edits \in 0..MaxEdits, Budget
    PROVE  edits' \in 0..MaxEdits
    BY FilesAssumption DEF Budget

\* Starting and reloading a gateway.
LEMMA LoadStep ==
    ASSUME DocumentsInv, Start \/ Reload
    PROVE  DocumentsInv'
<1>1. UNCHANGED <<document, overlay, layout, secrets, byHand, edits>>
    BY DEF Start, Reload
<1>2. PICK catalog : /\ catalog = Load(document, overlay, secrets) /\ catalog # Broken
                     /\ Loaded(catalog)
    BY DEF Start, Reload
<1>3. FilesTyped' /\ AlwaysLoads' /\ edits' \in 0..MaxEdits
    BY <1>1 DEF DocumentsInv, FilesTyped, AlwaysLoads
<1>4. catalog = Load(document, overlay, secrets)'
    BY <1>1, <1>2
<1> QED
    BY <1>2, <1>3, <1>4, Activated DEF DocumentsInv

\* Ending one.
LEMMA StopStep ==
    ASSUME DocumentsInv, Stop
    PROVE  DocumentsInv'
<1>1. FilesTyped' /\ AlwaysLoads' /\ edits' \in 0..MaxEdits
    BY DEF DocumentsInv, FilesTyped, AlwaysLoads, Stop
<1>2. GatewayTyped' /\ RunsCurrent'
    BY DEF Stop, GatewayTyped, RunsCurrent, Off, Broken
<1> QED
    BY <1>1, <1>2 DEF DocumentsInv

\* The layout of a strategy may be forgotten.
LEMMA ForgottenLayout ==
    ASSUME NEW saved, NEW s
    PROVE  IsLayout(WithoutStrategy(saved, s))
    BY DEF WithoutStrategy, IsLayout

\* A catalog that the dashboard wrote and put into the engine. The settings are
\* as current as they were.
LEMMA EngineIsCurrent ==
    ASSUME DocumentsInv, FilesTyped', running # Off, UNCHANGED <<document, secrets, key>>,
           NEW catalog, catalog # Broken, catalog = Load(document, overlay, secrets)',
           running' = catalog, stale' = stale \ {"catalog"}
    PROVE  GatewayTyped' /\ RunsCurrent'
<1>1. Load(document, overlay, secrets)' # Off
    BY LoadedIsCatalog DEF FilesTyped
<1>2. "settings" \notin stale => key = OptionalKey(secrets, document.gateway.key)
    BY DEF DocumentsInv, RunsCurrent
<1> QED
    BY <1>1, <1>2 DEF DocumentsInv, GatewayTyped, RunsCurrent

\* An overlay that a routing edit wrote.
IsWritten(candidate) ==
    DOMAIN candidate = DOMAIN NoOverlay /\ candidate.version \in {1, 2}

\* What an edit of one strategy writes: whole workflows, of which every other one
\* is what it was, or what the strategy it was made from amounts to.
EditOf(s, candidate, cleared) ==
    /\ WriteAllowed /\ OverlayReadable /\ WorkflowState # Broken
    /\ IsWritten(candidate) /\ candidate.version = 2
    /\ candidate.tags = WorkflowState.tags
    /\ candidate.deleted \ {s} = WorkflowState.deleted \ {s}
    /\ \A other : other # s =>
          /\ other \in DOMAIN candidate.workflows <=>
                other \in DOMAIN WorkflowState.workflows
          /\ other \in DOMAIN candidate.workflows =>
                candidate.workflows[other] = WorkflowState.workflows[other]
    /\ cleared \in {None, s}
    /\ ApplyRouting(candidate, cleared)

\* The overlay as workflows.
LEMMA StateIsWorkflows ==
    ASSUME IsOverlay(overlay), WorkflowState # Broken
    PROVE  DOMAIN WorkflowState = DOMAIN NoOverlay /\ WorkflowState.version = 2
<1>1. CASE overlay.version = 2
    BY <1>1 DEF WorkflowState, MigrateOverlay, IsOverlay
<1>2. CASE overlay.version # 2
    BY <1>2 DEF WorkflowState, MigrateOverlay, NoOverlay
<1> QED
    BY <1>1, <1>2

\* Every edit of one strategy is such an edit.
LEMMA EditsOneStrategy ==
    ASSUME IsOverlay(overlay), NEW s,
           \/ \E body \in Bodies : PutWorkflow(s, body)
           \/ \E rules \in Rules : PutWorkflowRules(s, rules)
           \/ CreateStrategy(s) \/ DeleteStrategy(s) \/ ResetStrategy(s)
    PROVE  \E candidate, cleared : EditOf(s, candidate, cleared)
<1>1. WorkflowState # Broken /\ WriteAllowed /\ OverlayReadable
    <2>1. CASE \E body \in Bodies : PutWorkflow(s, body)
        BY <2>1 DEF PutWorkflow
    <2>2. CASE \E rules \in Rules : PutWorkflowRules(s, rules)
        BY <2>2 DEF PutWorkflowRules, OverlayReadable
    <2>3. CASE CreateStrategy(s)
        BY <2>3 DEF CreateStrategy
    <2>4. CASE DeleteStrategy(s)
        BY <2>4 DEF DeleteStrategy
    <2>5. CASE ResetStrategy(s)
        BY <2>5 DEF ResetStrategy
    <2> QED
        BY <2>1, <2>2, <2>3, <2>4, <2>5
<1>2. PICK state : state = WorkflowState
    OBVIOUS
<1>3. DOMAIN state = DOMAIN NoOverlay /\ state.version = 2
    BY <1>1, <1>2, StateIsWorkflows
<1>4. DOMAIN NoOverlay = {"version", "strategy", "choices", "workflows", "deleted", "tags"}
    BY DEF NoOverlay
<1> DEFINE New(y) == [state EXCEPT !.workflows = With(state.workflows, s, y)]
<1>5. ASSUME NEW y, ApplyRouting(New(y), None)
      PROVE  EditOf(s, New(y), None)
    <2>1. /\ DOMAIN New(y) = DOMAIN NoOverlay /\ New(y).version = 2
          /\ New(y).tags = state.tags /\ New(y).deleted = state.deleted
          /\ New(y).workflows = With(state.workflows, s, y)
        BY <1>3, <1>4
    <2> HIDE DEF New
    <2>2. \A other : other # s =>
              /\ other \in DOMAIN New(y).workflows <=> other \in DOMAIN state.workflows
              /\ other \in DOMAIN state.workflows =>
                    New(y).workflows[other] = state.workflows[other]
        BY <2>1 DEF With
    <2> QED
        BY <1>1, <1>2, <1>5, <2>1, <2>2 DEF EditOf, IsWritten
<1>6. ASSUME NEW body, PutWorkflow(s, body)
      PROVE  \E y : ApplyRouting(New(y), None)
    BY <1>2, <1>6 DEF PutWorkflow
<1>7. ASSUME NEW rules, PutWorkflowRules(s, rules)
      PROVE  \E y : ApplyRouting(New(y), None)
    BY <1>2, <1>7 DEF PutWorkflowRules
<1>8. ASSUME ResetStrategy(s)
      PROVE  \E y : ApplyRouting(New(y), None)
    BY <1>2, <1>8 DEF ResetStrategy
<1> HIDE DEF New
<1>9. CASE CreateStrategy(s)
    <2> DEFINE new == [state EXCEPT !.deleted = state.deleted \ {s},
                                    !.workflows = With(state.workflows, s, EmptyWorkflow)]
    <2>1. ApplyRouting(new, s)
        BY <1>2, <1>9 DEF CreateStrategy
    <2>2. /\ DOMAIN new = DOMAIN NoOverlay /\ new.version = 2
          /\ new.tags = state.tags /\ new.deleted = state.deleted \ {s}
          /\ new.workflows = With(state.workflows, s, EmptyWorkflow)
        BY <1>3, <1>4
    <2> HIDE DEF new
    <2>3. \A other : other # s =>
              /\ other \in DOMAIN new.workflows <=> other \in DOMAIN state.workflows
              /\ other \in DOMAIN state.workflows =>
                    new.workflows[other] = state.workflows[other]
        BY <2>2 DEF With
    <2> QED
        BY <1>1, <1>2, <2>1, <2>2, <2>3 DEF EditOf, IsWritten
<1>10. CASE DeleteStrategy(s)
    <2>1. PICK gone : gone = IF s \in DOMAIN document.strategies
                             THEN state.deleted \cup {s} ELSE state.deleted
        OBVIOUS
    <2> DEFINE new == [state EXCEPT
                          !.workflows = Restrict(state.workflows, DOMAIN state.workflows \ {s}),
                          !.deleted = gone]
    <2>2. ApplyRouting(new, s)
        BY <1>2, <1>10, <2>1 DEF DeleteStrategy
    <2>3. /\ DOMAIN new = DOMAIN NoOverlay /\ new.version = 2
          /\ new.tags = state.tags /\ new.deleted = gone
          /\ new.workflows = Restrict(state.workflows, DOMAIN state.workflows \ {s})
        BY <1>3, <1>4
    <2> HIDE DEF new
    <2>4. \A other : other # s =>
              /\ other \in DOMAIN new.workflows <=> other \in DOMAIN state.workflows
              /\ other \in DOMAIN state.workflows =>
                    new.workflows[other] = state.workflows[other]
        BY <2>3 DEF Restrict
    <2> QED
        BY <1>1, <1>2, <2>1, <2>2, <2>3, <2>4 DEF EditOf, IsWritten
<1> QED
    BY <1>5, <1>6, <1>7, <1>8, <1>9, <1>10

\* An edit of the overlay.
LEMMA ApplyStep ==
    ASSUME DocumentsInv, WriteAllowed, NEW candidate, IsWritten(candidate), NEW cleared,
           ApplyRouting(candidate, cleared)
    PROVE  DocumentsInv'
<1> DEFINE catalog == Effective(document, candidate, secrets)
<1>1. /\ catalog # Broken /\ RegistryBuilds(catalog) /\ overlay' = candidate
      /\ running' = catalog /\ stale' = stale \ {"catalog"}
      /\ UNCHANGED <<document, secrets, key, byHand>>
      /\ layout' = layout \/ layout' = WithoutStrategy(layout, cleared)
    BY DEF ApplyRouting, Prepared
<1>2. IsDocument(document)
    BY DEF DocumentsInv, FilesTyped
<1>3. OverlayIsShaped(candidate) /\ ReadOverlay(candidate) = candidate
      /\ Load(document, candidate, secrets) = catalog
    BY <1>1, <1>2, EffectiveIsLoaded
<1> HIDE DEF catalog
<1>4. FilesTyped'
    <2>1. IsLayout(layout')
        BY <1>1, ForgottenLayout DEF DocumentsInv, FilesTyped
    <2> QED
        BY <1>1, <1>3, <2>1 DEF DocumentsInv, FilesTyped, IsOverlay, IsWritten
<1>5. GatewayTyped' /\ RunsCurrent'
    <2>1. running # Off
        BY DEF WriteAllowed
    <2>2. catalog = Load(document, overlay, secrets)'
        BY <1>1, <1>3
    <2> QED
        BY <1>1, <1>4, <2>1, <2>2, EngineIsCurrent
<1>6. AlwaysLoads'
    <2>1. Effective(document, overlay, secrets)' = catalog
        BY <1>1 DEF catalog
    <2> QED
        BY <1>1, <2>1 DEF AlwaysLoads
<1> QED
    BY <1>4, <1>5, <1>6, WithinBudget DEF DocumentsInv, WriteAllowed

\* The edits of the routing overlay.
LEMMA RoutingStep ==
    ASSUME DocumentsInv, RoutingEdit
    PROVE  DocumentsInv'
<1>1. CASE WriteAllowed /\ \E candidate, cleared :
                 IsWritten(candidate) /\ ApplyRouting(candidate, cleared)
    BY <1>1, ApplyStep
<1>2. CASE ResetRouting
    <2>1. IsDocument(document) /\ document # Broken
        BY DEF DocumentsInv, FilesTyped, IsDocument, Broken
    <2> DEFINE catalog == CatalogFromDocument(document, secrets)
    <2>2. /\ catalog # Broken /\ RegistryBuilds(catalog) /\ overlay' = NoOverlay
          /\ running' = catalog /\ stale' = stale \ {"catalog"} /\ running # Off
          /\ UNCHANGED <<document, layout, secrets, key, byHand>>
        BY <1>2 DEF ResetRouting, Prepared, WriteAllowed
    <2>3. Effective(document, NoOverlay, secrets) = catalog /\ IsOverlay(NoOverlay)
        BY <2>1 DEF Effective, MergeOverlay, OverlayIsShaped, NoOverlay, ReadOverlay,
                    IsOverlay
    <2>4. Load(document, NoOverlay, secrets) = catalog
        BY <2>1, <2>2, <2>3, EffectiveIsLoaded
    <2> HIDE DEF catalog
    <2>5. FilesTyped'
        BY <2>2, <2>3 DEF DocumentsInv, FilesTyped
    <2>6. GatewayTyped' /\ RunsCurrent'
        <3>1. catalog = Load(document, overlay, secrets)'
            BY <2>2, <2>4
        <3> QED
            BY <2>2, <2>5, <3>1, EngineIsCurrent
    <2>7. AlwaysLoads'
        BY <2>2, <2>3 DEF AlwaysLoads
    <2> QED
        BY <1>2, <2>5, <2>6, <2>7, WithinBudget DEF DocumentsInv, ResetRouting, WriteAllowed
<1>3. ASSUME NEW s,
             \/ \E body \in Bodies : PutWorkflow(s, body)
             \/ \E rules \in Rules : PutWorkflowRules(s, rules)
             \/ CreateStrategy(s) \/ DeleteStrategy(s) \/ ResetStrategy(s)
      PROVE  DocumentsInv'
    <2>1. PICK candidate, cleared : EditOf(s, candidate, cleared)
        BY <1>3, EditsOneStrategy DEF DocumentsInv, FilesTyped
    <2> QED
        BY <1>1, <2>1 DEF EditOf
<1>4. ASSUME NEW s, NEW rules, PutRules(s, rules)
      PROVE  DocumentsInv'
    <2> DEFINE candidate == [NoOverlay EXCEPT !.version = 1, !.strategy = s,
                                !.choices = rules.choices, !.tags = rules.tags]
    <2>1. DOMAIN candidate = DOMAIN NoOverlay /\ candidate.version = 1
        BY DEF NoOverlay
    <2>2. WriteAllowed /\ ApplyRouting(candidate, None)
        BY <1>4 DEF PutRules
    <2> HIDE DEF candidate
    <2> QED
        BY <1>1, <2>1, <2>2 DEF IsWritten
<1>5. ASSUME NEW s,
             \/ \E body \in Bodies : PutWorkflow(s, body)
             \/ \E rules \in Rules : PutRules(s, rules) \/ PutWorkflowRules(s, rules)
             \/ CreateStrategy(s) \/ DeleteStrategy(s) \/ ResetStrategy(s)
      PROVE  DocumentsInv'
    <2>1. CASE \E rules \in Rules : PutRules(s, rules)
        BY <1>4, <2>1
    <2>2. CASE \E body \in Bodies : PutWorkflow(s, body)
        BY <1>3, <2>2
    <2>3. CASE \E rules \in Rules : PutWorkflowRules(s, rules)
        BY <1>3, <2>3
    <2>4. CASE CreateStrategy(s) \/ DeleteStrategy(s) \/ ResetStrategy(s)
        BY <1>3, <2>4
    <2> QED
        BY <1>5, <2>1, <2>2, <2>3, <2>4
<1> QED
    BY <1>2, <1>5 DEF RoutingEdit

\* The layout of the canvas is nothing a gateway runs on.
LEMMA LayoutStep ==
    ASSUME DocumentsInv, NEW selector, NEW nodes, WriteLayout(selector, nodes)
    PROVE  DocumentsInv'
<1>1. UNCHANGED <<document, overlay, secrets, running, key, stale, byHand>>
    BY DEF WriteLayout
<1>2. IsLayout(layout')
    <2> DEFINE s == IF selector = None THEN Legacy ELSE selector
               nodesNow == With(layout.nodes, s, nodes)
               version == IF selector = None THEN layout.version ELSE 2
    <2>1. layout' = [version |-> version, nodes |-> nodesNow]
        BY DEF WriteLayout
    <2>2. layout # Broken
        BY DEF WriteLayout
    <2>3. layout.version \in {1, 2} /\ (layout.version = 1 => DOMAIN layout.nodes \subseteq {Legacy})
        BY <2>2 DEF DocumentsInv, FilesTyped, IsLayout
    <2>4. DOMAIN nodesNow = {s} \cup DOMAIN layout.nodes
        BY DEF With
    <2>5. version \in {1, 2} /\ (version = 1 => DOMAIN nodesNow \subseteq {Legacy})
        <3> HIDE DEF nodesNow
        <3> QED
            BY <2>3, <2>4
    <2> HIDE DEF version, nodesNow
    <2> QED
        BY <2>1, <2>5 DEF IsLayout
<1>3. FilesTyped' /\ GatewayTyped' /\ RunsCurrent' /\ AlwaysLoads'
    BY <1>1, <1>2 DEF DocumentsInv, FilesTyped, GatewayTyped, RunsCurrent, AlwaysLoads
<1> QED
    BY <1>3, WithinBudget DEF DocumentsInv, WriteLayout, WriteAllowed

\* A catalog that a writer found valid, wrote and activated.
LEMMA WrittenAndLoaded ==
    ASSUME DocumentsInv, FilesTyped',
           Effective(document, overlay, secrets)' # Broken,
           RegistryBuilds(Effective(document, overlay, secrets))',
           Loaded(Effective(document, overlay, secrets)') \/ Untold
    PROVE  GatewayTyped' /\ RunsCurrent' /\ AlwaysLoads'
<1>1. AlwaysLoads'
    BY DEF AlwaysLoads
<1>2. CASE Untold
    BY <1>1, <1>2, UntoldIsStale DEF DocumentsInv
<1>3. CASE Loaded(Effective(document, overlay, secrets)')
    <2>1. Load(document, overlay, secrets)' = Effective(document, overlay, secrets)'
        BY EffectiveIsLoaded DEF FilesTyped
    <2> QED
        BY <1>1, <1>3, <2>1, Activated
<1> QED
    BY <1>2, <1>3

\* A command about providers and models.
LEMMA CommandStep ==
    ASSUME DocumentsInv, NEW operations \in Commands, Command(operations)
    PROVE  DocumentsInv'
<1> DEFINE candidate == Candidate(operations)
           catalog == Effective(candidate.document, overlay, candidate.secrets)
<1>1. /\ candidate # Broken /\ catalog # Broken /\ RegistryBuilds(catalog)
      /\ document' = candidate.document /\ secrets' = candidate.secrets
      /\ Loaded(catalog) /\ UNCHANGED <<overlay, layout, byHand>>
    BY DEF Command, Prepared
<1>2. CandidateIsSound(candidate)
    BY CandidatesAreSound DEF DocumentsInv, FilesTyped
<1> HIDE DEF candidate
<1>3. FilesTyped'
    BY <1>1, <1>2 DEF DocumentsInv, FilesTyped, CandidateIsSound
<1>4. Effective(document, overlay, secrets)' = catalog
    BY <1>1
<1> HIDE DEF catalog
<1> QED
    BY <1>1, <1>3, <1>4, WrittenAndLoaded, WithinBudget
       DEF DocumentsInv, Command, WriteAllowed

\* The key of the gateway, set by the dashboard or the command line.
LEMMA KeyStep ==
    ASSUME DocumentsInv, NEW value \in Secrets,
           GatewayCredential(value) \/ CommandLineSetup(value)
    PROVE  DocumentsInv'
<1>1. /\ SetGatewayKey(value) /\ Budget
      /\ Loaded(Effective(WithGatewayKey, overlay, secrets')) \/ Untold
    BY DEF GatewayCredential, CommandLineSetup
<1>2. /\ document' = WithGatewayKey
      /\ secrets' = WithSecret(secrets, GatewayKeyRef, "set", value)
      /\ Effective(WithGatewayKey, overlay, secrets') # Broken
      /\ RegistryBuilds(Effective(WithGatewayKey, overlay, secrets'))
      /\ UNCHANGED <<overlay, layout, byHand>>
    BY <1>1 DEF SetGatewayKey
<1>3. IsDocument(WithGatewayKey)
    <2>1. GatewayKeyRef \in DOMAIN External
        BY FilesAssumption DEF DocumentsInv, FilesTyped, IsDocument, GatewayKeyRef
    <2> QED
        BY <2>1 DEF DocumentsInv, FilesTyped, IsDocument, WithGatewayKey
<1>4. secrets' \in SecretFiles
    BY <1>2, SecretIsChanged DEF DocumentsInv, FilesTyped, IsUpdate
<1>5. FilesTyped'
    BY <1>2, <1>3, <1>4 DEF DocumentsInv, FilesTyped
<1>6. Effective(document, overlay, secrets)' = Effective(WithGatewayKey, overlay, secrets')
    BY <1>2
<1> QED
    BY <1>1, <1>2, <1>5, <1>6, WrittenAndLoaded, WithinBudget DEF DocumentsInv

\* A provider is added from the command line.
LEMMA AddStep ==
    ASSUME DocumentsInv, NEW addition \in Additions, AddProvider(addition)
    PROVE  DocumentsInv'
<1> DEFINE candidate == [document EXCEPT
                            !.providers = With(document.providers, addition.id, addition.entry),
                            !.models = addition.models @@ document.models]
           saved == IF addition.value = None THEN secrets
                    ELSE WithSecret(secrets, addition.entry.key, "set", addition.value)
           catalog == Effective(candidate, overlay, saved)
<1>1. /\ document' = candidate /\ secrets' = saved /\ Untold /\ Budget
      /\ catalog # Broken /\ RegistryBuilds(catalog)
      /\ UNCHANGED <<overlay, layout, byHand>>
    BY DEF AddProvider
<1>2. IsDocument(candidate)
    BY RestOfDocument DEF DocumentsInv, FilesTyped, IsDocument, SameRest
<1>3. saved \in SecretFiles
    BY SecretIsChanged, RequestsAssumption DEF DocumentsInv, FilesTyped, IsUpdate
<1> HIDE DEF candidate, saved
<1>4. FilesTyped'
    BY <1>1, <1>2, <1>3 DEF DocumentsInv, FilesTyped
<1>5. Effective(document, overlay, secrets)' = catalog
    BY <1>1
<1> HIDE DEF catalog
<1> QED
    BY <1>1, <1>4, <1>5, WrittenAndLoaded, WithinBudget DEF DocumentsInv

\* The removal of models keeps the shape of an overlay.
LEMMA ReconciledOverlay ==
    ASSUME IsOverlay(overlay), NEW removed
    PROVE  /\ DOMAIN Reconcile(overlay, removed) = DOMAIN overlay
           /\ overlay = NoOverlay => Reconcile(overlay, removed) = NoOverlay
           /\ Reconcile(overlay, removed).version = overlay.version
<1> DEFINE tags == Restrict(overlay.tags, DOMAIN overlay.tags \ removed)
           workflows == [s \in DOMAIN overlay.workflows |->
                            WorkflowWithout(overlay.workflows[s], removed)]
<1>1. Reconcile(overlay, removed) = [overlay EXCEPT !.tags = tags, !.workflows = workflows]
    BY DEF Reconcile
<1>2. DOMAIN overlay = {"version", "strategy", "choices", "workflows", "deleted", "tags"}
    BY DEF IsOverlay, NoOverlay
<1>3. overlay = NoOverlay => tags = <<>> /\ workflows = <<>>
    BY DEF NoOverlay, Restrict
<1> HIDE DEF tags, workflows
<1>4. overlay = NoOverlay => Reconcile(overlay, removed) = NoOverlay
    <2> SUFFICES ASSUME overlay = NoOverlay
                 PROVE  [overlay EXCEPT !.tags = tags, !.workflows = workflows] = overlay
        BY <1>1
    <2>1. tags = overlay.tags /\ workflows = overlay.workflows
        BY <1>3 DEF NoOverlay
    <2>2. overlay = [x \in DOMAIN overlay |-> overlay[x]]
        BY DEF NoOverlay
    <2> QED
        BY <2>1, <2>2
<1> QED
    BY <1>1, <1>2, <1>4

\* A provider is removed from the command line, with its models everywhere.
LEMMA RemoveStep ==
    ASSUME DocumentsInv, NEW p, RemoveProvider(p)
    PROVE  DocumentsInv'
<1> DEFINE owned == {m \in DOMAIN document.models : document.models[m].provider = p}
           candidate == [document EXCEPT
                            !.providers = Restrict(document.providers, DOMAIN document.providers \ {p}),
                            !.models = Restrict(document.models, DOMAIN document.models \ owned)]
           reconciled == Reconcile(overlay, owned)
           catalog == Effective(candidate, reconciled, secrets)
           nodes == [s \in DOMAIN layout.nodes |-> layout.nodes[s] \ owned]
<1>1. /\ document' = candidate /\ overlay' = reconciled /\ Untold /\ Budget
      /\ layout # Broken /\ layout' = [layout EXCEPT !.nodes = nodes]
      /\ catalog # Broken /\ RegistryBuilds(catalog)
      /\ UNCHANGED <<secrets, byHand>>
    BY DEF RemoveProvider
<1>2. IsDocument(candidate)
    BY RestOfDocument DEF DocumentsInv, FilesTyped, IsDocument, SameRest
<1>3. IsOverlay(reconciled)
    <2>1. OverlayIsShaped(reconciled) /\ ReadOverlay(reconciled) = reconciled
        <3> HIDE DEF candidate, reconciled
        <3> QED
            BY <1>1, <1>2, EffectiveIsLoaded
    <2>2. /\ DOMAIN reconciled = DOMAIN overlay
          /\ overlay = NoOverlay => reconciled = NoOverlay
          /\ reconciled.version = overlay.version
        BY ReconciledOverlay DEF DocumentsInv, FilesTyped
    <2> HIDE DEF reconciled
    <2> QED
        BY <2>1, <2>2 DEF IsOverlay, DocumentsInv, FilesTyped
<1> HIDE DEF candidate, reconciled
<1>4. IsLayout(layout')
    <2>1. DOMAIN nodes = DOMAIN layout.nodes
        OBVIOUS
    <2> HIDE DEF nodes
    <2> QED
        BY <1>1, <2>1 DEF DocumentsInv, FilesTyped, IsLayout
<1>5. FilesTyped'
    BY <1>1, <1>2, <1>3, <1>4 DEF DocumentsInv, FilesTyped
<1>6. Effective(document, overlay, secrets)' = catalog
    BY <1>1
<1> HIDE DEF catalog
<1> QED
    BY <1>1, <1>5, <1>6, WrittenAndLoaded, WithinBudget DEF DocumentsInv

\* A credential is saved or cleared from the command line, unchecked but for
\* who else uses it: so it is not the gateway's.
LEMMA SecretStep ==
    ASSUME DocumentsInv, NEW p, NEW action \in {"set", "clear"}, NEW value,
           IsUpdate(action, value), SaveSecret(p, action, value)
    PROVE  DocumentsInv'
<1> DEFINE ref == SecretName(p)
<1>1. /\ Budget /\ Untold /\ ~Shared(document, ref, <<"llm", p>>)
      /\ secrets' = WithSecret(secrets, ref, action, value)
      /\ UNCHANGED <<document, overlay, layout, byHand>>
    BY DEF SaveSecret
<1> HIDE DEF ref
<1>2. document.gateway.key # ref
    <2>1. <<<<"gateway">>, document.gateway.key>> \in Uses(document)
        BY DEF Uses
    <2>2. <<"gateway">> # <<"llm", p>>
        OBVIOUS
    <2> QED
        BY <1>1, <2>1, <2>2 DEF Shared
<1>3. /\ secrets' \in SecretFiles
      /\ \A r \in DOMAIN External : r # ref => secrets'[r] = secrets[r]
    BY <1>1, SecretIsChanged DEF DocumentsInv, FilesTyped
<1>4. FilesTyped'
    BY <1>1, <1>3 DEF DocumentsInv, FilesTyped
<1>5. AlwaysLoads'
    <2> SUFFICES ASSUME ~byHand
                 PROVE  /\ Effective(document, overlay, secrets') # Broken
                        /\ RegistryBuilds(Effective(document, overlay, secrets'))
        BY <1>1 DEF AlwaysLoads
    <2>1. document.gateway.key # None =>
              Resolve(secrets', document.gateway.key) = Resolve(secrets, document.gateway.key)
        BY <1>2, <1>3 DEF DocumentsInv, FilesTyped, IsDocument, Resolve
    <2>2. /\ Effective(document, overlay, secrets) # Broken
          /\ RegistryBuilds(Effective(document, overlay, secrets))
        BY DEF DocumentsInv, AlwaysLoads
    <2> QED
        BY <2>1, <2>2, OtherSecrets DEF DocumentsInv, FilesTyped
<1> QED
    BY <1>1, <1>4, <1>5, UntoldIsStale, WithinBudget DEF DocumentsInv

\* The operator's editor.
LEMMA HandStep ==
    ASSUME DocumentsInv, HandEdit
    PROVE  DocumentsInv'
<1>1. FilesTyped'
    BY FilesAssumption DEF HandEdit, DocumentsInv, FilesTyped
<1>2. AlwaysLoads'
    BY DEF HandEdit, AlwaysLoads
<1> QED
    BY <1>1, <1>2, UntoldIsStale, WithinBudget DEF HandEdit, DocumentsInv

\* The first files are sound, and no gateway runs.
LEMMA DocumentsInit == Init => DocumentsInv
    BY FilesAssumption
       DEF Init, DocumentsInv, FilesTyped, GatewayTyped, RunsCurrent, AlwaysLoads,
           ReadOverlay, OverlayIsShaped, Off, Broken

\* Every step keeps the invariant.
LEMMA DocumentsStep == DocumentsInv /\ [Next]_vars => DocumentsInv'
<1> SUFFICES ASSUME DocumentsInv, [Next]_vars
             PROVE  DocumentsInv'
    OBVIOUS
<1>1. CASE UNCHANGED vars
    BY <1>1 DEF vars, DocumentsInv, FilesTyped, GatewayTyped, RunsCurrent, AlwaysLoads
<1>2. ASSUME NEW p, NEW value \in Secrets, Login(p, value)
      PROVE  DocumentsInv'
    BY <1>2, SecretStep DEF Login, IsUpdate
<1>3. ASSUME NEW p, Logout(p)
      PROVE  DocumentsInv'
    BY <1>3, SecretStep DEF Logout, IsUpdate
<1>4. ASSUME NEW value \in Secrets,
             GatewayCredential(value) \/ SetupKey(value) \/ CommandLineSetup(value)
      PROVE  DocumentsInv'
    BY <1>4, KeyStep DEF SetupKey
<1> QED
    BY <1>1, <1>2, <1>3, <1>4, LoadStep, StopStep, RoutingStep, LayoutStep, CommandStep,
       RemoveStep, AddStep, HandStep DEF Next

\* The invariant of the configuration.
LEMMA DocumentsAreSound == Spec => []DocumentsInv
    BY DocumentsInit, DocumentsStep, PTL DEF Spec

-----------------------------------------------------------------------------
(* What an edit of one strategy does to the others. *)

\* The fields of a strategy.
Fields == {"kind", "labels", "selected", "choices", "decision", "valid"}

\* What a strategy inherits it inherits once: to parse it again changes nothing.
LEMMA ParsedAgain ==
    ASSUME NEW body, NEW base, NEW inherited, DOMAIN body = Fields,
           PolicyFromDict(body, base, inherited) # Broken,
           PolicyFromDict(PolicyFromDict(body, base, inherited), base, inherited) # Broken
    PROVE  PolicyFromDict(PolicyFromDict(body, base, inherited), base, inherited) =
               PolicyFromDict(body, base, inherited)
<1> DEFINE selected == IF body.selected = None /\ base # None THEN base.selected
                       ELSE body.selected
           labels == [label \in DOMAIN base.labels |->
                         IF base.labels[label].models = None /\ base.labels[label].tag = None
                         THEN [base.labels[label] EXCEPT !.tag = <<inherited, label>>]
                         ELSE base.labels[label]]
           parsed == PolicyFromDict(body, base, inherited)
           again == IF parsed.selected = None /\ base # None THEN base.selected
                    ELSE parsed.selected
<1>1. \/ body.labels # None /\ parsed = [body EXCEPT !.selected = selected]
      \/ base # None /\ parsed = [body EXCEPT !.labels = labels, !.selected = selected]
    BY DEF PolicyFromDict
<1>2. PolicyFromDict(parsed, base, inherited) =
          IF parsed.labels # None THEN [parsed EXCEPT !.selected = again]
          ELSE [parsed EXCEPT !.labels = labels, !.selected = again]
    BY DEF PolicyFromDict
<1> HIDE DEF labels, parsed
<1>3. parsed.selected = selected /\ DOMAIN parsed = Fields
    BY <1>1 DEF Fields
<1>4. again = parsed.selected
    BY <1>3
<1>5. parsed.labels = None => parsed.labels = labels
    BY <1>1 DEF Fields
<1>6. parsed = [x \in DOMAIN parsed |-> parsed[x]]
    BY <1>1
<1>7. [parsed EXCEPT !.selected = again] = parsed
    BY <1>4, <1>6
<1>8. parsed.labels = labels => [parsed EXCEPT !.labels = labels, !.selected = again] = parsed
    BY <1>4, <1>6
<1> HIDE DEF again
<1> QED
    BY <1>2, <1>5, <1>7, <1>8 DEF parsed

\* Strategies with the same fields are the same.
LEMMA SameBodies ==
    ASSUME NEW body, NEW same, IsBody(body), IsBody(same),
           \A f \in Fields : body[f] = same[f], NEW base, NEW inherited
    PROVE  PolicyFromDict(body, base, inherited) = PolicyFromDict(same, base, inherited)
<1> DEFINE labels == [label \in DOMAIN base.labels |->
                         IF base.labels[label].models = None /\ base.labels[label].tag = None
                         THEN [base.labels[label] EXCEPT !.tag = <<inherited, label>>]
                         ELSE base.labels[label]]
           selected(b) == IF b.selected = None /\ base # None THEN base.selected
                          ELSE b.selected
           Parsed(b) ==
              IF b.labels # None
              THEN IF LabelsParse(b.labels, selected(b))
                   THEN [b EXCEPT !.selected = selected(b)] ELSE Broken
              ELSE IF base = None THEN Broken
              ELSE [b EXCEPT !.labels = labels, !.selected = selected(b)]
<1>1. /\ PolicyFromDict(body, base, inherited) = Parsed(body)
      /\ PolicyFromDict(same, base, inherited) = Parsed(same)
    BY DEF PolicyFromDict
<1> HIDE DEF labels
<1>2. body.labels = same.labels /\ selected(body) = selected(same)
    BY DEF Fields
<1>3. DOMAIN body = Fields /\ DOMAIN same = Fields
    BY DEF IsBody, Fields
<1>4. ASSUME NEW x
      PROVE  [body EXCEPT !.selected = x] = [same EXCEPT !.selected = x]
    BY <1>3
<1>5. ASSUME NEW x
      PROVE  [body EXCEPT !.labels = labels, !.selected = x] =
             [same EXCEPT !.labels = labels, !.selected = x]
    BY <1>3
<1>6. PICK x : x = selected(body)
    OBVIOUS
<1>7. LabelsParse(body.labels, x) <=> LabelsParse(same.labels, x)
    BY <1>2
<1> HIDE DEF selected
<1>8. selected(same) = x
    BY <1>2, <1>6
<1>9. /\ [body EXCEPT !.selected = x] = [same EXCEPT !.selected = x]
      /\ [body EXCEPT !.labels = labels, !.selected = x] =
         [same EXCEPT !.labels = labels, !.selected = x]
    BY <1>4, <1>5
<1>10. ASSUME body.labels # None
       PROVE  Parsed(body) = Parsed(same)
    BY <1>2, <1>6, <1>7, <1>8, <1>9, <1>10
<1>11. ASSUME body.labels = None
       PROVE  Parsed(body) = Parsed(same)
    BY <1>2, <1>6, <1>8, <1>9, <1>11
<1> HIDE DEF Parsed
<1> QED
    BY <1>1, <1>10, <1>11

\* What parsing keeps of a strategy, and the shape of what it makes of it.
LEMMA ParsedKeeps ==
    ASSUME NEW body, NEW base, NEW inherited, IsBody(body),
           base # None => HasRoutes(base.labels),
           PolicyFromDict(body, base, inherited) # Broken
    PROVE  /\ DOMAIN PolicyFromDict(body, base, inherited) = Fields
           /\ PolicyFromDict(body, base, inherited).kind = body.kind
           /\ PolicyFromDict(body, base, inherited).choices = body.choices
           /\ HasRoutes(PolicyFromDict(body, base, inherited).labels)
<1> DEFINE selected == IF body.selected = None /\ base # None THEN base.selected
                       ELSE body.selected
           labels == [label \in DOMAIN base.labels |->
                         IF base.labels[label].models = None /\ base.labels[label].tag = None
                         THEN [base.labels[label] EXCEPT !.tag = <<inherited, label>>]
                         ELSE base.labels[label]]
           parsed == PolicyFromDict(body, base, inherited)
<1>1. \/ body.labels # None /\ parsed = [body EXCEPT !.selected = selected]
      \/ base # None /\ parsed = [body EXCEPT !.labels = labels, !.selected = selected]
    BY DEF PolicyFromDict
<1>2. base # None => HasRoutes(labels)
    BY DEF HasRoutes
<1> HIDE DEF labels, parsed, selected
<1>3. DOMAIN body = Fields /\ (body.labels # None => HasRoutes(body.labels))
    BY DEF IsBody, Fields
<1>4. /\ DOMAIN parsed = Fields /\ parsed.kind = body.kind
      /\ parsed.choices = body.choices
      /\ \/ parsed.labels = body.labels /\ body.labels # None
         \/ parsed.labels = labels /\ base # None
    BY <1>1, <1>3 DEF Fields
<1> QED
    BY <1>2, <1>3, <1>4 DEF parsed

\* The models of a catalog, with the tags of an overlay.
Profiles(models, tags) ==
    [m \in DOMAIN models |-> ProfileFromDict(Override(models, tags)[m])]

\* The strategies of a document, each with what it inherits.
LEMMA StrategiesAre ==
    ASSUME NEW d, StrategiesFromDocument(d) # Broken
    PROVE  /\ DOMAIN StrategiesFromDocument(d) = DOMAIN d.strategies
           /\ \A x \in DOMAIN d.strategies :
                 /\ StrategiesFromDocument(d)[x] =
                        PolicyFromDict(d.strategies[x], d.policy, d.default)
                 /\ StrategiesFromDocument(d)[x] # Broken
<1> DEFINE parsed == [x \in DOMAIN d.strategies |->
                         PolicyFromDict(d.strategies[x], d.policy, d.default)]
<1>1. StrategiesFromDocument(d) = parsed /\ Broken \notin {parsed[x] : x \in DOMAIN parsed}
    BY DEF StrategiesFromDocument
<1>2. \A x \in DOMAIN parsed : parsed[x] # Broken
    BY <1>1
<1> QED
    BY <1>1, <1>2

\* The strategies and the models of a catalog.
LEMMA CatalogParts ==
    ASSUME NEW d, NEW s, CatalogFromDocument(d, s) # Broken
    PROVE  /\ DOMAIN CatalogFromDocument(d, s).strategies = DOMAIN d.strategies
           /\ \A x \in DOMAIN d.strategies :
                 /\ CatalogFromDocument(d, s).strategies[x] =
                        PolicyFromDict(d.strategies[x], d.policy, d.default)
                 /\ CatalogFromDocument(d, s).strategies[x] # Broken
           /\ CatalogFromDocument(d, s).models =
                 [m \in DOMAIN d.models |-> ProfileFromDict(d.models[m])]
<1>1. /\ StrategiesFromDocument(d) # Broken
      /\ CatalogFromDocument(d, s).strategies = StrategiesFromDocument(d)
    BY CatalogOf DEF CatalogFromDocument
<1>2. CatalogFromDocument(d, s).models =
          [m \in DOMAIN d.models |-> ProfileFromDict(d.models[m])]
    BY DEF CatalogFromDocument
<1> QED
    BY <1>1, <1>2, StrategiesAre

\* The catalog under an overlay of workflows.
LEMMA WithWorkflows ==
    ASSUME NEW d, IsDocument(d), NEW o, o.version = 2, NEW s, Effective(d, o, s) # Broken
    PROVE  /\ DOMAIN Effective(d, o, s).strategies =
                  (DOMAIN d.strategies \ o.deleted) \cup DOMAIN o.workflows
           /\ \A x \in DOMAIN d.strategies :
                  PolicyFromDict(d.strategies[x], d.policy, d.default) # Broken
           /\ \A x \in DOMAIN Effective(d, o, s).strategies :
                  /\ Effective(d, o, s).strategies[x] # Broken
                  /\ Effective(d, o, s).strategies[x] =
                        PolicyFromDict(
                            IF x \in DOMAIN o.workflows THEN o.workflows[x]
                            ELSE PolicyFromDict(d.strategies[x], d.policy, d.default),
                            d.policy, d.default)
           /\ Effective(d, o, s).models = Profiles(d.models, o.tags)
           /\ \A x \in DOMAIN o.workflows : WorkflowIsShaped(o.workflows[x])
<1> DEFINE parsed == StrategiesFromDocument(d)
           strategies == [x \in (DOMAIN parsed \ o.deleted) \cup DOMAIN o.workflows |->
                             IF x \in DOMAIN o.workflows THEN o.workflows[x] ELSE parsed[x]]
           models == Override(d.models, o.tags)
           merged == [d EXCEPT !.strategies = strategies, !.compact = FALSE, !.models = models]
<1>1. /\ MergeOverlay(d, o) # Broken
      /\ Effective(d, o, s) = CatalogFromDocument(MergeOverlay(d, o), s)
    BY DEF Effective
<1>2. OverlayIsShaped(o) /\ MergeOverlay(d, o) = MergeWorkflows(d, o)
    BY <1>1 DEF MergeOverlay
<1>3. parsed # Broken /\ MergeWorkflows(d, o) = merged
    BY <1>1, <1>2 DEF MergeWorkflows
<1>4. /\ DOMAIN parsed = DOMAIN d.strategies
      /\ \A x \in DOMAIN d.strategies :
            /\ parsed[x] = PolicyFromDict(d.strategies[x], d.policy, d.default)
            /\ parsed[x] # Broken
    BY <1>3, StrategiesAre
<1>5. \A x \in DOMAIN o.workflows : WorkflowIsShaped(o.workflows[x])
    BY <1>2 DEF OverlayIsShaped
<1> HIDE DEF parsed
<1>6. /\ DOMAIN strategies = (DOMAIN d.strategies \ o.deleted) \cup DOMAIN o.workflows
      /\ \A x \in DOMAIN strategies : strategies[x] =
            IF x \in DOMAIN o.workflows THEN o.workflows[x]
            ELSE PolicyFromDict(d.strategies[x], d.policy, d.default)
    BY <1>4
<1>7. DOMAIN models = DOMAIN d.models
    BY DEF Override
<1> HIDE DEF strategies, models
<1>8. /\ merged.strategies = strategies /\ merged.models = models
      /\ merged.policy = d.policy /\ merged.default = d.default
    BY DEF IsDocument
<1> HIDE DEF merged
<1>9. Effective(d, o, s) = CatalogFromDocument(merged, s)
    BY <1>1, <1>2, <1>3
<1>10. /\ DOMAIN Effective(d, o, s).strategies = DOMAIN strategies
       /\ \A x \in DOMAIN strategies :
             /\ Effective(d, o, s).strategies[x] =
                    PolicyFromDict(strategies[x], d.policy, d.default)
             /\ Effective(d, o, s).strategies[x] # Broken
       /\ Effective(d, o, s).models = [m \in DOMAIN models |-> ProfileFromDict(models[m])]
    BY <1>8, <1>9, CatalogParts
<1>11. Effective(d, o, s).models = Profiles(d.models, o.tags)
    BY <1>7, <1>10 DEF Profiles, models
<1> QED
    BY <1>4, <1>5, <1>6, <1>10, <1>11

\* The catalog under an overlay of version 1 or without one: rules of one strategy
\* and tags may differ from the document's.
LEMMA WithRules ==
    ASSUME NEW d, IsDocument(d), NEW o, IsOverlay(o), o.version \in {0, 1}, NEW s,
           Effective(d, o, s) # Broken
    PROVE  /\ DOMAIN Effective(d, o, s).strategies = DOMAIN d.strategies
           /\ \A x \in DOMAIN d.strategies :
                 LET definition == Effective(d, o, s).strategies[x]
                 IN  /\ definition # Broken /\ DOMAIN definition = Fields
                     /\ HasRoutes(definition.labels)
                     /\ (\/ definition.kind # "decision_matrix"
                         \/ o.version = 0 \/ x # o.strategy) =>
                           definition = PolicyFromDict(d.strategies[x], d.policy, d.default)
           /\ Effective(d, o, s).models = Profiles(d.models, o.tags)
<1>1. /\ MergeOverlay(d, o) # Broken
      /\ Effective(d, o, s) = CatalogFromDocument(MergeOverlay(d, o), s)
    BY DEF Effective
<1> DEFINE Bodies1(m) ==
              /\ DOMAIN m.strategies = DOMAIN d.strategies
              /\ \A x \in DOMAIN d.strategies :
                    /\ IsBody(m.strategies[x])
                    /\ (\/ m.strategies[x].kind # "decision_matrix"
                        \/ o.version = 0 \/ x # o.strategy) =>
                          \A f \in Fields : m.strategies[x][f] = d.strategies[x][f]
              /\ m.policy = d.policy /\ m.default = d.default
              /\ DOMAIN m.models = DOMAIN d.models
              /\ \A y \in DOMAIN d.models : m.models[y] = Override(d.models, o.tags)[y]
<1>2. PICK merged : merged = MergeOverlay(d, o) /\ Bodies1(merged)
    <2>1. CASE o.version = 0
        <3>1. o = NoOverlay
            BY <2>1 DEF IsOverlay
        <3>2. DOMAIN o.tags = {}
            BY <3>1 DEF NoOverlay
        <3>3. MergeOverlay(d, o) = d
            BY <1>1, <2>1 DEF MergeOverlay
        <3> QED
            BY <3>2, <3>3 DEF IsDocument, Override
    <2>2. CASE o.version = 1
        <3>1. PICK x : x = o.strategy
            OBVIOUS
        <3>2. PICK choices :
                  choices = IF o.choices = None THEN d.strategies[x].choices ELSE o.choices
            OBVIOUS
        <3> DEFINE body == [d.strategies[x] EXCEPT !.choices = choices]
                   strategies == [d.strategies EXCEPT ![x] = body]
                   models == Override(d.models, o.tags)
                   merged == [d EXCEPT !.strategies = strategies, !.models = models]
        <3>3. MergeOverlay(d, o) = MergeRules(d, o)
            BY <1>1, <2>2 DEF MergeOverlay
        <3>4. /\ x \in DOMAIN d.strategies
              /\ ~(o.choices # None /\ d.strategies[x].choices = None)
            BY <1>1, <3>1, <3>3 DEF MergeRules
        <3>5. MergeRules(d, o) =
                  [d EXCEPT !.strategies[x].choices = choices, !.models = models]
            BY <1>1, <3>1, <3>2, <3>3 DEF MergeRules
        <3>6. MergeOverlay(d, o) = merged
            BY <3>3, <3>5
        <3>7. IsBody(d.strategies[x])
            BY <3>4 DEF IsDocument
        <3>8. /\ IsBody(body) /\ body.kind = d.strategies[x].kind
              /\ body.kind # "decision_matrix" =>
                    \A f \in Fields : body[f] = d.strategies[x][f]
            <4>1. /\ DOMAIN body = Fields /\ body.kind = d.strategies[x].kind
                  /\ body.labels = d.strategies[x].labels /\ body.choices = choices
                BY <3>7 DEF IsBody, Fields
            <4>2. body.kind # "decision_matrix" => choices = d.strategies[x].choices
                BY <3>2, <3>4, <3>7, <4>1 DEF IsBody
            <4>3. choices = d.strategies[x].choices =>
                      \A f \in Fields : body[f] = d.strategies[x][f]
                BY <4>1
            <4> HIDE DEF body
            <4> QED
                BY <3>7, <4>1, <4>2, <4>3 DEF IsBody, Fields
        <3> HIDE DEF body
        <3>9. /\ DOMAIN strategies = DOMAIN d.strategies
              /\ \A y \in DOMAIN d.strategies :
                    strategies[y] = IF y = x THEN body ELSE d.strategies[y]
            OBVIOUS
        <3>10. DOMAIN models = DOMAIN d.models
            BY DEF Override
        <3> HIDE DEF strategies
        <3>11. /\ merged.strategies = strategies /\ merged.models = models
               /\ merged.policy = d.policy /\ merged.default = d.default
            BY DEF IsDocument
        <3> HIDE DEF merged, models
        <3>12. Bodies1(merged)
            BY <2>2, <3>1, <3>8, <3>9, <3>10, <3>11 DEF IsDocument, models
        <3> QED
            BY <3>6, <3>12
    <2> QED
        BY <2>1, <2>2
<1>3. /\ DOMAIN Effective(d, o, s).strategies = DOMAIN d.strategies
      /\ \A x \in DOMAIN d.strategies :
            /\ Effective(d, o, s).strategies[x] =
                   PolicyFromDict(merged.strategies[x], d.policy, d.default)
            /\ Effective(d, o, s).strategies[x] # Broken
      /\ Effective(d, o, s).models =
            [m \in DOMAIN merged.models |-> ProfileFromDict(merged.models[m])]
    BY <1>1, <1>2, CatalogParts
<1>4. Effective(d, o, s).models = Profiles(d.models, o.tags)
    BY <1>2, <1>3 DEF Profiles
<1>5. ASSUME NEW x \in DOMAIN d.strategies
      PROVE  LET definition == Effective(d, o, s).strategies[x]
             IN  /\ definition # Broken /\ DOMAIN definition = Fields
                 /\ HasRoutes(definition.labels)
                 /\ (\/ definition.kind # "decision_matrix"
                     \/ o.version = 0 \/ x # o.strategy) =>
                       definition = PolicyFromDict(d.strategies[x], d.policy, d.default)
    <2>1. d.policy # None => HasRoutes(d.policy.labels)
        BY DEF IsDocument
    <2>2. IsBody(merged.strategies[x])
        BY <1>2
    <2>3. PolicyFromDict(merged.strategies[x], d.policy, d.default) # Broken
        BY <1>3
    <2>4. /\ DOMAIN PolicyFromDict(merged.strategies[x], d.policy, d.default) = Fields
          /\ PolicyFromDict(merged.strategies[x], d.policy, d.default).kind =
                merged.strategies[x].kind
          /\ HasRoutes(PolicyFromDict(merged.strategies[x], d.policy, d.default).labels)
        BY <2>1, <2>2, <2>3, ParsedKeeps
    <2>5. (\/ merged.strategies[x].kind # "decision_matrix"
           \/ o.version = 0 \/ x # o.strategy) =>
              PolicyFromDict(merged.strategies[x], d.policy, d.default) =
              PolicyFromDict(d.strategies[x], d.policy, d.default)
        BY <1>2, SameBodies DEF IsDocument
    <2> QED
        BY <1>2, <1>3, <2>4, <2>5
<1> QED
    BY <1>3, <1>4, <1>5

\* A strategy routes the same in two catalogs with the same models if it is the
\* same in both.
LEMMA SameRoutes ==
    ASSUME NEW c, NEW e, NEW x, c.strategies[x] = e.strategies[x], c.models = e.models
    PROVE  Routes(c, x) = Routes(e, x)
<1>1. \A label : Pool(c, x, label) = Pool(e, x, label)
    BY DEF Pool
<1>2. Allowed(c, x) = Allowed(e, x)
    BY DEF Allowed
<1> QED
    BY <1>1, <1>2 DEF Routes

\* What a strategy that selects nothing refers to is what its rules lead to.
LEMMA ReferencedIsLedTo ==
    ASSUME NEW c, NEW x, c.strategies[x].selected = None
    PROVE  ReferencedModels(x, c.strategies[x], c) = LedTo(c, x)
<1> DEFINE D == c.strategies[x]
           Of(label) == Members(x, label, D.labels[label], c.models)
           pools == Routes(c, x).pools
           members == [label \in Reached(D) |-> Of(label)]
           S == ReferencedModels(x, D, c)
<1>1. \A label : Pool(c, x, label) = Of(label)
    BY DEF Pool
<1>2. pools = [label \in DOMAIN D.labels |-> Pool(c, x, label)]
    BY DEF Routes
<1>3. \A label \in Reached(D) : pools[label] = members[label]
    <2> HIDE DEF pools, Of
    <2> QED
        BY <1>1, <1>2 DEF Reached
<1> HIDE DEF pools, Of
<1>4. S = (UNION {members[label] : label \in DOMAIN members})
             \cup (IF /\ c.defaultModel # None
                      /\ \E label \in DOMAIN members : members[label] = {}
                   THEN {c.defaultModel} ELSE {})
    BY DEF ReferencedModels, Of
<1>5. LedTo(c, x) = (UNION {pools[label] : label \in Reached(D)})
                       \cup {m \in {c.defaultModel} \ {None} :
                                \E label \in Reached(D) : pools[label] = {}}
    BY DEF LedTo, pools
<1>6. DOMAIN members = Reached(D)
    OBVIOUS
<1> HIDE DEF S, members, D
<1>7. UNION {members[label] : label \in DOMAIN members} =
      UNION {pools[label] : label \in Reached(D)}
    BY <1>3, <1>6
<1>8. (\E label \in DOMAIN members : members[label] = {}) <=>
      (\E label \in Reached(D) : pools[label] = {})
    BY <1>3, <1>6
<1> QED
    BY <1>4, <1>5, <1>7, <1>8 DEF S, D

\* Routes with other pools and another bound.
Rerouted(routes, allowed, pools) == [routes EXCEPT !.allowed = allowed, !.pools = pools]

\* They are the record with these two fields replaced.
LEMMA RoutesWith ==
    ASSUME NEW kind, NEW choices, NEW decision, NEW pools, NEW allowed,
           NEW before, NEW unbound, NEW r, NEW new,
           r = [kind |-> kind, choices |-> choices, decision |-> decision,
                pools |-> before, allowed |-> unbound],
           new = [kind |-> kind, choices |-> choices, decision |-> decision,
                  pools |-> pools, allowed |-> allowed]
    PROVE  new = Rerouted(r, allowed, pools)
<1> DEFINE changed == [r EXCEPT !.allowed = allowed, !.pools = pools]
           Parts == {"kind", "choices", "decision", "pools", "allowed"}
<1>1. DOMAIN new = Parts /\ DOMAIN changed = Parts
    OBVIOUS
<1>2. \A x \in Parts : new[x] = changed[x]
    <2>1. /\ new["kind"] = changed["kind"] /\ new["choices"] = changed["choices"]
          /\ new["decision"] = changed["decision"] /\ new["pools"] = changed["pools"]
          /\ new["allowed"] = changed["allowed"]
        OBVIOUS
    <2> HIDE DEF changed
    <2> QED
        BY <2>1
<1>3. new = [x \in DOMAIN new |-> new[x]]
    OBVIOUS
<1>4. changed = [x \in DOMAIN changed |-> changed[x]]
    OBVIOUS
<1> HIDE DEF changed, Parts
<1>5. new = [x \in Parts |-> new[x]]
    BY <1>1, <1>3
<1>6. changed = [x \in Parts |-> changed[x]]
    BY <1>1, <1>4
<1>7. [x \in Parts |-> new[x]] = [x \in Parts |-> changed[x]]
    BY <1>2
<1> QED
    BY <1>5, <1>6, <1>7 DEF changed, Rerouted

\* The routes of a strategy confined to what its rules lead to.
Confined(catalog, x) ==
    [Routes(catalog, x) EXCEPT
        !.allowed = LedTo(catalog, x),
        !.pools = [label \in DOMAIN @ |-> @[label] \cap LedTo(catalog, x)]]

\* A strategy written out as a workflow has the pools it had, as far as they are
\* selected: all of them if it had a selection, and else those its rules lead to.
LEMMA FrozenRoutes ==
    ASSUME NEW c, NEW x, DOMAIN c.strategies[x] = Fields, HasRoutes(c.strategies[x].labels),
           NEW e, e.strategies[x] = Frozen(x, c.strategies[x], c), e.models = c.models,
           e.strategies[x].selected # None
    PROVE  /\ c.strategies[x].selected # None => Routes(e, x) = Routes(c, x)
           /\ c.strategies[x].selected = None =>
                 Routes(e, x) = Confined(c, x)
<1> DEFINE D == c.strategies[x]
           F == e.strategies[x]
           S == ReferencedModels(x, D, c)
           labels == [label \in DOMAIN D.labels |-> RouteWithin(D.labels[label], S)]
           Of(label) == Members(x, label, D.labels[label], c.models)
<1>1. F = [D EXCEPT !.selected = S, !.labels = labels]
    BY DEF Frozen
<1> HIDE DEF S, labels
<1>2. /\ F.labels = labels /\ F.selected = S /\ F.kind = D.kind
      /\ F.choices = D.choices /\ F.decision = D.decision
    BY <1>1 DEF Fields
<1>3. S # None
    BY <1>2
<1>4. DOMAIN labels = DOMAIN D.labels
    BY DEF labels
<1> HIDE DEF F
<1>5. ASSUME NEW label \in DOMAIN D.labels
      PROVE  Pool(e, x, label) = {m \in Of(label) : m \in S}
    <2> DEFINE route == D.labels[label]
               cut == labels[label]
               CutOf == Members(x, label, cut, c.models)
    <2>1. cut = RouteWithin(route, S)
        BY DEF labels
    <2>2. ASSUME NEW m \in S
          PROVE  m \in CutOf <=> m \in Of(label)
        <3>1. CASE route.models = None
            BY <2>1, <3>1 DEF RouteWithin
        <3>2. CASE route.models # None
            <4>1. /\ cut.models = route.models \cap S /\ Of(label) = route.models
                BY <2>1, <3>2 DEF RouteWithin, HasRoutes, Members
            <4>2. route.models \cap S # None
                BY <3>2, FilesAssumption DEF HasRoutes
            <4> QED
                BY <4>1, <4>2 DEF Members
        <3> QED
            BY <3>1, <3>2
    <2>3. Pool(e, x, label) = {m \in CutOf : S = None \/ m \in S}
        BY <1>2 DEF Pool, F
    <2> HIDE DEF CutOf, Of
    <2> QED
        BY <1>3, <2>2, <2>3
<1>6. \A label : Pool(c, x, label) = {m \in Of(label) : D.selected = None \/ m \in D.selected}
    BY DEF Pool
<1> HIDE DEF Of
<1>7. PICK pools : pools = [label \in DOMAIN D.labels |-> Pool(e, x, label)]
    OBVIOUS
<1>8. Routes(e, x) = [kind |-> D.kind, choices |-> D.choices, decision |-> D.decision,
                      pools |-> pools, allowed |-> S]
    BY <1>2, <1>3, <1>4, <1>7 DEF Routes, Allowed, F
<1>9. PICK before : before = [label \in DOMAIN D.labels |-> Pool(c, x, label)]
    OBVIOUS
<1>10. PICK allowed : allowed = Allowed(c, x)
    OBVIOUS
<1>11. Routes(c, x) = [kind |-> D.kind, choices |-> D.choices, decision |-> D.decision,
                       pools |-> before, allowed |-> allowed]
    BY <1>9, <1>10 DEF Routes
<1>12. CASE D.selected # None
    <2>1. S = D.selected
        BY <1>12 DEF S, ReferencedModels
    <2>2. allowed = S
        BY <1>10, <1>12, <2>1 DEF Allowed
    <2>3. \A label \in DOMAIN D.labels : Pool(e, x, label) = Pool(c, x, label)
        BY <1>5, <1>6, <1>12, <2>1
    <2>4. pools = before
        BY <1>7, <1>9, <2>3
    <2> QED
        BY <1>8, <1>11, <1>12, <2>2, <2>4
<1>13. CASE D.selected = None
    <2>1. LedTo(c, x) = S
        BY <1>13, ReferencedIsLedTo DEF S
    <2>2. \A label \in DOMAIN D.labels : Pool(e, x, label) = Pool(c, x, label) \cap S
        BY <1>5, <1>6, <1>13
    <2>3. pools = [label \in DOMAIN before |-> before[label] \cap S]
        BY <1>7, <1>9, <2>2
    <2>4. Routes(c, x).pools = before
        BY <1>11
    <2>5. PICK r, new, selected : /\ r = Routes(c, x) /\ new = Routes(e, x)
                                  /\ selected = S
        OBVIOUS
    <2>6. PICK kind, choices, decision :
              kind = D.kind /\ choices = D.choices /\ decision = D.decision
        OBVIOUS
    <2>7. /\ new = [kind |-> kind, choices |-> choices, decision |-> decision,
                    pools |-> pools, allowed |-> selected]
          /\ r = [kind |-> kind, choices |-> choices, decision |-> decision,
                  pools |-> before, allowed |-> allowed]
        BY <1>8, <1>11, <2>5, <2>6
    <2>8. new = Rerouted(r, selected, pools)
        BY <2>7, RoutesWith
    <2> HIDE DEF S, D
    <2>9. pools = [label \in DOMAIN r.pools |-> r.pools[label] \cap LedTo(c, x)]
        BY <2>1, <2>3, <2>4, <2>5
    <2>10. Confined(c, x) = Rerouted(r, selected, pools)
        BY <2>1, <2>5, <2>9 DEF Confined, Rerouted
    <2> QED
        BY <1>13, <2>5, <2>8, <2>10 DEF D
<1> QED
    BY <1>12, <1>13

\* A workflow is parsed as it is.
LEMMA WorkflowParses ==
    ASSUME NEW body, WorkflowIsShaped(body), body = [x \in DOMAIN body |-> body[x]],
           NEW base, NEW inherited, PolicyFromDict(body, base, inherited) # Broken
    PROVE  PolicyFromDict(body, base, inherited) = body
<1>1. PolicyFromDict(body, base, inherited) = [body EXCEPT !.selected = body.selected]
    BY DEF PolicyFromDict, WorkflowIsShaped
<1> QED
    BY <1>1

\* An edit of one strategy leaves the others where they were, though the first one
\* writes every matrix out as a workflow.
LEMMA OthersKeepRouting ==
    ASSUME DocumentsInv, "catalog" \notin stale, NEW s, NEW candidate, NEW cleared,
           EditOf(s, candidate, cleared), NEW other, other # s
    PROVE  /\ other \in DOMAIN running.strategies <=> other \in DOMAIN running'.strategies
           /\ other \in DOMAIN running.strategies => LeftAlone(other)
           /\ running'.models = running.models
           /\ running'.defaultModel = running.defaultModel
           /\ running'.decision = running.decision
<1>1. PICK c : c = Effective(document, overlay, secrets)
    OBVIOUS
<1>2. PICK e : e = Effective(document, candidate, secrets)
    OBVIOUS
<1>3. c # Broken /\ WorkflowState = MigrateOverlay(overlay, c)
    BY <1>1 DEF EditOf, WorkflowState
<1>4. IsDocument(document) /\ IsOverlay(overlay)
    BY DEF DocumentsInv, FilesTyped
<1>5. running = c
    <2>1. running # Off
        BY DEF EditOf, WriteAllowed
    <2>2. running = Load(document, overlay, secrets)
        BY <2>1 DEF DocumentsInv, RunsCurrent
    <2> QED
        BY <1>1, <1>3, <1>4, <2>2, EffectiveIsLoaded
<1>6. e # Broken /\ running' = e
    BY <1>2 DEF EditOf, ApplyRouting, Prepared
<1>11. e.defaultModel = c.defaultModel /\ e.decision = c.decision
    BY <1>1, <1>2, <1>3, <1>4, <1>6, SharedSections
<1> DEFINE Parsed(x) == PolicyFromDict(document.strategies[x], document.policy,
                                       document.default)
           Again(body) == PolicyFromDict(body, document.policy, document.default)
           state == WorkflowState
<1>7. /\ DOMAIN e.strategies =
             (DOMAIN document.strategies \ candidate.deleted) \cup DOMAIN candidate.workflows
      /\ \A x \in DOMAIN document.strategies : Parsed(x) # Broken
      /\ \A x \in DOMAIN e.strategies :
            /\ e.strategies[x] # Broken
            /\ e.strategies[x] = Again(IF x \in DOMAIN candidate.workflows
                                       THEN candidate.workflows[x] ELSE Parsed(x))
      /\ e.models = Profiles(document.models, candidate.tags)
      /\ \A x \in DOMAIN candidate.workflows : WorkflowIsShaped(candidate.workflows[x])
    BY <1>2, <1>4, <1>6, WithWorkflows DEF EditOf
<1> HIDE DEF Parsed, Again, state
<1>8. /\ candidate.tags = state.tags
      /\ other \in candidate.deleted <=> other \in state.deleted
      /\ other \in DOMAIN candidate.workflows <=> other \in DOMAIN state.workflows
      /\ other \in DOMAIN candidate.workflows =>
            candidate.workflows[other] = state.workflows[other]
    BY DEF EditOf, state
<1>9. CASE overlay.version = 2
    <2>1. state = overlay
        BY <1>3, <1>9 DEF MigrateOverlay, state
    <2>2. /\ DOMAIN c.strategies =
                (DOMAIN document.strategies \ overlay.deleted) \cup DOMAIN overlay.workflows
          /\ \A x \in DOMAIN c.strategies :
                c.strategies[x] = Again(IF x \in DOMAIN overlay.workflows
                                        THEN overlay.workflows[x] ELSE Parsed(x))
          /\ c.models = Profiles(document.models, overlay.tags)
        BY <1>1, <1>3, <1>4, <1>9, WithWorkflows DEF Parsed, Again
    <2>3. other \in DOMAIN c.strategies <=> other \in DOMAIN e.strategies
        BY <1>7, <1>8, <2>1, <2>2
    <2>4. other \in DOMAIN c.strategies => c.strategies[other] = e.strategies[other]
        BY <1>7, <1>8, <2>1, <2>2, <2>3
    <2>5. c.models = e.models
        BY <1>7, <1>8, <2>1, <2>2
    <2>6. other \in DOMAIN c.strategies => Routes(e, other) = Routes(c, other)
        BY <2>4, <2>5, SameRoutes
    <2>7. other \in DOMAIN c.strategies => LeftAlone(other)
        BY <1>5, <1>6, <1>9, <2>6 DEF LeftAlone
    <2> QED
        BY <1>5, <1>6, <1>11, <2>3, <2>5, <2>7
<1>10. CASE overlay.version # 2
    <2>1. overlay.version \in {0, 1}
        BY <1>4, <1>10 DEF EditOf, OverlayReadable, IsOverlay, ReadOverlay, OverlayIsShaped
    <2>2. /\ DOMAIN c.strategies = DOMAIN document.strategies
          /\ \A x \in DOMAIN document.strategies :
                LET definition == c.strategies[x]
                IN  /\ definition # Broken /\ DOMAIN definition = Fields
                    /\ HasRoutes(definition.labels)
                    /\ definition.kind # "decision_matrix" => definition = Parsed(x)
          /\ c.models = Profiles(document.models, overlay.tags)
        BY <1>1, <1>3, <1>4, <2>1, WithRules DEF Parsed
    <2>3. /\ state.tags = overlay.tags /\ state.deleted = {}
          /\ DOMAIN state.workflows =
                {x \in DOMAIN c.strategies : c.strategies[x].kind = "decision_matrix"}
          /\ \A x \in DOMAIN state.workflows :
                state.workflows[x] = Frozen(x, c.strategies[x], c)
        BY <1>3, <1>10 DEF MigrateOverlay, state
    <2>4. other \in DOMAIN c.strategies <=> other \in DOMAIN e.strategies
        BY <1>7, <1>8, <2>2, <2>3
    <2>5. c.models = e.models
        BY <1>7, <1>8, <2>2, <2>3
    <2>6. CASE other \in DOMAIN c.strategies /\ c.strategies[other].kind = "decision_matrix"
        <3>1. other \in DOMAIN candidate.workflows
            BY <1>8, <2>3, <2>6
        <3>2. PICK body : body = candidate.workflows[other]
            OBVIOUS
        <3>3. body = Frozen(other, c.strategies[other], c)
            BY <1>8, <2>3, <3>1, <3>2
        <3>4. body = [x \in DOMAIN body |-> body[x]]
            BY <3>3 DEF Frozen
        <3>5. WorkflowIsShaped(body) /\ e.strategies[other] = Again(body) /\ Again(body) # Broken
            BY <1>7, <2>4, <2>6, <3>1, <3>2
        <3>6. e.strategies[other] = body
            BY <3>4, <3>5, WorkflowParses DEF Again
        <3>7. /\ c.strategies[other].selected # None => Routes(e, other) = Routes(c, other)
              /\ c.strategies[other].selected = None =>
                    Routes(e, other) = Confined(c, other)
            BY <2>2, <2>5, <2>6, <3>3, <3>5, <3>6, FrozenRoutes DEF WorkflowIsShaped
        <3>8. LeftAlone(other)
            BY <1>5, <1>6, <1>10, <2>6, <3>7 DEF LeftAlone, RoutesNarrowed, Confined
        <3> QED
            BY <1>5, <1>6, <1>11, <2>4, <2>5, <3>8
    <2>7. CASE other \in DOMAIN c.strategies /\ c.strategies[other].kind # "decision_matrix"
        <3>1. other \notin DOMAIN candidate.workflows /\ other \in DOMAIN document.strategies
            BY <1>8, <2>2, <2>3, <2>7
        <3>2. e.strategies[other] = Again(Parsed(other)) /\ e.strategies[other] # Broken
            BY <1>7, <2>4, <2>7, <3>1
        <3>3. c.strategies[other] = Parsed(other) /\ Parsed(other) # Broken
            BY <1>7, <2>2, <2>7, <3>1
        <3>4. DOMAIN document.strategies[other] = Fields
            BY <1>4, <3>1 DEF IsDocument, IsBody, Fields
        <3>5. Again(Parsed(other)) = Parsed(other)
            BY <3>2, <3>3, <3>4, ParsedAgain DEF Again, Parsed
        <3>6. Routes(e, other) = Routes(c, other)
            BY <2>5, <3>2, <3>3, <3>5, SameRoutes
        <3>7. LeftAlone(other)
            BY <1>5, <1>6, <2>7, <3>6 DEF LeftAlone
        <3> QED
            BY <1>5, <1>6, <1>11, <2>4, <2>5, <3>7
    <2> QED
        BY <1>5, <1>6, <1>11, <2>4, <2>5, <2>6, <2>7
<1> QED
    BY <1>9, <1>10

\* And its layout is left alone.
LEMMA OthersKeepLayout ==
    ASSUME NEW s, NEW candidate, NEW cleared, EditOf(s, candidate, cleared),
           NEW other, other # s, layout # Broken
    PROVE  LayoutOf(layout', other) = LayoutOf(layout, other)
<1>1. layout' = layout \/ layout' = WithoutStrategy(layout, s)
    BY DEF EditOf, ApplyRouting
<1>2. CASE layout' = WithoutStrategy(layout, s)
    <2>1. layout'.nodes = Restrict(layout.nodes, DOMAIN layout.nodes \ {s})
        BY <1>2 DEF WithoutStrategy
    <2> QED
        BY <2>1 DEF LayoutOf, Restrict
<1> QED
    BY <1>1, <1>2

\* A request of version 1 replaces the overlay: what is left of it is what the
\* document says, but for the strategy the rules are for.
LEMMA RulesReplaceOverlay ==
    ASSUME DocumentsInv, NEW s, NEW rules, PutRules(s, rules)
    PROVE  /\ DOMAIN running'.strategies = DOMAIN document.strategies
           /\ \A other \in DOMAIN document.strategies \ {s} :
                 running'.strategies[other] =
                     PolicyFromDict(document.strategies[other], document.policy,
                                    document.default)
           /\ layout' = layout
<1>1. PICK candidate : candidate = [NoOverlay EXCEPT !.version = 1, !.strategy = s,
                                                    !.choices = rules.choices,
                                                    !.tags = rules.tags]
    OBVIOUS
<1>2. ApplyRouting(candidate, None)
    BY <1>1 DEF PutRules
<1>3. /\ DOMAIN candidate = DOMAIN NoOverlay
      /\ candidate.version = 1 /\ candidate.strategy = s
    BY <1>1 DEF NoOverlay
<1>4. IsOverlay(candidate)
    BY <1>3 DEF IsOverlay, ReadOverlay, OverlayIsShaped
<1>5. PICK e : e = Effective(document, candidate, secrets)
    OBVIOUS
<1>6. e # Broken /\ running' = e /\ layout' = layout
    BY <1>2, <1>5 DEF ApplyRouting, Prepared
<1>7. IsDocument(document)
    BY DEF DocumentsInv, FilesTyped
<1>8. /\ DOMAIN e.strategies = DOMAIN document.strategies
      /\ \A x \in DOMAIN document.strategies :
            x # s => e.strategies[x] =
                PolicyFromDict(document.strategies[x], document.policy, document.default)
    BY <1>3, <1>4, <1>5, <1>6, <1>7, WithRules
<1> QED
    BY <1>6, <1>8

-----------------------------------------------------------------------------
(* Credentials. *)

\* The entries that use a credential.
Users(d, ref) == {Entry(use[1]) : use \in {u \in Uses(d) : u[2] = ref}}

\* A set without two different members.
LEMMA AtMostOne ==
    ASSUME NEW S, NEW e, S \subseteq {e}
    PROVE  Cardinality(S) <= 1
<1>1. IsFiniteSet({e}) /\ Cardinality({e}) = 1
    BY FS_Singleton
<1>2. Cardinality(S) <= Cardinality({e}) /\ Cardinality(S) \in Nat
    BY <1>1, FS_Subset, FS_CardinalityType
<1> QED
    BY <1>1, <1>2

\* A credential that nobody else uses is used by one entry.
LEMMA NotShared ==
    ASSUME NEW d, NEW ref, NEW owner, ~Shared(d, ref, owner)
    PROVE  Cardinality(Users(d, ref)) <= 1
<1>1. \A use \in Uses(d) : use[2] = ref => use[1] = owner
    BY DEF Shared
<1>2. Users(d, ref) \subseteq {Entry(owner)}
    BY <1>1 DEF Users
<1> QED
    BY <1>2, AtMostOne

\* Who uses a credential.
LEMMA UsesOf ==
    ASSUME NEW d, NEW use
    PROVE  use \in Uses(d) <=>
              \/ use = <<<<"gateway">>, d.gateway.key>>
              \/ \E p \in DOMAIN d.providers : use = <<<<"llm", p>>, d.providers[p].key>>
              \/ \E p \in DOMAIN d.providers : \E b \in DOMAIN d.providers[p].bindings :
                    use = <<<<"llm", p, b>>, d.providers[p].bindings[b]>>
              \/ \E p \in DOMAIN d.decision.providers :
                    use = <<<<"decision", p>>, d.decision.providers[p].key>>
<1> DEFINE Keys == {<<<<"llm", p>>, d.providers[p].key>> : p \in DOMAIN d.providers}
           Of(p) == {<<<<"llm", p, b>>, d.providers[p].bindings[b]>> :
                        b \in DOMAIN d.providers[p].bindings}
           Parameters == UNION {Of(p) : p \in DOMAIN d.providers}
           Decisions == {<<<<"decision", p>>, d.decision.providers[p].key>> :
                            p \in DOMAIN d.decision.providers}
<1>1. Uses(d) = {<<<<"gateway">>, d.gateway.key>>} \cup Keys \cup Parameters \cup Decisions
    BY Zenon DEF Uses
<1>2. use \in Keys <=>
          \E p \in DOMAIN d.providers : use = <<<<"llm", p>>, d.providers[p].key>>
    OBVIOUS
<1>3. use \in Decisions <=>
          \E p \in DOMAIN d.decision.providers :
              use = <<<<"decision", p>>, d.decision.providers[p].key>>
    OBVIOUS
<1>4. use \in Parameters <=> \E p \in DOMAIN d.providers : use \in Of(p)
    <2> HIDE DEF Of
    <2> QED
        BY Zenon
<1>5. ASSUME NEW p
      PROVE  use \in Of(p) <=> \E b \in DOMAIN d.providers[p].bindings :
                 use = <<<<"llm", p, b>>, d.providers[p].bindings[b]>>
    OBVIOUS
<1> HIDE DEF Keys, Of, Parameters, Decisions
<1> QED
    BY <1>1, <1>2, <1>3, <1>4, <1>5

\* A provider and its parameters are one entry.
LEMMA ProviderOwnsParameters ==
    ASSUME NEW p, NEW b
    PROVE  Entry(<<"llm", p, b>>) = Entry(<<"llm", p>>)
    BY DEF Entry

\* What the key of the gateway gets for a name is used by nothing else.
LEMMA KeyIsolated ==
    ASSUME DocumentsInv, NEW value \in Secrets, SetGatewayKey(value),
           NEW ref \in DOMAIN secrets, secrets'[ref] # secrets[ref]
    PROVE  Cardinality(Users(document', ref)) <= 1
<1>1. ref = GatewayKeyRef
    BY SecretIsChanged DEF SetGatewayKey, DocumentsInv, FilesTyped, IsUpdate, SecretFiles
<1>2. ~Shared(document, ref, <<"gateway">>)
    BY <1>1 DEF SetGatewayKey
<1>3. Uses(document') \subseteq Uses(document) \cup {<<<<"gateway">>, ref>>}
    BY <1>1 DEF SetGatewayKey, WithGatewayKey, Uses, DocumentsInv, FilesTyped, IsDocument
<1>4. ~Shared(document', ref, <<"gateway">>)
    <2> SUFFICES ASSUME NEW use \in Uses(document'), use[2] = ref, use[1] # <<"gateway">>
                 PROVE  FALSE
        BY DEF Shared
    <2>1. use \in Uses(document)
        BY <1>3
    <2> QED
        BY <1>2, <2>1 DEF Shared
<1> QED
    BY <1>4, NotShared

\* A command is refused that changes a credential of others.
LEMMA CommandIsolated ==
    ASSUME DocumentsInv, NEW operations \in Commands, Command(operations),
           NEW ref \in DOMAIN secrets, secrets'[ref] # secrets[ref]
    PROVE  Cardinality(Users(document', ref)) <= 1
<1> DEFINE candidate == Candidate(operations)
<1>1. /\ candidate # Broken /\ document' = candidate.document
      /\ secrets' = candidate.secrets
      /\ \A change \in candidate.changes :
            ~Shared(candidate.document, change[1], change[2])
    BY DEF Command, CommandHolds
<1>2. CandidateIsSound(candidate)
    BY CandidatesAreSound DEF DocumentsInv, FilesTyped
<1> HIDE DEF candidate
<1>3. DOMAIN secrets = DOMAIN External
    BY DEF DocumentsInv, FilesTyped, SecretFiles
<1>4. PICK change \in candidate.changes : change[1] = ref
    BY <1>1, <1>2, <1>3 DEF CandidateIsSound
<1> QED
    BY <1>1, <1>4, NotShared

\* The credential of a new provider is used by nobody before.
LEMMA AddIsolated ==
    ASSUME DocumentsInv, NEW addition \in Additions, AddProvider(addition),
           NEW ref \in DOMAIN secrets, secrets'[ref] # secrets[ref]
    PROVE  Cardinality(Users(document', ref)) <= 1
<1> DEFINE new == [document EXCEPT
                      !.providers = With(document.providers, addition.id, addition.entry),
                      !.models = addition.models @@ document.models]
           own == {<<<<"llm", addition.id>>, addition.entry.key>>} \cup
                  {<<<<"llm", addition.id, b>>, addition.entry.bindings[b]>> :
                      b \in DOMAIN addition.entry.bindings}
<1>1. /\ addition.value # None /\ document' = new
      /\ secrets' = WithSecret(secrets, addition.entry.key, "set", addition.value)
      /\ ~Used(document, addition.entry.key)
    BY DEF AddProvider
<1>2. ref = addition.entry.key
    <2>1. addition.value \in Secrets
        BY <1>1, RequestsAssumption
    <2> QED
        BY <1>1, <2>1, SecretIsChanged DEF DocumentsInv, FilesTyped, IsUpdate, SecretFiles
<1>3. /\ new.gateway = document.gateway /\ new.decision = document.decision
      /\ new.providers = With(document.providers, addition.id, addition.entry)
    BY DEF DocumentsInv, FilesTyped, IsDocument
<1> HIDE DEF new
<1>4. ASSUME NEW use \in Uses(new)
      PROVE  use \in Uses(document) \cup own
    <2> DEFINE providers == With(document.providers, addition.id, addition.entry)
    <2>1. /\ DOMAIN providers = DOMAIN document.providers \cup {addition.id}
          /\ \A p \in DOMAIN providers :
                providers[p] = IF p = addition.id THEN addition.entry
                               ELSE document.providers[p]
        BY DEF With
    <2> HIDE DEF providers
    <2>2. \/ use = <<<<"gateway">>, document.gateway.key>>
          \/ \E p \in DOMAIN providers : use = <<<<"llm", p>>, providers[p].key>>
          \/ \E p \in DOMAIN providers : \E b \in DOMAIN providers[p].bindings :
                use = <<<<"llm", p, b>>, providers[p].bindings[b]>>
          \/ \E d \in DOMAIN document.decision.providers :
                use = <<<<"decision", d>>, document.decision.providers[d].key>>
        BY <1>3, UsesOf DEF providers
    <2>3. CASE use = <<<<"gateway">>, document.gateway.key>>
        BY <2>3, UsesOf
    <2>4. CASE \E d \in DOMAIN document.decision.providers :
                  use = <<<<"decision", d>>, document.decision.providers[d].key>>
        BY <2>4, UsesOf
    <2>5. ASSUME NEW p \in DOMAIN providers, use = <<<<"llm", p>>, providers[p].key>>
          PROVE  use \in Uses(document) \cup own
        BY <2>1, <2>5, UsesOf
    <2>6. ASSUME NEW p \in DOMAIN providers, NEW b \in DOMAIN providers[p].bindings,
                 use = <<<<"llm", p, b>>, providers[p].bindings[b]>>
          PROVE  use \in Uses(document) \cup own
        BY <2>1, <2>6, UsesOf
    <2> QED
        BY <2>2, <2>3, <2>4, <2>5, <2>6
<1>5. ASSUME NEW use \in Uses(new), use[2] = ref
      PROVE  Entry(use[1]) = Entry(<<"llm", addition.id>>)
    <2>1. use \in own
        BY <1>1, <1>2, <1>4, <1>5 DEF Used
    <2>2. use[1] = <<"llm", addition.id>> \/ \E b : use[1] = <<"llm", addition.id, b>>
        BY <2>1
    <2> QED
        BY <2>2, ProviderOwnsParameters
<1>6. Users(new, ref) \subseteq {Entry(<<"llm", addition.id>>)}
    BY <1>5 DEF Users
<1> QED
    BY <1>1, <1>6, AtMostOne

\* Nothing but the operator changes a credential that several entries use.
LEMMA ChangesAreIsolated ==
    ASSUME DocumentsInv, Next, ~HandEdit,
           NEW ref \in DOMAIN secrets, secrets'[ref] # secrets[ref]
    PROVE  Cardinality(Users(document', ref)) <= 1
<1>1. CASE \E s \in Names \cup {None}, n \in Nodes : WriteLayout(s, n)
    BY <1>1 DEF WriteLayout
<1>2. CASE RoutingEdit
    BY <1>2 DEF RoutingEdit, PutWorkflow, PutRules, PutWorkflowRules, CreateStrategy,
                DeleteStrategy, ResetStrategy, ResetRouting, ApplyRouting
<1>3. CASE Start \/ Stop \/ Reload
    BY <1>3 DEF Start, Stop, Reload
<1>4. CASE \E p : RemoveProvider(p)
    BY <1>4 DEF RemoveProvider
<1>5. ASSUME NEW value \in Secrets,
             GatewayCredential(value) \/ SetupKey(value) \/ CommandLineSetup(value)
      PROVE  Cardinality(Users(document', ref)) <= 1
    BY <1>5, KeyIsolated DEF GatewayCredential, SetupKey, CommandLineSetup
<1>6. ASSUME NEW p, NEW action, NEW value, IsUpdate(action, value),
             SaveSecret(p, action, value)
      PROVE  Cardinality(Users(document', ref)) <= 1
    <2>1. ref = SecretName(p)
        BY <1>6, SecretIsChanged DEF SaveSecret, DocumentsInv, FilesTyped, SecretFiles
    <2>2. ~Shared(document', ref, <<"llm", p>>)
        BY <1>6, <2>1 DEF SaveSecret
    <2> QED
        BY <2>2, NotShared
<1>7. ASSUME NEW p, NEW value \in Secrets, Login(p, value)
      PROVE  Cardinality(Users(document', ref)) <= 1
    BY <1>6, <1>7 DEF Login, IsUpdate
<1>8. ASSUME NEW p, Logout(p)
      PROVE  Cardinality(Users(document', ref)) <= 1
    BY <1>6, <1>8 DEF Logout, IsUpdate
<1> QED
    BY <1>1, <1>2, <1>3, <1>4, <1>5, <1>7, <1>8, CommandIsolated, AddIsolated DEF Next

-----------------------------------------------------------------------------
(* The theorems. *)

\* The files keep their shape: an overlay that can be read is well formed, a
\* layout of version 1 is of the strategy without a name, credentials are values
\* or absent; and without a gateway there is no key and nothing is stale.
THEOREM TypeCorrect == Spec => []TypeOK
<1>1. DocumentsInv => TypeOK
    BY DEF DocumentsInv, FilesTyped, GatewayTyped, IsOverlay, IsLayout, SecretFiles, TypeOK
<1> QED
    BY <1>1, DocumentsAreSound, PTL

\* A gateway that learned of every change runs what it would run after a restart,
\* and enforces the key of that configuration, whatever the dashboard, the
\* command line and the operator's editor did in whatever order.
THEOREM RunsWhatWouldLoad == Spec => []RunsWhatLoads
<1>1. DocumentsInv => RunsWhatLoads
    <2> SUFFICES ASSUME DocumentsInv, running # Off
                 PROVE  /\ "catalog" \notin stale => running = Load(document, overlay, secrets)
                        /\ stale = {} => key = running.gateway
        BY DEF RunsWhatLoads
    <2>1. "catalog" \notin stale => running = Load(document, overlay, secrets)
        BY DEF DocumentsInv, RunsCurrent
    <2>2. stale = {} => running.gateway = OptionalKey(secrets, document.gateway.key)
        BY <2>1, LoadedIsCatalog DEF DocumentsInv, FilesTyped, GatewayTyped
    <2>3. stale = {} => key = OptionalKey(secrets, document.gateway.key)
        BY DEF DocumentsInv, RunsCurrent
    <2> QED
        BY <2>1, <2>2, <2>3
<1> QED
    BY <1>1, DocumentsAreSound, PTL

\* As long as nobody edits the files by hand, a gateway can be started from what
\* the dashboard and the command line left, with the overlay in force.
THEOREM WritersLeaveItLoadable == Spec => []AlwaysLoads
<1>1. DocumentsInv => AlwaysLoads
    BY DEF DocumentsInv
<1> QED
    BY <1>1, DocumentsAreSound, PTL

\* Neither the dashboard nor the command line changes a credential that two
\* entries use when the command is done.
THEOREM CredentialsKeptApart == Spec => CredentialsIsolated
<1> DEFINE Step == ~HandEdit =>
                       \A ref \in DOMAIN secrets :
                           secrets'[ref] # secrets[ref] =>
                               Cardinality(Users(document', ref)) <= 1
<1>1. DocumentsInv /\ [Next]_vars => [Step]_vars
    BY ChangesAreIsolated
<1>2. CredentialsIsolated <=> [][Step]_vars
    BY DEF CredentialsIsolated, Users
<1> HIDE DEF Step
<1> QED
    BY <1>1, <1>2, DocumentsAreSound, PTL DEF Spec

\* An edit, creation, deletion or reset of one strategy by the dashboard leaves
\* every other one where it was: it exists, it keeps its layout and it routes as
\* before, except that the first such edit, which writes all of them out as
\* workflows, confines those that selected nothing to what their rules lead to. A
\* request of version 1 leaves the others as the document has them.
THEOREM EditsStayLocal == Spec => WritesStayLocal
<1> DEFINE Kept(other) ==
              /\ other \in DOMAIN running.strategies
              /\ other \in DOMAIN running'.strategies
              /\ LeftAlone(other)
              /\ layout # Broken => LayoutOf(layout', other) = LayoutOf(layout, other)
           Shares == /\ running'.models = running.models
                     /\ running'.defaultModel = running.defaultModel
                     /\ running'.decision = running.decision
           Local(s) ==
              "catalog" \notin stale /\ EditsStrategy(s) =>
                 /\ running'.models = running.models
                 /\ running'.defaultModel = running.defaultModel
                 /\ running'.decision = running.decision
                 /\ \A other \in (DOMAIN running.strategies \cup
                                  DOMAIN running'.strategies) \ {s} : Kept(other)
           Replaced(s) ==
              (\E rules \in Rules : PutRules(s, rules)) =>
                 /\ DOMAIN running'.strategies = DOMAIN document.strategies
                 /\ \A other \in DOMAIN document.strategies \ {s} :
                       running'.strategies[other] =
                           PolicyFromDict(document.strategies[other],
                                          document.policy, document.default)
                 /\ layout' = layout
           Step == \A s \in Names : /\ Local(s)
                                    /\ Replaced(s)
<1>1. ASSUME DocumentsInv, NEW s \in Names
      PROVE  Local(s)
    <2> SUFFICES ASSUME "catalog" \notin stale, EditsStrategy(s)
                 PROVE  /\ Shares
                        /\ \A other \in (DOMAIN running.strategies \cup
                                         DOMAIN running'.strategies) \ {s} : Kept(other)
        OBVIOUS
    <2>1. PICK candidate, cleared : EditOf(s, candidate, cleared)
        BY <1>1, EditsOneStrategy DEF DocumentsInv, FilesTyped, EditsStrategy
    <2>2. ASSUME NEW other, other # s
          PROVE  /\ Shares
                 /\ other \in DOMAIN running.strategies <=> other \in DOMAIN running'.strategies
                 /\ other \in DOMAIN running.strategies => LeftAlone(other)
                 /\ layout # Broken => LayoutOf(layout', other) = LayoutOf(layout, other)
        BY <1>1, <2>1, <2>2, OthersKeepRouting, OthersKeepLayout
    <2>3. \E other : other # s
        <3>1. CASE s = 1
            BY <3>1, 2 # 1
        <3>2. CASE s # 1
            BY <3>2
        <3> QED
            BY <3>1, <3>2
    <2> QED
        BY <2>2, <2>3
<1>2. ASSUME DocumentsInv, NEW s \in Names
      PROVE  Replaced(s)
    BY <1>2, RulesReplaceOverlay
<1>3. DocumentsInv /\ [Next]_vars => [Step]_vars
    <2> HIDE DEF Local, Replaced
    <2> QED
        BY <1>1, <1>2
<1>4. WritesStayLocal <=> [][Step]_vars
    BY DEF WritesStayLocal
<1> HIDE DEF Step
<1> QED
    BY <1>3, <1>4, DocumentsAreSound, PTL DEF Spec

-----------------------------------------------------------------------------
(* How far an overlay can keep the gateway from the baseline it loads without. *)

\* The workflows of an overlay, each parsed by itself, can be built.
WorkflowsBuild(o) ==
    o.version = 2 =>
        RegistryBuilds([strategies |->
            [s \in DOMAIN o.workflows |-> PolicyFromDict(o.workflows[s], None, None)]])

\* Rules of version 1 that select labels which their strategy does not have.
RulesOutgrown(o, baseline) ==
    /\ o.version = 1 /\ o.choices # None
    /\ o.strategy \in DOMAIN baseline.strategies
    /\ ~(o.choices \subseteq DOMAIN baseline.strategies[o.strategy].labels)

\* What the registry asks of one definition.
Builds(definition) ==
    /\ definition.kind \in {"auto", "policy", "decision", "decision_matrix"}
    /\ definition.kind = "decision_matrix" =>
          /\ definition.choices # None
          /\ definition.choices \subseteq DOMAIN definition.labels

\* The strategies of a catalog.
LEMMA CatalogStrategies ==
    ASSUME NEW d, NEW s, NEW catalog, catalog = CatalogFromDocument(d, s),
           catalog # Broken
    PROVE  /\ DOMAIN catalog.strategies = DOMAIN d.strategies
           /\ \A x \in DOMAIN d.strategies :
                 /\ catalog.strategies[x] =
                        PolicyFromDict(d.strategies[x], d.policy, d.default)
                 /\ catalog.strategies[x] # Broken
<1>1. /\ StrategiesFromDocument(d) # Broken
      /\ catalog.strategies = StrategiesFromDocument(d)
    BY CatalogOf DEF CatalogFromDocument
<1> QED
    BY <1>1, StrategiesAre

\* A workflow inherits nothing.
LEMMA ParsedAlone ==
    ASSUME NEW body, WorkflowIsShaped(body), NEW base, NEW inherited
    PROVE  PolicyFromDict(body, base, inherited) = PolicyFromDict(body, None, None)
    BY DEF PolicyFromDict, WorkflowIsShaped

\* A parsed strategy keeps its rules, and the labels it declares.
LEMMA ParsedLabels ==
    ASSUME NEW body, NEW base, NEW inherited, DOMAIN body = Fields,
           PolicyFromDict(body, base, inherited) # Broken
    PROVE  LET parsed == PolicyFromDict(body, base, inherited)
           IN  /\ DOMAIN parsed = Fields /\ parsed.kind = body.kind
               /\ parsed.choices = body.choices
               /\ DOMAIN parsed.labels = DOMAIN (IF body.labels # None THEN body.labels
                                                 ELSE base.labels)
<1> DEFINE selected == IF body.selected = None /\ base # None THEN base.selected
                       ELSE body.selected
           labels == [label \in DOMAIN base.labels |->
                         IF base.labels[label].models = None /\ base.labels[label].tag = None
                         THEN [base.labels[label] EXCEPT !.tag = <<inherited, label>>]
                         ELSE base.labels[label]]
           parsed == PolicyFromDict(body, base, inherited)
<1>1. \/ body.labels # None /\ parsed = [body EXCEPT !.selected = selected]
      \/ body.labels = None /\ parsed = [body EXCEPT !.labels = labels, !.selected = selected]
    BY DEF PolicyFromDict
<1>2. DOMAIN labels = DOMAIN base.labels
    OBVIOUS
<1> HIDE DEF labels, parsed, selected
<1> QED
    BY <1>1, <1>2 DEF Fields, parsed

\* Whoever writes an overlay has built what it makes of the document.
LEMMA BuiltWorkflows ==
    ASSUME NEW d, IsDocument(d), NEW o, NEW s, Effective(d, o, s) # Broken,
           RegistryBuilds(Effective(d, o, s))
    PROVE  WorkflowsBuild(o)
<1> SUFFICES ASSUME o.version = 2, NEW x \in DOMAIN o.workflows
             PROVE  Builds(PolicyFromDict(o.workflows[x], None, None))
    BY DEF WorkflowsBuild, RegistryBuilds, Builds
<1> PICK catalog : catalog = Effective(d, o, s)
    OBVIOUS
<1>1. /\ x \in DOMAIN catalog.strategies
      /\ catalog.strategies[x] = PolicyFromDict(o.workflows[x], d.policy, d.default)
      /\ WorkflowIsShaped(o.workflows[x])
    BY WithWorkflows
<1>2. Builds(catalog.strategies[x])
    BY <1>1 DEF RegistryBuilds, Builds
<1> QED
    BY <1>1, <1>2, ParsedAlone

\* And where that was not done, a document that can be built alone can be built
\* under workflows that can.
LEMMA WorkflowsServe ==
    ASSUME NEW d, IsDocument(d), NEW o, o.version = 2, NEW s, WorkflowsBuild(o),
           CatalogFromDocument(d, s) # Broken, RegistryBuilds(CatalogFromDocument(d, s)),
           Effective(d, o, s) # Broken
    PROVE  RegistryBuilds(Effective(d, o, s))
<1> PICK catalog, baseline :
        catalog = Effective(d, o, s) /\ baseline = CatalogFromDocument(d, s)
    OBVIOUS
<1> SUFFICES ASSUME NEW x \in DOMAIN catalog.strategies
             PROVE  Builds(catalog.strategies[x])
    BY DEF RegistryBuilds, Builds
<1>1. /\ DOMAIN catalog.strategies = (DOMAIN d.strategies \ o.deleted) \cup DOMAIN o.workflows
      /\ catalog.strategies[x] # Broken
      /\ catalog.strategies[x] =
             PolicyFromDict(IF x \in DOMAIN o.workflows THEN o.workflows[x]
                            ELSE PolicyFromDict(d.strategies[x], d.policy, d.default),
                            d.policy, d.default)
      /\ \A y \in DOMAIN o.workflows : WorkflowIsShaped(o.workflows[y])
    BY WithWorkflows
<1>2. CASE x \in DOMAIN o.workflows
    <2>1. catalog.strategies[x] = PolicyFromDict(o.workflows[x], None, None)
        BY <1>1, <1>2, ParsedAlone
    <2> QED
        BY <1>2, <2>1 DEF WorkflowsBuild, RegistryBuilds, Builds
<1>3. CASE x \notin DOMAIN o.workflows
    <2>1. x \in DOMAIN d.strategies
        BY <1>1, <1>3
    <2>2. /\ baseline.strategies[x] = PolicyFromDict(d.strategies[x], d.policy, d.default)
          /\ baseline.strategies[x] # Broken /\ x \in DOMAIN baseline.strategies
        BY <2>1, CatalogStrategies
    <2>3. DOMAIN d.strategies[x] = Fields
        BY <2>1 DEF IsDocument, IsBody, Fields
    <2>4. catalog.strategies[x] = baseline.strategies[x]
        BY <1>1, <1>3, <2>2, <2>3, ParsedAgain
    <2> QED
        BY <2>2, <2>4 DEF RegistryBuilds, Builds
<1> QED
    BY <1>2, <1>3

\* The same of rules that select labels which are there.
LEMMA RulesServe ==
    ASSUME NEW d, IsDocument(d), NEW o, IsOverlay(o), o.version \in {0, 1}, NEW s,
           CatalogFromDocument(d, s) # Broken, RegistryBuilds(CatalogFromDocument(d, s)),
           ~RulesOutgrown(o, CatalogFromDocument(d, s)), Effective(d, o, s) # Broken
    PROVE  RegistryBuilds(Effective(d, o, s))
<1> PICK catalog, baseline, merged :
        /\ catalog = Effective(d, o, s) /\ baseline = CatalogFromDocument(d, s)
        /\ merged = MergeOverlay(d, o)
    OBVIOUS
<1>1. merged # Broken /\ catalog = CatalogFromDocument(merged, s)
    BY DEF Effective
<1>2. CASE o.version = 0
    <2>1. merged = d
        BY <1>1, <1>2 DEF MergeOverlay
    <2> QED
        BY <1>1, <2>1
<1>3. CASE o.version = 1
    <2> SUFFICES ASSUME NEW x \in DOMAIN catalog.strategies
                 PROVE  Builds(catalog.strategies[x])
        BY DEF RegistryBuilds, Builds
    <2> PICK choices, models :
            /\ choices = IF o.choices = None THEN d.strategies[o.strategy].choices
                         ELSE o.choices
            /\ models = Override(d.models, o.tags)
        OBVIOUS
    <2>1. /\ merged = [d EXCEPT !.strategies[o.strategy].choices = choices,
                                !.models = models]
          /\ o.strategy \in DOMAIN d.strategies
          /\ o.choices # None => d.strategies[o.strategy].choices # None
        BY <1>1, <1>3 DEF MergeOverlay, MergeRules
    <2>2. /\ DOMAIN merged.strategies = DOMAIN d.strategies
          /\ \A y \in DOMAIN d.strategies :
                merged.strategies[y] =
                    IF y = o.strategy THEN [d.strategies[y] EXCEPT !.choices = choices]
                    ELSE d.strategies[y]
          /\ merged.policy = d.policy /\ merged.default = d.default
        BY <2>1 DEF IsDocument
    <2>3. /\ x \in DOMAIN d.strategies /\ x \in DOMAIN baseline.strategies
          /\ catalog.strategies[x] = PolicyFromDict(merged.strategies[x], d.policy, d.default)
          /\ catalog.strategies[x] # Broken
          /\ baseline.strategies[x] = PolicyFromDict(d.strategies[x], d.policy, d.default)
          /\ baseline.strategies[x] # Broken
        BY <1>1, <2>2, CatalogStrategies
    <2>4. IsBody(d.strategies[x]) /\ DOMAIN d.strategies[x] = Fields
        BY <2>3 DEF IsDocument, IsBody, Fields
    <2>5. Builds(baseline.strategies[x])
        BY <2>3 DEF RegistryBuilds, Builds
    <2>6. CASE x # o.strategy \/ o.choices = None
        <3> PICK body : body = merged.strategies[x]
            OBVIOUS
        <3>1. body = d.strategies[x] \/ body = [d.strategies[x] EXCEPT !.choices = choices]
            BY <2>2, <2>3
        <3>2. x = o.strategy => choices = d.strategies[x].choices
            BY <2>6
        <3>3. x # o.strategy => body = d.strategies[x]
            BY <2>2, <2>3
        <3>4. DOMAIN body = Fields /\ \A f \in Fields : body[f] = d.strategies[x][f]
            BY <2>4, <3>1, <3>2, <3>3
        <3>5. IsBody(body)
            BY <2>4, <3>4 DEF IsBody, Fields
        <3>6. PolicyFromDict(body, d.policy, d.default) =
                  PolicyFromDict(d.strategies[x], d.policy, d.default)
            BY <2>4, <3>4, <3>5, SameBodies
        <3> QED
            BY <2>3, <2>5, <3>6
    <2>7. CASE x = o.strategy /\ o.choices # None
        <3>1. d.strategies[x].kind = "decision_matrix"
            BY <2>1, <2>4, <2>7 DEF IsBody
        <3> PICK body : body = merged.strategies[x]
            OBVIOUS
        <3>2. /\ DOMAIN body = Fields /\ body.kind = "decision_matrix"
              /\ body.labels = d.strategies[x].labels /\ body.choices = o.choices
            BY <2>2, <2>3, <2>4, <2>7, <3>1 DEF Fields
        <3>3. /\ catalog.strategies[x].kind = "decision_matrix"
              /\ catalog.strategies[x].choices = o.choices
              /\ DOMAIN catalog.strategies[x].labels = DOMAIN baseline.strategies[x].labels
            BY <2>3, <2>4, <3>2, ParsedLabels
        <3>4. o.choices \subseteq DOMAIN baseline.strategies[x].labels
            BY <1>3, <2>3, <2>7 DEF RulesOutgrown
        <3> QED
            BY <2>7, <3>3, <3>4 DEF Builds
    <2> QED
        BY <2>6, <2>7
<1> QED
    BY <1>2, <1>3

\* Whoever writes the overlay builds what it makes of the document, but for the
\* operator's editor.
LEMMA WorkflowsStep ==
    ASSUME DocumentsInv, [Next]_vars, WorkflowsBuild(overlay),
           \A o \in HandEdits.overlay : WorkflowsBuild(o)
    PROVE  WorkflowsBuild(overlay')
<1>1. ASSUME NEW candidate, NEW cleared, ApplyRouting(candidate, cleared)
      PROVE  WorkflowsBuild(overlay')
    BY <1>1, BuiltWorkflows DEF ApplyRouting, Prepared, DocumentsInv, FilesTyped
<1>2. ASSUME NEW s,
             \/ \E body \in Bodies : PutWorkflow(s, body)
             \/ \E rules \in Rules : PutWorkflowRules(s, rules)
             \/ CreateStrategy(s) \/ DeleteStrategy(s) \/ ResetStrategy(s)
      PROVE  WorkflowsBuild(overlay')
    <2>1. PICK candidate, cleared : EditOf(s, candidate, cleared)
        BY <1>2, EditsOneStrategy DEF DocumentsInv, FilesTyped
    <2> QED
        BY <1>1, <2>1 DEF EditOf
<1>3. ASSUME NEW s, NEW rules, PutRules(s, rules)
      PROVE  WorkflowsBuild(overlay')
    BY <1>1, <1>3 DEF PutRules
<1>4. CASE ResetRouting
    BY <1>4 DEF ResetRouting, WorkflowsBuild, NoOverlay
<1>5. CASE RoutingEdit
    <2>1. ASSUME NEW s \in Names,
                 \/ \E body \in Bodies : PutWorkflow(s, body)
                 \/ \E rules \in Rules : PutRules(s, rules) \/ PutWorkflowRules(s, rules)
                 \/ CreateStrategy(s) \/ DeleteStrategy(s) \/ ResetStrategy(s)
          PROVE  WorkflowsBuild(overlay')
        <3>1. CASE \E rules \in Rules : PutRules(s, rules)
            BY <1>3, <3>1
        <3>2. CASE \E body \in Bodies : PutWorkflow(s, body)
            BY <1>2, <3>2
        <3>3. CASE \E rules \in Rules : PutWorkflowRules(s, rules)
            BY <1>2, <3>3
        <3>4. CASE CreateStrategy(s) \/ DeleteStrategy(s) \/ ResetStrategy(s)
            BY <1>2, <3>4
        <3> QED
            BY <2>1, <3>1, <3>2, <3>3, <3>4
    <2> QED
        BY <1>4, <1>5, <2>1 DEF RoutingEdit
<1>6. ASSUME NEW p, RemoveProvider(p)
      PROVE  WorkflowsBuild(overlay')
    <2>1. IsDocument(document')
        BY <1>6, RemoveStep DEF DocumentsInv, FilesTyped
    <2> PICK d, o : d = document' /\ o = overlay'
        OBVIOUS
    <2>2. Effective(d, o, secrets) # Broken /\ RegistryBuilds(Effective(d, o, secrets))
        BY <1>6 DEF RemoveProvider
    <2>3. WorkflowsBuild(o)
        BY <2>1, <2>2, BuiltWorkflows
    <2> QED
        BY <2>3
<1>7. CASE HandEdit
    BY <1>7 DEF HandEdit
<1>8. ASSUME overlay' = overlay
      PROVE  WorkflowsBuild(overlay')
    BY <1>8
<1>9. CASE UNCHANGED vars
    BY <1>8, <1>9 DEF vars
<1>10. CASE Start \/ Stop \/ Reload
    BY <1>8, <1>10 DEF Start, Stop, Reload
<1>11. ASSUME NEW s, NEW n, WriteLayout(s, n)
       PROVE  WorkflowsBuild(overlay')
    BY <1>8, <1>11 DEF WriteLayout
<1>12. ASSUME NEW operations \in Commands, Command(operations)
       PROVE  WorkflowsBuild(overlay')
    BY <1>8, <1>12 DEF Command
<1>13. ASSUME NEW value \in Secrets,
              GatewayCredential(value) \/ SetupKey(value) \/ CommandLineSetup(value)
       PROVE  WorkflowsBuild(overlay')
    BY <1>8, <1>13 DEF GatewayCredential, SetupKey, CommandLineSetup, SetGatewayKey
<1>14. ASSUME NEW p, NEW action, NEW value, SaveSecret(p, action, value)
       PROVE  WorkflowsBuild(overlay')
    BY <1>8, <1>14 DEF SaveSecret
<1>15. ASSUME NEW addition \in Additions, AddProvider(addition)
       PROVE  WorkflowsBuild(overlay')
    BY <1>8, <1>15 DEF AddProvider
<1> QED
    BY <1>5, <1>6, <1>7, <1>9, <1>10, <1>11, <1>12, <1>13, <1>14, <1>15
       DEF Next, Login, Logout

\* No overlay keeps a baseline offline that would serve, but rules of version 1 for
\* labels the baseline no longer has (load_gateway_config): an overlay of workflows
\* does not, if those an operator puts there select labels they have, and what
\* cannot be read or does not fit is left out.
THEOREM OnlyOutgrownRulesFail ==
    ASSUME \A o \in HandEdits.overlay : WorkflowsBuild(o)
    PROVE  Spec => [](~RulesOutgrown(overlay, CatalogFromDocument(document, secrets))
                         => BaselineServes)
<1>1. Init => WorkflowsBuild(overlay)
    BY FilesAssumption, BuiltWorkflows DEF Init
<1>2. DocumentsInv /\ WorkflowsBuild(overlay) /\ [Next]_vars => WorkflowsBuild(overlay)'
    BY WorkflowsStep
<1>3. DocumentsInv /\ WorkflowsBuild(overlay) =>
          (~RulesOutgrown(overlay, CatalogFromDocument(document, secrets))
              => BaselineServes)
    <2> SUFFICES ASSUME DocumentsInv, WorkflowsBuild(overlay),
                        ~RulesOutgrown(overlay, CatalogFromDocument(document, secrets)),
                        CatalogFromDocument(document, secrets) # Broken,
                        RegistryBuilds(CatalogFromDocument(document, secrets))
                 PROVE  RegistryBuilds(Load(document, overlay, secrets))
        BY DEF BaselineServes
    <2> PICK read : read = ReadOverlay(overlay)
        OBVIOUS
    <2>1. IsDocument(document) /\ IsOverlay(overlay)
        BY DEF DocumentsInv, FilesTyped
    <2>2. CASE Effective(document, read, secrets) = Broken
        BY <2>2 DEF Load
    <2>3. CASE Effective(document, read, secrets) # Broken
        <3>1. Load(document, overlay, secrets) = Effective(document, read, secrets)
            BY <2>3 DEF Load
        <3>2. \/ read = overlay /\ overlay.version # 3
              \/ read = NoOverlay
            BY DEF ReadOverlay
        <3>3. CASE read = overlay /\ overlay.version # 3
            <4>1. overlay.version \in {0, 1, 2}
                BY <2>3, <3>3 DEF Effective, MergeOverlay, OverlayIsShaped
            <4> QED
                BY <2>1, <2>3, <3>1, <3>3, <4>1, WorkflowsServe, RulesServe
        <3>4. CASE read = NoOverlay
            <4>1. IsOverlay(NoOverlay) /\ NoOverlay.version = 0
                BY DEF IsOverlay, NoOverlay, ReadOverlay, OverlayIsShaped
            <4>2. ~RulesOutgrown(NoOverlay, CatalogFromDocument(document, secrets))
                BY <4>1 DEF RulesOutgrown
            <4> QED
                BY <2>1, <2>3, <3>1, <3>4, <4>1, <4>2, RulesServe
        <3> QED
            BY <3>2, <3>3, <3>4
    <2> QED
        BY <2>2, <2>3
<1> QED
    BY <1>1, <1>2, <1>3, DocumentsAreSound, PTL DEF Spec

=============================================================================
