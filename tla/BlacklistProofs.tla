-------------------------- MODULE BlacklistProofs ---------------------------
(***************************************************************************)
(* Proofs about Blacklist: a rule that is attached and blocks a request    *)
(* throughout its check is never overlooked, for any rules, methods, paths *)
(* and checks, and whatever the owners edit meanwhile.                     *)
(***************************************************************************)
EXTENDS Blacklist, SequenceTheorems, TLAPS

-----------------------------------------------------------------------------
(* Types.                                                                  *)

PCs == {"idle", "rules", "methods", "blocked", "passed"}

\* What a check may have read: methods for some of the rules.
Loaded == UNION {[S -> SUBSET Methods] : S \in SUBSET Rules}

RuleTypes ==
    /\ rules \subseteq Rules
    /\ methods \in [Rules -> SUBSET Methods]
    /\ \A r \in Rules : methods[r] # {} => r \in rules
    /\ onSite \subseteq rules
    /\ onLink \subseteq rules

EditTypes ==
    /\ editing \in Rules \cup {NoRule}
    /\ todo \in Seq(Methods)
    /\ cleared \in BOOLEAN
    /\ edits \in 0..MaxEdits
    /\ intended \subseteq Methods

CheckTypes ==
    /\ pc \in [Checks -> PCs]
    /\ method \in [Checks -> Methods]
    /\ path \in [Checks -> Paths]
    /\ unread \in [Checks -> SUBSET Rules]
    /\ loaded \in [Checks -> Loaded]

HistoryTypes ==
    /\ wasOpen \in [Checks -> SUBSET Rules]
    /\ wasFree \in [Checks -> SUBSET Rules]

BlacklistTypeInv == RuleTypes /\ EditTypes /\ CheckTypes /\ HistoryTypes

LEMMA NoRulesLoaded == NoRules \in Loaded
<1>1. NoRules \in [{} -> SUBSET Methods]
  BY DEF NoRules
<1>2. {} \in SUBSET Rules
  OBVIOUS
<1>. QED  BY <1>1, <1>2 DEF Loaded

\* One more rule is read.
LEMMA LoadOne ==
    ASSUME NEW f \in Loaded, NEW r \in Rules, NEW ms \in SUBSET Methods
    PROVE  [x \in DOMAIN f \cup {r} |-> IF x = r THEN ms ELSE f[x]] \in Loaded
<1>1. PICK S \in SUBSET Rules : f \in [S -> SUBSET Methods]
  BY DEF Loaded
<1>2. [x \in DOMAIN f \cup {r} |-> IF x = r THEN ms ELSE f[x]]
          \in [S \cup {r} -> SUBSET Methods]
  BY <1>1
<1>3. S \cup {r} \in SUBSET Rules
  BY <1>1
<1>. QED  BY <1>2, <1>3 DEF Loaded

LEMMA TypeSuffices == BlacklistTypeInv => BlacklistTypeOK
<1> SUFFICES ASSUME BlacklistTypeInv PROVE BlacklistTypeOK
  OBVIOUS
<1>1. ASSUME NEW c \in Checks
      PROVE  /\ DOMAIN loaded[c] \subseteq Rules
             /\ \A r \in DOMAIN loaded[c] : loaded[c][r] \subseteq Methods
  <2>1. loaded[c] \in Loaded
    BY DEF BlacklistTypeInv, CheckTypes
  <2>2. PICK S \in SUBSET Rules : loaded[c] \in [S -> SUBSET Methods]
    BY <2>1 DEF Loaded
  <2>. QED  BY <2>2
<1>. QED
  BY <1>1 DEF BlacklistTypeInv, RuleTypes, EditTypes, CheckTypes, HistoryTypes,
              PCs, BlacklistTypeOK

LEMMA TypeInit == BlacklistInit => BlacklistTypeInv
<1> SUFFICES ASSUME BlacklistInit PROVE BlacklistTypeInv
  OBVIOUS
<1>1. RuleTypes
  BY DEF BlacklistInit, RuleTypes
<1>2. EditTypes
  <2>1. todo = <<>> /\ edits = 0
    BY DEF BlacklistInit
  <2>2. todo \in Seq(Methods) /\ edits \in 0..MaxEdits
    BY <2>1, BlacklistAssumption
  <2>. QED  BY <2>2 DEF BlacklistInit, EditTypes
<1>3. CheckTypes
  <2>1. loaded \in [Checks -> Loaded]
    BY NoRulesLoaded DEF BlacklistInit
  <2>2. pc \in [Checks -> PCs] /\ unread \in [Checks -> SUBSET Rules]
    BY DEF BlacklistInit, PCs
  <2>. QED  BY <2>1, <2>2 DEF BlacklistInit, CheckTypes
<1>4. HistoryTypes
  BY DEF BlacklistInit, HistoryTypes
<1>. QED  BY <1>1, <1>2, <1>3, <1>4 DEF BlacklistTypeInv

LEMMA RuleTypesStep ==
    ASSUME RuleTypes, EditTypes, Step
    PROVE  RuleTypes'
<1> USE DEF RuleTypes
<1>1. ASSUME NEW r \in Rules, NEW ms \in Edits, CreateEndpoint(r, ms)
      PROVE  RuleTypes'
  BY <1>1 DEF CreateEndpoint
<1>2. CASE ClearMethods
  <2>1. \A r \in Rules : methods'[r] = methods[r] \/ methods'[r] = {}
    BY <1>2 DEF ClearMethods
  <2>. QED  BY <1>2, <2>1 DEF ClearMethods
<1>3. CASE InsertMethod
  <2>1. todo # <<>> /\ Head(todo) \in Methods
    BY <1>3 DEF InsertMethod, EditTypes
  <2>2. \A r \in Rules : \/ methods'[r] = methods[r]
                         \/ r \in rules /\ methods'[r] = methods[r] \cup {Head(todo)}
    BY <1>3 DEF InsertMethod
  <2>3. methods' \in [Rules -> SUBSET Methods]
    <3>1. \/ methods' = methods
          \/ methods' = [methods EXCEPT ![editing] = methods[editing] \cup {Head(todo)}]
      BY <1>3 DEF InsertMethod
    <3>. QED  BY <2>1, <3>1
  <2>. QED  BY <1>3, <2>2, <2>3 DEF InsertMethod
<1>4. ASSUME NEW r \in Rules, Attach(r) PROVE RuleTypes'
  BY <1>4 DEF Attach
<1>5. ASSUME NEW r \in Rules, DeleteEndpoint(r) PROVE RuleTypes'
  BY <1>5 DEF DeleteEndpoint
<1>6. ASSUME UNCHANGED ruleVars PROVE RuleTypes'
  BY <1>6 DEF ruleVars
<1>. QED
  BY <1>1, <1>2, <1>3, <1>4, <1>5, <1>6
  DEF Step, EditMethods, EndSet, FailSet, CheckStarts, ReadRules, ReadMethods,
      Decide, CheckEnds, FailCheck

LEMMA EditTypesStep ==
    ASSUME EditTypes, Step
    PROVE  EditTypes'
<1> USE DEF EditTypes
<1>0. \A ms \in Edits : ms \in Seq(Methods)
  BY BlacklistAssumption
<1>1. ASSUME Budget PROVE edits' \in 0..MaxEdits
  BY <1>1, BlacklistAssumption DEF Budget
<1>2. ASSUME NEW r \in Rules, NEW ms \in Edits, CreateEndpoint(r, ms)
      PROVE  EditTypes'
  BY <1>0, <1>1, <1>2 DEF CreateEndpoint, StartSet
<1>3. ASSUME NEW r \in Rules, NEW ms \in Edits, EditMethods(r, ms)
      PROVE  EditTypes'
  BY <1>0, <1>1, <1>3 DEF EditMethods, StartSet, InForce
<1>4. CASE ClearMethods
  BY <1>4 DEF ClearMethods
<1>5. CASE InsertMethod
  <2>1. Tail(todo) \in Seq(Methods)
    BY <1>5 DEF InsertMethod
  <2>2. todo' \in Seq(Methods)
    <3>1. todo' = Tail(todo) \/ todo' = <<>>
      BY <1>5 DEF InsertMethod
    <3>. QED  BY <2>1, <3>1, EmptySeq
  <2>3. cleared' \in BOOLEAN
    BY <1>5 DEF InsertMethod
  <2>4. editing' \in Rules \cup {NoRule} /\ edits' = edits /\ intended' \subseteq Methods
    BY <1>5 DEF InsertMethod
  <2>. QED  BY <2>2, <2>3, <2>4
<1>6. CASE EndSet \/ FailSet
  <2>1. todo' \in Seq(Methods)
    <3>1. todo' = todo \/ todo' = <<>>
      BY <1>6 DEF EndSet, FailSet
    <3>. QED  BY <3>1, EmptySeq
  <2>2. cleared' \in BOOLEAN
    BY <1>6 DEF EndSet, FailSet
  <2>3. editing' = NoRule /\ edits' = edits /\ intended' = {}
    BY <1>6 DEF EndSet, FailSet
  <2>. QED  BY <2>1, <2>2, <2>3
<1>7. ASSUME NEW r \in Rules, Attach(r) \/ DeleteEndpoint(r) PROVE EditTypes'
  BY <1>1, <1>7 DEF Attach, DeleteEndpoint
<1>8. ASSUME UNCHANGED <<editVars, intended>> PROVE EditTypes'
  BY <1>8 DEF editVars
<1>. QED
  BY <1>2, <1>3, <1>4, <1>5, <1>6, <1>7, <1>8
  DEF Step, CheckStarts, ReadRules, ReadMethods, Decide, CheckEnds, FailCheck

LEMMA CheckTypesStep ==
    ASSUME RuleTypes, CheckTypes, Step
    PROVE  CheckTypes'
<1> USE DEF CheckTypes, PCs
<1>1. ASSUME NEW c \in Checks, NEW m \in Methods, NEW p \in Paths,
             CheckStarts(c, m, p)
      PROVE  CheckTypes'
  BY <1>1 DEF CheckStarts
<1>2. ASSUME NEW c \in Checks, ReadRules(c) PROVE CheckTypes'
  <2>1. RulesForLink \in SUBSET Rules
    BY DEF RulesForLink, RuleTypes
  <2>. QED  BY <1>2, <2>1 DEF ReadRules
<1>3. ASSUME NEW c \in Checks, NEW r \in Rules, ReadMethods(c, r)
      PROVE  CheckTypes'
  <2>1. [x \in DOMAIN loaded[c] \cup {r} |->
            IF x = r THEN methods[r] ELSE loaded[c][x]] \in Loaded
    <3>1. loaded[c] \in Loaded /\ methods[r] \in SUBSET Methods
      BY DEF RuleTypes
    <3>. QED  BY <3>1, LoadOne
  <2>. QED  BY <1>3, <2>1 DEF ReadMethods
<1>4. ASSUME NEW c \in Checks, Decide(c) PROVE CheckTypes'
  BY <1>4 DEF Decide
<1>5. ASSUME NEW c \in Checks, CheckEnds(c) \/ FailCheck(c) PROVE CheckTypes'
  BY <1>5, NoRulesLoaded DEF CheckEnds, FailCheck
<1>6. ASSUME UNCHANGED checkVars PROVE CheckTypes'
  BY <1>6 DEF checkVars
<1>. QED
  BY <1>1, <1>2, <1>3, <1>4, <1>5, <1>6
  DEF Step, CreateEndpoint, EditMethods, ClearMethods, InsertMethod, EndSet, FailSet,
      Attach, DeleteEndpoint

LEMMA HistoryTypesStep ==
    ASSUME HistoryTypes, Observe
    PROVE  HistoryTypes'
BY DEF HistoryTypes, Observe, Noted

LEMMA TypeStep == BlacklistTypeInv /\ [BlacklistNext]_blVars => BlacklistTypeInv'
<1> SUFFICES ASSUME BlacklistTypeInv, [BlacklistNext]_blVars
             PROVE  BlacklistTypeInv'
  OBVIOUS
<1>1. CASE BlacklistNext
  BY <1>1, RuleTypesStep, EditTypesStep, CheckTypesStep, HistoryTypesStep
  DEF BlacklistTypeInv, BlacklistNext
<1>2. CASE UNCHANGED blVars
  BY <1>2 DEF blVars, BlacklistTypeInv, RuleTypes, EditTypes, CheckTypes,
              HistoryTypes
<1>. QED  BY <1>1, <1>2

\* Rules and what is attached to them stay consistent: methods and attachments
\* belong to rows that exist, whatever an edit that runs against a deletion
\* does (SetBlockedMethods, the foreign keys of the schema).
THEOREM BlacklistTypeTheorem == BlacklistSpec => []BlacklistTypeOK
BY TypeInit, TypeStep, TypeSuffices, PTL DEF BlacklistSpec

-----------------------------------------------------------------------------
(* Standing rules.                                                         *)

\* What check c has read of rule r blocks its request.
ReadAsBlocking(r, c) ==
    /\ r \in DOMAIN loaded[c]
    /\ PathMatches(r, path[c])
    /\ MethodBlocked(loaded[c][r], method[c])

\* A check in progress has noted every rule that is not in force now, and once
\* the rules are read each one is noted, still to be read or read as blocking.
CheckInv(c) ==
    /\ Checking(c) => \A r \in Rules : ~Blocks(r, c) => r \in wasOpen[c]
    /\ pc[c] = "methods" =>
          \A r \in Rules :
              r \in wasOpen[c] \/ r \in unread[c] \/ ReadAsBlocking(r, c)
    /\ pc[c] = "passed" => wasOpen[c] = Rules

StandingInv == \A c \in Checks : CheckInv(c)

LEMMA StandingInit == BlacklistInit => StandingInv
BY DEF BlacklistInit, StandingInv, CheckInv, Checking

\* What Observe does to the note of a check in progress.
LEMMA Notes ==
    ASSUME HistoryTypes, Observe, NEW c \in Checks, Checking(c)'
    PROVE  /\ \A r \in Rules : ~Blocks(r, c)' => r \in wasOpen'[c]
           /\ Checking(c) => wasOpen[c] \subseteq wasOpen'[c]
BY DEF HistoryTypes, Observe, Noted

\* A check that does not move.
LEMMA CheckKept ==
    ASSUME BlacklistTypeInv, NEW c \in Checks, CheckInv(c), Observe,
           pc'[c] = pc[c], method'[c] = method[c], path'[c] = path[c],
           unread'[c] = unread[c], loaded'[c] = loaded[c]
    PROVE  CheckInv(c)'
<1>1. CASE Checking(c)
  <2>1. Checking(c)' /\ pc'[c] # "passed"
    BY <1>1 DEF Checking
  <2>2. \A r \in Rules : ReadAsBlocking(r, c) => ReadAsBlocking(r, c)'
    BY DEF ReadAsBlocking
  <2>. QED  BY <1>1, <2>1, <2>2, Notes DEF BlacklistTypeInv, CheckInv
<1>2. CASE ~Checking(c)
  <2>1. ~Checking(c)' /\ pc'[c] # "methods"
    BY <1>2 DEF Checking
  <2>2. pc'[c] = "passed" => wasOpen'[c] = wasOpen[c]
    BY <2>1 DEF Observe, Noted
  <2>. QED  BY <2>1, <2>2 DEF CheckInv
<1>. QED  BY <1>1, <1>2

\* The steps of the check itself.
LEMMA CheckMoves ==
    ASSUME BlacklistTypeInv, BlacklistTypeInv', Observe,
           NEW c \in Checks, CheckInv(c),
           \/ \E m \in Methods, p \in Paths : CheckStarts(c, m, p)
           \/ ReadRules(c) \/ (\E r \in Rules : ReadMethods(c, r))
           \/ Decide(c) \/ CheckEnds(c) \/ FailCheck(c)
    PROVE  CheckInv(c)'
<1> USE DEF BlacklistTypeInv, CheckTypes
<1>1. ASSUME NEW m \in Methods, NEW p \in Paths, CheckStarts(c, m, p)
      PROVE  CheckInv(c)'
  <2>1. pc'[c] = "rules" /\ Checking(c)'
    BY <1>1 DEF CheckStarts, Checking
  <2>. QED  BY <2>1, Notes DEF CheckInv
<1>2. CASE ReadRules(c)
  <2>1. pc'[c] = "methods" /\ Checking(c)' /\ unread'[c] = RulesForLink'
    BY <1>2 DEF ReadRules, Checking, RulesForLink, ruleVars
  <2>2. \A r \in Rules : r \in unread'[c] \/ ~Blocks(r, c)'
    BY <2>1 DEF Blocks
  <2>. QED  BY <2>1, <2>2, Notes DEF CheckInv
<1>3. ASSUME NEW r \in Rules, ReadMethods(c, r) PROVE CheckInv(c)'
  <2>1. /\ pc[c] = "methods" /\ pc' = pc /\ path' = path /\ method' = method
        /\ methods' = methods /\ Checking(c) /\ Checking(c)'
        /\ unread'[c] = unread[c] \ {r}
    BY <1>3 DEF ReadMethods, ruleVars, Checking
  <2>2. loaded'[c] = [x \in DOMAIN loaded[c] \cup {r} |->
                         IF x = r THEN methods[r] ELSE loaded[c][x]]
    BY <1>3 DEF ReadMethods
  <2>3. ReadAsBlocking(r, c)' \/ ~Blocks(r, c)'
    BY <2>1, <2>2 DEF ReadAsBlocking, Blocks
  <2>4. \A x \in Rules \ {r} : ReadAsBlocking(x, c) => ReadAsBlocking(x, c)'
    BY <2>1, <2>2 DEF ReadAsBlocking
  <2>5. \A x \in Rules :
            x \in wasOpen'[c] \/ x \in unread'[c] \/ ReadAsBlocking(x, c)'
    BY <2>1, <2>3, <2>4, Notes DEF CheckInv
  <2>. QED  BY <2>1, <2>5, Notes DEF CheckInv
<1>4. CASE Decide(c)
  <2>1. pc'[c] \in {"blocked", "passed"} /\ pc[c] = "methods" /\ unread[c] = {}
    BY <1>4 DEF Decide
  <2>2. wasOpen'[c] = wasOpen[c]
    BY <2>1 DEF Observe, Noted, Checking
  <2>3. ASSUME pc'[c] = "passed" PROVE wasOpen[c] = Rules
    <3>1. ~MatchRules(loaded[c], method[c], path[c])
      BY <1>4, <2>3 DEF Decide
    <3>2. \A r \in Rules : ~ReadAsBlocking(r, c)
      BY <3>1 DEF MatchRules, ReadAsBlocking
    <3>. QED  BY <2>1, <3>2 DEF CheckInv, HistoryTypes
  <2>. QED  BY <2>1, <2>2, <2>3 DEF CheckInv, Checking
<1>5. CASE CheckEnds(c) \/ FailCheck(c)
  <2>1. pc'[c] = "idle"
    BY <1>5 DEF CheckEnds, FailCheck
  <2>. QED  BY <2>1 DEF CheckInv, Checking
<1>. QED  BY <1>1, <1>2, <1>3, <1>4, <1>5

\* A step moves at most one check.
LEMMA OthersKept ==
    ASSUME CheckTypes, Step, NEW c \in Checks
    PROVE  \/ \E m \in Methods, p \in Paths : CheckStarts(c, m, p)
           \/ ReadRules(c) \/ (\E r \in Rules : ReadMethods(c, r))
           \/ Decide(c) \/ CheckEnds(c) \/ FailCheck(c)
           \/ /\ pc'[c] = pc[c] /\ method'[c] = method[c] /\ path'[c] = path[c]
              /\ unread'[c] = unread[c] /\ loaded'[c] = loaded[c]
<1> DEFINE Kept == /\ pc'[c] = pc[c] /\ method'[c] = method[c] /\ path'[c] = path[c]
                   /\ unread'[c] = unread[c] /\ loaded'[c] = loaded[c]
<1> USE DEF CheckTypes
<1>1. ASSUME NEW d \in Checks, d # c,
             \/ \E m \in Methods, p \in Paths : CheckStarts(d, m, p)
             \/ ReadRules(d) \/ (\E r \in Rules : ReadMethods(d, r))
             \/ Decide(d) \/ CheckEnds(d) \/ FailCheck(d)
      PROVE  Kept
  BY <1>1 DEF CheckStarts, ReadRules, ReadMethods, Decide, CheckEnds, FailCheck
<1>2. ASSUME UNCHANGED checkVars PROVE Kept
  BY <1>2 DEF checkVars
<1>3. CASE \/ \E r \in Rules, ms \in Edits : CreateEndpoint(r, ms) \/ EditMethods(r, ms)
           \/ ClearMethods \/ InsertMethod \/ EndSet \/ FailSet
           \/ \E r \in Rules : Attach(r) \/ DeleteEndpoint(r)
  <2>1. UNCHANGED checkVars
    BY <1>3 DEF CreateEndpoint, EditMethods, ClearMethods, InsertMethod, EndSet,
                FailSet, Attach, DeleteEndpoint
  <2>. QED  BY <1>2, <2>1
<1> HIDE DEF Kept
<1>. QED  BY <1>1, <1>3 DEF Step, Kept

LEMMA StandingStep ==
    BlacklistTypeInv /\ BlacklistTypeInv' /\ StandingInv /\ [BlacklistNext]_blVars
        => StandingInv'
<1> SUFFICES ASSUME BlacklistTypeInv, BlacklistTypeInv', StandingInv,
                    [BlacklistNext]_blVars, NEW c \in Checks
             PROVE  CheckInv(c)'
  BY DEF StandingInv
<1>1. CheckInv(c)
  BY DEF StandingInv
<1>2. CASE BlacklistNext
  <2>1. Step /\ Observe
    BY <1>2 DEF BlacklistNext
  <2>. QED  BY <1>1, <2>1, OthersKept, CheckMoves, CheckKept DEF BlacklistTypeInv
<1>3. CASE UNCHANGED blVars
  BY <1>1, <1>3
  DEF blVars, CheckInv, Checking, Blocks, ReadAsBlocking, RulesForLink
<1>. QED  BY <1>2, <1>3

\* A rule that is attached and blocks the request throughout a check is never
\* overlooked, although the rules and their methods are read at different times
\* and owners edit them meanwhile (RulesForLink, MatchRules).
THEOREM StandingRuleTheorem == BlacklistSpec => []StandingRuleBlocks
<1>1. BlacklistInit => BlacklistTypeInv /\ StandingInv
  BY TypeInit, StandingInit
<1>2. (BlacklistTypeInv /\ StandingInv) /\ [BlacklistNext]_blVars
          => (BlacklistTypeInv /\ StandingInv)'
  BY TypeStep, StandingStep
<1>3. StandingInv => StandingRuleBlocks
  BY DEF StandingInv, CheckInv, StandingRuleBlocks
<1>. QED  BY <1>1, <1>2, <1>3, PTL DEF BlacklistSpec
=============================================================================
