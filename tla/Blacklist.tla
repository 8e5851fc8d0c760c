----------------------------- MODULE Blacklist -----------------------------
(***************************************************************************)
(* The endpoint blacklist: owners edit rules (handlers_blacklist.go and    *)
(* BlacklistRepo) while guest requests are checked against them            *)
(* (BlacklistService.Check).  Every SQL statement is a step of its own:    *)
(* SetBlockedMethods clears and refills a rule's methods outside any       *)
(* transaction, and RulesForLink reads the rules first and the methods of  *)
(* each rule after that.                                                   *)
(*                                                                         *)
(* One link and its target site; a rule is attached to either.             *)
(***************************************************************************)
EXTENDS Integers, Sequences, FiniteSets

CONSTANTS
    Rules,       \* blacklisted_endpoints rows
    Methods,     \* HTTP methods
    Paths,       \* forward paths
    Hits,        \* Rules -> the paths the pattern matches
    Broken,      \* rules whose regex does not compile
    Checks,      \* guest requests being checked
    Edits,       \* the method lists an owner may send
    MaxEdits,    \* bound: owner operations
    QueryFails   \* whether a statement may fail

ASSUME BlacklistAssumption ==
    /\ IsFiniteSet(Rules)
    /\ Hits \in [Rules -> SUBSET Paths]
    /\ Broken \subseteq Rules
    /\ Edits \subseteq Seq(Methods)
    /\ MaxEdits \in Nat
    /\ QueryFails \in BOOLEAN

VARIABLES
    rules,      \* blacklisted_endpoints
    methods,    \* endpoint_blocked_methods: Rules -> set of methods
    onSite,     \* site_endpoint_rules of the link's site
    onLink,     \* link_endpoint_rules of the link
    editing,    \* the rule SetBlockedMethods works on, NoRule if it does not run
    todo,       \* SetBlockedMethods: "delete" comes first, then these inserts
    cleared,    \* SetBlockedMethods: the DELETE has been executed
    edits,      \* number of owner operations so far
    pc,         \* Checks -> where the check is
    method,     \* Checks -> method of the request
    path,       \* Checks -> forward path of the request
    unread,     \* Checks -> rules whose methods are not read yet
    loaded,     \* Checks -> rules with the methods that were read
    wasOpen,    \* history: Checks -> rules that let the request through at
                \* some moment since the check began
    intended,   \* history: what both the list SetBlockedMethods replaces and
                \* the one it writes block
    wasFree     \* history: as wasOpen, for what the owner intends

ruleVars == <<rules, methods, onSite, onLink>>
editVars == <<editing, todo, cleared, edits>>
checkVars == <<pc, method, path, unread, loaded>>
blVars == <<rules, methods, onSite, onLink, editing, todo, cleared, edits, pc,
            method, path, unread, loaded, wasOpen, intended, wasFree>>

NoRule == "none"

BlacklistTypeOK ==
    /\ rules \subseteq Rules
    /\ methods \in [Rules -> SUBSET Methods]
    /\ \A r \in Rules : methods[r] # {} => r \in rules
    /\ onSite \subseteq rules
    /\ onLink \subseteq rules
    /\ editing \in Rules \cup {NoRule}
    /\ todo \in Seq(Methods)
    /\ cleared \in BOOLEAN
    /\ edits \in 0..MaxEdits
    /\ pc \in [Checks -> {"idle", "rules", "methods", "blocked", "passed"}]
    /\ method \in [Checks -> Methods]
    /\ path \in [Checks -> Paths]
    /\ unread \in [Checks -> SUBSET Rules]
    /\ \A c \in Checks :
          /\ DOMAIN loaded[c] \subseteq Rules
          /\ \A r \in DOMAIN loaded[c] : loaded[c][r] \subseteq Methods
    /\ wasOpen \in [Checks -> SUBSET Rules]
    /\ intended \subseteq Methods
    /\ wasFree \in [Checks -> SUBSET Rules]

NoRules == [r \in {} |-> {}]

BlacklistInit ==
    /\ rules = {}
    /\ methods = [r \in Rules |-> {}]
    /\ onSite = {}
    /\ onLink = {}
    /\ editing = NoRule
    /\ todo = <<>>
    /\ cleared = FALSE
    /\ edits = 0
    /\ pc = [c \in Checks |-> "idle"]
    /\ method \in [Checks -> Methods]
    /\ path \in [Checks -> Paths]
    /\ unread = [c \in Checks |-> {}]
    /\ loaded = [c \in Checks |-> NoRules]
    /\ wasOpen = [c \in Checks |-> {}]
    /\ intended = {}
    /\ wasFree = [c \in Checks |-> {}]

-----------------------------------------------------------------------------
(* Matching.                                                               *)

\* pathMatches: a pattern that does not compile matches everything.
PathMatches(r, p) == p \in Hits[r] \/ r \in Broken

\* An empty list of methods blocks them all.
MethodBlocked(ms, m) == ms = {} \/ m \in ms

\* MatchRules on the rules a check has loaded.
MatchRules(rs, m, p) ==
    \E r \in DOMAIN rs : PathMatches(r, p) /\ MethodBlocked(rs[r], m)

\* The rules of the link: the union of both attachments.
RulesForLink == onSite \cup onLink

-----------------------------------------------------------------------------
(* The owner.                                                              *)

\* SetBlockedMethods is called for r with list ms.
StartSet(r, ms) ==
    /\ editing' = r
    /\ todo' = ms
    /\ cleared' = FALSE

Elements(ms) == {ms[i] : i \in DOMAIN ms}

\* The methods that are blocked by the list in force.
InForce(r) == {m \in Methods : MethodBlocked(methods[r], m)}

Requested(ms) == {m \in Methods : MethodBlocked(Elements(ms), m)}

Budget == edits < MaxEdits /\ edits' = edits + 1

\* handleCreateBlacklistEndpoint: the row, then the methods if there are any.
CreateEndpoint(r, ms) ==
    /\ editing = NoRule
    /\ r \notin rules
    /\ Budget
    /\ rules' = rules \cup {r}
    /\ IF ms = <<>> THEN UNCHANGED <<editing, todo, cleared>> ELSE StartSet(r, ms)
    /\ intended' = {}
    /\ UNCHANGED <<methods, onSite, onLink, checkVars>>

\* handleSetBlockedMethods, up to the call of SetBlockedMethods.
EditMethods(r, ms) ==
    /\ editing = NoRule
    /\ r \in rules
    /\ Budget
    /\ StartSet(r, ms)
    /\ intended' = InForce(r) \cap Requested(ms)
    /\ UNCHANGED <<ruleVars, checkVars>>

\* SetBlockedMethods: DELETE.
ClearMethods ==
    /\ editing # NoRule
    /\ ~cleared
    /\ methods' = [methods EXCEPT ![editing] = {}]
    /\ cleared' = TRUE
    /\ UNCHANGED <<rules, onSite, onLink, editing, todo, edits, checkVars,
                   intended>>

\* SetBlockedMethods: the next INSERT.  A method that is listed twice violates
\* the primary key, a rule that was deleted the foreign key: it returns.
InsertMethod ==
    /\ editing # NoRule
    /\ cleared
    /\ todo # <<>>
    /\ IF editing \in rules /\ Head(todo) \notin methods[editing]
       THEN /\ methods' = [methods EXCEPT ![editing] = @ \cup {Head(todo)}]
            /\ todo' = Tail(todo)
            /\ UNCHANGED <<editing, cleared, intended>>
       ELSE /\ editing' = NoRule
            /\ todo' = <<>>
            /\ cleared' = FALSE
            /\ intended' = {}
            /\ UNCHANGED methods
    /\ UNCHANGED <<rules, onSite, onLink, edits, checkVars>>

\* SetBlockedMethods returns: all methods are stored.
EndSet ==
    /\ editing # NoRule
    /\ cleared
    /\ todo = <<>>
    /\ editing' = NoRule
    /\ cleared' = FALSE
    /\ intended' = {}
    /\ UNCHANGED <<ruleVars, todo, edits, checkVars>>

\* A statement of SetBlockedMethods fails: it returns with what it has done.
FailSet ==
    /\ QueryFails
    /\ editing # NoRule
    /\ editing' = NoRule
    /\ todo' = <<>>
    /\ cleared' = FALSE
    /\ intended' = {}
    /\ UNCHANGED <<ruleVars, edits, checkVars>>

\* handleAttachBlacklistToSite, handleAttachEndpointToLink.
Attach(r) ==
    /\ r \in rules
    /\ Budget
    /\ \/ onSite' = onSite \cup {r} /\ UNCHANGED onLink
       \/ onLink' = onLink \cup {r} /\ UNCHANGED onSite
    /\ UNCHANGED <<rules, methods, editing, todo, cleared, checkVars, intended>>

\* The attachments survive the rule.
DeleteRowOnly(r) ==
    /\ r \in rules
    /\ Budget
    /\ rules' = rules \ {r}
    /\ UNCHANGED <<methods, onSite, onLink, editing, todo, cleared, checkVars,
                   intended>>

\* handleDeleteBlacklistEndpoint: the row, and by cascade what refers to it.
DeleteEndpoint(r) ==
    /\ r \in rules
    /\ Budget
    /\ rules' = rules \ {r}
    /\ methods' = [methods EXCEPT ![r] = {}]
    /\ onSite' = onSite \ {r}
    /\ onLink' = onLink \ {r}
    /\ UNCHANGED <<editing, todo, cleared, checkVars, intended>>

-----------------------------------------------------------------------------
(* A guest request: BlacklistService.Check.                                *)

CheckStarts(c, m, p) ==
    /\ pc[c] = "idle"
    /\ pc' = [pc EXCEPT ![c] = "rules"]
    /\ method' = [method EXCEPT ![c] = m]
    /\ path' = [path EXCEPT ![c] = p]
    /\ UNCHANGED <<unread, loaded, ruleVars, editVars, intended>>

\* The second half of the UNION is missing.
ReadSiteRules(c) ==
    /\ pc[c] = "rules"
    /\ pc' = [pc EXCEPT ![c] = "methods"]
    /\ unread' = [unread EXCEPT ![c] = onSite]
    /\ UNCHANGED <<method, path, loaded, ruleVars, editVars, intended>>

\* RulesForLink, the UNION query.
ReadRules(c) ==
    /\ pc[c] = "rules"
    /\ pc' = [pc EXCEPT ![c] = "methods"]
    /\ unread' = [unread EXCEPT ![c] = RulesForLink]
    /\ UNCHANGED <<method, path, loaded, ruleVars, editVars, intended>>

\* RulesForLink, blockedMethods of one rule (none if it is gone by now).
ReadMethods(c, r) ==
    /\ pc[c] = "methods"
    /\ r \in unread[c]
    /\ unread' = [unread EXCEPT ![c] = @ \ {r}]
    /\ loaded' = [loaded EXCEPT ![c] =
                    [x \in DOMAIN @ \cup {r} |->
                        IF x = r THEN methods[r] ELSE @[x]]]
    /\ UNCHANGED <<pc, method, path, ruleVars, editVars, intended>>

\* MatchRules.
Decide(c) ==
    /\ pc[c] = "methods"
    /\ unread[c] = {}
    /\ pc' = [pc EXCEPT ![c] = IF MatchRules(loaded[c], method[c], path[c])
                               THEN "blocked" ELSE "passed"]
    /\ UNCHANGED <<method, path, unread, loaded, ruleVars, editVars, intended>>

\* The request is over.
CheckEnds(c) ==
    /\ pc[c] \in {"blocked", "passed"}
    /\ pc' = [pc EXCEPT ![c] = "idle"]
    /\ loaded' = [loaded EXCEPT ![c] = NoRules]
    /\ UNCHANGED <<method, path, unread, ruleVars, editVars, intended>>

\* A query of RulesForLink fails: the request is answered with an error.
FailCheck(c) ==
    /\ QueryFails
    /\ pc[c] \in {"rules", "methods"}
    /\ pc' = [pc EXCEPT ![c] = "idle"]
    /\ unread' = [unread EXCEPT ![c] = {}]
    /\ loaded' = [loaded EXCEPT ![c] = NoRules]
    /\ UNCHANGED <<method, path, ruleVars, editVars, intended>>

Checking(c) == pc[c] \in {"rules", "methods"}

\* Rule r, as the tables are now, blocks the request that check c is about.
Blocks(r, c) ==
    /\ r \in RulesForLink
    /\ PathMatches(r, path[c])
    /\ MethodBlocked(methods[r], method[c])

Step ==
    \/ \E r \in Rules, ms \in Edits : CreateEndpoint(r, ms) \/ EditMethods(r, ms)
    \/ ClearMethods \/ InsertMethod \/ EndSet \/ FailSet
    \/ \E r \in Rules : Attach(r) \/ DeleteEndpoint(r)
    \/ \E c \in Checks, m \in Methods, p \in Paths : CheckStarts(c, m, p)
    \/ \E c \in Checks : ReadRules(c) \/ Decide(c) \/ CheckEnds(c)
                        \/ FailCheck(c)
    \/ \E c \in Checks, r \in Rules : ReadMethods(c, r)

\* What the owner has asked of rule r: while its list is being replaced, no
\* less than what the old list and the new one have in common.
Intends(r, c) ==
    /\ r \in RulesForLink
    /\ PathMatches(r, path[c])
    /\ IF r = editing THEN method[c] \in intended
       ELSE MethodBlocked(methods[r], method[c])

\* The rules of now, added to those of the check so far.
Noted(sofar, c, now) ==
    IF Checking(c)' THEN (IF Checking(c) THEN sofar ELSE {}) \cup now
    ELSE IF pc'[c] = "idle" THEN {} ELSE sofar

\* While a check runs, the history notes every rule that lets it through.
Observe ==
    /\ wasOpen' = [c \in Checks |->
                     Noted(wasOpen[c], c, {r \in Rules : ~Blocks(r, c)'})]
    /\ wasFree' = [c \in Checks |->
                     Noted(wasFree[c], c, {r \in Rules : ~Intends(r, c)'})]

BlacklistNext == Step /\ Observe

BlacklistSpec == BlacklistInit /\ [][BlacklistNext]_blVars

-----------------------------------------------------------------------------
(* Properties.                                                             *)

\* A request is let through only if every rule that could block it was, at
\* some moment during the check, not in force: although the rules and their
\* methods are read at different times, a rule that is attached and blocks
\* the request throughout is never overlooked (RulesForLink, MatchRules).
StandingRuleBlocks == \A c \in Checks : pc[c] = "passed" => wasOpen[c] = Rules

-----------------------------------------------------------------------------
(* What the repository's documentation says, and the code does not do.     *)

\* "access to any path that falls under blacklisted_endpoints is logged"
\* (business rule 6): a request that an attached rule blocks before an edit of
\* its methods and after it does not pass while the edit is under way.
EditKeepsBlocking == \A c \in Checks : pc[c] = "passed" => wasFree[c] = Rules
=============================================================================
