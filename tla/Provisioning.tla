---------------------------- MODULE Provisioning ----------------------------
(***************************************************************************)
(* What an owner sets up before guests come: target sites and imported     *)
(* sessions (SessionImportService.Import, TargetSiteRepo                   *)
(* .GetOrCreateByDomain) and shared links with their policies and          *)
(* blacklist rules (LinkService.CreateLink).  Each is a row of single SQL  *)
(* statements outside any transaction, and a step of the model is one of   *)
(* them; several API calls run at the same time and each may fail between  *)
(* two statements.                                                         *)
(*                                                                         *)
(* Sites, sessions and links are numbered in the order of insertion.       *)
(***************************************************************************)
EXTENDS Integers, Sequences, FiniteSets

CONSTANTS
    Calls,         \* API calls served at the same time
    Users,
    Domains,       \* base_domain values
    URLs,          \* base_url values
    Credentials,   \* the cookies and tokens of an import, in order
    Policies,      \* access_policies rows
    Rules,         \* blacklisted_endpoints rows
    Requested,     \* the lists of policies and rules a CreateLink may name
    MaxCalls,      \* bound: calls started
    DBFails        \* whether a statement may fail

ASSUME ProvisioningAssumption ==
    /\ IsFiniteSet(Calls) /\ Calls # {}
    /\ Credentials \in Seq(STRING) \ {<<>>}
    /\ Policies \cap Rules = {}
    /\ Requested \subseteq Seq(Policies \cup Rules)
    /\ MaxCalls \in Nat
    /\ DBFails \in BOOLEAN

VARIABLES
    pc,         \* Calls -> where the call is
    user,       \* Calls -> the authenticated user
    target,     \* Calls -> base_domain and base_url of the request
    row,        \* Calls -> the site, session or link the call works on
    todo,       \* Calls -> the rows it still has to insert
    sites,      \* target_sites, see SiteRows
    sessions,   \* original_sessions with their credentials, see SessionRows
    links,      \* shared_links with what is attached to them, see LinkRows
    config,     \* Attachable -> whether the row exists
    siteRules,  \* site_endpoint_rules: pairs of a site and a rule
    blind,      \* history: lookups of an existing site that failed
    started     \* number of calls so far

tables == <<sites, sessions, links, config, siteRules>>
provVars == <<pc, user, target, row, todo, sites, sessions, links, config,
              siteRules, blind, started>>

None == 0
NoUser == ""

SiteRows == [domain : Domains, url : URLs]
NoSite == [domain |-> "", url |-> ""]

Attachable == Policies \cup Rules

Existing == {x \in Attachable : config[x] = "exists"}

\* told is history: the call that inserted the row has answered 201.
SessionRows == [user : Users, site : DOMAIN sites, creds : Seq(STRING),
                told : BOOLEAN]

\* asked and told are history: the list CreateLink was given, its answer.
LinkRows == [session : DOMAIN sessions, attached : SUBSET Existing,
             asked : Requested, told : BOOLEAN]

ProvisioningTypeOK ==
    /\ pc \in [Calls -> {"idle", "findSite", "insertSite",
                         "insertSession", "insertCreds", "insertLink", "attach"}]
    /\ user \in [Calls -> Users \cup {NoUser}]
    /\ target \in [Calls -> SiteRows \cup {NoSite}]
    /\ row \in [Calls -> Nat]
    /\ sites \in Seq(SiteRows)
    /\ sessions \in Seq(SessionRows)
    /\ links \in Seq(LinkRows)
    /\ config \in [Attachable -> {"never", "exists", "deleted"}]
    /\ siteRules \subseteq (DOMAIN sites) \X (Rules \cap Existing)
    /\ blind \in 0..MaxCalls
    /\ started \in 0..MaxCalls

ProvisioningInit ==
    /\ pc = [c \in Calls |-> "idle"]
    /\ user = [c \in Calls |-> NoUser]
    /\ target = [c \in Calls |-> NoSite]
    /\ row = [c \in Calls |-> None]
    /\ todo = [c \in Calls |-> <<>>]
    /\ sites = <<>>
    /\ sessions = <<>>
    /\ links = <<>>
    /\ config = [x \in Attachable |-> "never"]
    /\ siteRules = {}
    /\ blind = 0
    /\ started = 0

Goto(c, where) == pc' = [pc EXCEPT ![c] = where]

\* The call answers; its locals are gone.
Return(c) ==
    /\ Goto(c, "idle")
    /\ user' = [user EXCEPT ![c] = NoUser]
    /\ target' = [target EXCEPT ![c] = NoSite]
    /\ row' = [row EXCEPT ![c] = None]
    /\ todo' = [todo EXCEPT ![c] = <<>>]

\* A handler, of REST, of gRPC or of the dashboard, starts on the call.
Begin(c, where) ==
    /\ pc[c] = "idle"
    /\ started < MaxCalls
    /\ started' = started + 1
    /\ Goto(c, where)
    /\ UNCHANGED blind

-----------------------------------------------------------------------------
(* Sites and sessions.                                                     *)

\* handleImportSession (or the form of the dashboard, or the gRPC call).
StartImport(c, u, site) ==
    /\ Begin(c, "findSite")
    /\ user' = [user EXCEPT ![c] = u]
    /\ target' = [target EXCEPT ![c] = site]
    /\ todo' = [todo EXCEPT ![c] = Credentials]
    /\ UNCHANGED <<row, tables>>

\* handleCreateTargetSite: GetOrCreateByDomain and nothing else.
StartCreateSite(c, site) ==
    /\ Begin(c, "findSite")
    /\ target' = [target EXCEPT ![c] = site]
    /\ UNCHANGED <<user, row, todo, tables>>

SitesOf(d) == {i \in DOMAIN sites : sites[i].domain = d}

\* An import goes on with its session, handleCreateTargetSite answers.
HaveSite(c, i) ==
    IF todo[c] = <<>> THEN Return(c)
    ELSE /\ Goto(c, "insertSession")
         /\ row' = [row EXCEPT ![c] = i]
         /\ UNCHANGED <<user, target, todo>>

\* GetOrCreateByDomain brings the row it finds up to date.
FindSiteAndUpdate(c) ==
    /\ pc[c] = "findSite"
    /\ \/ \E i \in SitesOf(target[c].domain) :
             HaveSite(c, i) /\ sites' = [sites EXCEPT ![i] = target[c]]
       \/ /\ SitesOf(target[c].domain) = {}
          /\ Goto(c, "insertSite")
          /\ UNCHANGED <<user, target, row, todo, sites>>
    /\ UNCHANGED <<sessions, links, config, siteRules, blind, started>>

\* GetOrCreateByDomain always inserts.
FindSiteNever(c) ==
    /\ pc[c] = "findSite"
    /\ Goto(c, "insertSite")
    /\ UNCHANGED <<user, target, row, todo, tables, blind, started>>

\* GetOrCreateByDomain: SELECT ... LIMIT 1 in no particular order, whatever its
\* base_url; no row, and any error, lead to the INSERT.
FindSite(c) ==
    /\ pc[c] = "findSite"
    /\ \/ \E i \in SitesOf(target[c].domain) : HaveSite(c, i) /\ UNCHANGED blind
       \/ /\ SitesOf(target[c].domain) = {}
          /\ Goto(c, "insertSite")
          /\ UNCHANGED <<user, target, row, todo, blind>>
       \/ /\ SitesOf(target[c].domain) # {} /\ DBFails
          /\ Goto(c, "insertSite")
          /\ blind' = blind + 1
          /\ UNCHANGED <<user, target, row, todo>>
    /\ UNCHANGED <<tables, started>>

\* GetOrCreateByDomain: INSERT.
InsertSite(c) ==
    /\ pc[c] = "insertSite"
    /\ sites' = Append(sites, target[c])
    /\ HaveSite(c, Len(sites) + 1)
    /\ UNCHANGED <<sessions, links, config, siteRules, blind, started>>

\* Import: original_sessions.
InsertSession(c) ==
    /\ pc[c] = "insertSession"
    /\ sessions' = Append(sessions, [user |-> user[c], site |-> row[c],
                                     creds |-> <<>>, told |-> FALSE])
    /\ row' = [row EXCEPT ![c] = Len(sessions) + 1]
    /\ Goto(c, "insertCreds")
    /\ UNCHANGED <<user, target, todo, sites, links, config, siteRules, blind, started>>

\* CreateBatch of cookies, then of tokens: one INSERT per row.
InsertCredential(c) ==
    /\ pc[c] = "insertCreds"
    /\ todo[c] # <<>>
    /\ sessions' = [sessions EXCEPT ![row[c]].creds = Append(@, Head(todo[c]))]
    /\ todo' = [todo EXCEPT ![c] = Tail(@)]
    /\ UNCHANGED <<pc, user, target, row, sites, links, config, siteRules,
                   blind, started>>

\* Import returns: 201.
ImportReturns(c) ==
    /\ pc[c] = "insertCreds"
    /\ todo[c] = <<>>
    /\ sessions' = [sessions EXCEPT ![row[c]].told = TRUE]
    /\ Return(c)
    /\ UNCHANGED <<sites, links, config, siteRules, blind, started>>

\* handleAttachBlacklistToSite; the foreign key refuses a rule deleted since the
\* handler looked it up.
AttachToSite(i, r) ==
    /\ r \in Existing
    /\ <<i, r>> \notin siteRules
    /\ siteRules' = siteRules \cup {<<i, r>>}
    /\ UNCHANGED <<pc, user, target, row, todo, sites, sessions, links, config,
                   blind, started>>

-----------------------------------------------------------------------------
(* Links.                                                                  *)

\* CreateLink has loaded session s and found that it belongs to u (a session
\* stays active once it exists).  The list names rows the owner has, or had.
StartCreateLink(c, u, s, list) ==
    /\ sessions[s].user = u
    /\ \A i \in DOMAIN list : config[list[i]] # "never"
    /\ Begin(c, "insertLink")
    /\ user' = [user EXCEPT ![c] = u]
    /\ row' = [row EXCEPT ![c] = s]
    /\ todo' = [todo EXCEPT ![c] = list]
    /\ UNCHANGED <<target, tables>>

\* CreateLink: shared_links; the link is active from here on.
InsertLink(c) ==
    /\ pc[c] = "insertLink"
    /\ links' = Append(links, [session |-> row[c], attached |-> {},
                               asked |-> todo[c], told |-> FALSE])
    /\ row' = [row EXCEPT ![c] = Len(links) + 1]
    /\ Goto(c, "attach")
    /\ UNCHANGED <<user, target, todo, sites, sessions, config, siteRules,
                   blind, started>>

\* CreateLink: AttachToLink of the next policy, then of the next rule.  One
\* that was deleted meanwhile violates the foreign key: 500.
AttachNext(c) ==
    /\ pc[c] = "attach"
    /\ todo[c] # <<>>
    /\ IF Head(todo[c]) \in Existing
       THEN /\ links' = [links EXCEPT ![row[c]].attached = @ \cup {Head(todo[c])}]
            /\ todo' = [todo EXCEPT ![c] = Tail(@)]
            /\ UNCHANGED <<pc, user, target, row>>
       ELSE Return(c) /\ UNCHANGED links
    /\ UNCHANGED <<sites, sessions, config, siteRules, blind, started>>

\* CreateLink returns: 201.
CreateLinkReturns(c) ==
    /\ pc[c] = "attach"
    /\ todo[c] = <<>>
    /\ links' = [links EXCEPT ![row[c]].told = TRUE]
    /\ Return(c)
    /\ UNCHANGED <<sites, sessions, config, siteRules, blind, started>>

\* handleAttachEndpointToLink: the owner adds a rule to a link.
AttachEndpointToLink(l, r) ==
    /\ r \in Existing
    /\ r \notin links[l].attached
    /\ links' = [links EXCEPT ![l].attached = @ \cup {r}]
    /\ UNCHANGED <<pc, user, target, row, todo, sites, sessions, config,
                   siteRules, blind, started>>

\* handleCreatePolicy, handleCreateBlacklistEndpoint: a row with a new id.
CreateRow(x) ==
    /\ config[x] = "never"
    /\ config' = [config EXCEPT ![x] = "exists"]
    /\ UNCHANGED <<pc, user, target, row, todo, sites, sessions, links, siteRules,
                   blind, started>>

\* The links keep referring to the row.
DeleteRowOnly(x) ==
    /\ x \in Existing
    /\ config' = [config EXCEPT ![x] = "deleted"]
    /\ UNCHANGED <<pc, user, target, row, todo, sites, sessions, links, siteRules,
                   blind, started>>

\* handleDeletePolicy, handleDeleteBlacklistEndpoint: the row, and by cascade
\* its link_policies, or its link_endpoint_rules and site_endpoint_rules.
DeleteRow(x) ==
    /\ x \in Existing
    /\ config' = [config EXCEPT ![x] = "deleted"]
    /\ links' = [l \in DOMAIN links |-> [links[l] EXCEPT !.attached = @ \ {x}]]
    /\ siteRules' = {pair \in siteRules : pair[2] # x}
    /\ UNCHANGED <<pc, user, target, row, todo, sites, sessions, blind, started>>

-----------------------------------------------------------------------------

\* An error of CreateBatch or AttachToLink is only logged.
FailSkipsRow(c) ==
    /\ DBFails
    /\ pc[c] \in {"insertCreds", "attach"}
    /\ todo[c] # <<>>
    /\ todo' = [todo EXCEPT ![c] = Tail(@)]
    /\ UNCHANGED <<pc, user, target, row, tables, blind, started>>

\* A statement fails, or the process dies: what was done stays done, and the
\* caller gets a 500 without the row, or no answer at all.
FailCall(c) ==
    /\ DBFails
    /\ pc[c] # "idle"
    /\ Return(c)
    /\ UNCHANGED <<tables, blind, started>>

CallStep(c) ==
    \/ FindSite(c) \/ InsertSite(c)
    \/ InsertSession(c) \/ InsertCredential(c) \/ ImportReturns(c)
    \/ InsertLink(c) \/ AttachNext(c) \/ CreateLinkReturns(c)

ProvisioningNext ==
    \/ \E c \in Calls, site \in SiteRows :
          StartCreateSite(c, site) \/ \E u \in Users : StartImport(c, u, site)
    \/ \E c \in Calls, u \in Users, s \in DOMAIN sessions, list \in Requested :
          StartCreateLink(c, u, s, list)
    \/ \E c \in Calls : CallStep(c) \/ FailCall(c)
    \/ \E i \in DOMAIN sites, r \in Rules : AttachToSite(i, r)
    \/ \E l \in DOMAIN links, r \in Rules : AttachEndpointToLink(l, r)
    \/ \E x \in Attachable : CreateRow(x) \/ DeleteRow(x)

ProvisioningSpec == ProvisioningInit /\ [][ProvisioningNext]_provVars

-----------------------------------------------------------------------------
(* Properties.                                                             *)

\* What link l was to be given and still exists has been attached.
Configured(l) ==
    \A i \in DOMAIN links[l].asked :
        links[l].asked[i] \in Existing =>
            links[l].asked[i] \in links[l].attached

\* A 201 is never given for half of the work, although nothing is transactional
\* and the owner may delete rows meanwhile: a session that was acknowledged
\* has all its cookies and tokens in their order, a link all the policies and
\* rules that were asked for and were not deleted (Import, CreateLink).
AnsweredComplete ==
    /\ \A s \in DOMAIN sessions : sessions[s].told => sessions[s].creds = Credentials
    /\ \A l \in DOMAIN links : links[l].told => Configured(l)

\* Calls that are about to insert a site of domain d.
Inserting(d) == {c \in Calls : pc[c] = "insertSite" /\ target[c].domain = d}

\* "a rare benign race just produces two rows for the same domain": only calls
\* that were under way together, and lookups that failed, duplicate a site; a
\* domain that has its rows does not get more (GetOrCreateByDomain).
SitesBounded ==
    \A d \in Domains :
        Cardinality(SitesOf(d)) + Cardinality(Inserting(d))
            <= Cardinality(Calls) + blind

\* "each shared_link still points at one specific row": where the requests of a
\* session go is settled when it is imported, whatever base_url later imports of
\* the domain name and whatever rows they insert (GetOrCreateByDomain, Import).
TargetStays ==
    [][\A s \in DOMAIN sessions :
          sites'[sessions'[s].site] = sites[sessions[s].site]]_provVars

=============================================================================
