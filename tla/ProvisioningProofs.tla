------------------------ MODULE ProvisioningProofs -------------------------
(***************************************************************************)
(* Proofs about Provisioning: a 201 is never given for half of the work,   *)
(* only calls under way together and failed lookups duplicate a site, and  *)
(* a session stays with its target, for any number of calls, users, sites, *)
(* credentials, policies and rules.                                        *)
(***************************************************************************)
EXTENDS Provisioning, FiniteSetTheorems, SequenceTheorems, TLAPS

PCs == {"idle", "findSite", "insertSite", "insertSession", "insertCreds",
        "insertLink", "attach"}

Text == STRING

\* What a list of rows to insert consists of.
Items == Text \cup Policies \cup Rules

SessionRec == [user : Users, site : Nat, creds : Seq(Text), told : BOOLEAN]

LinkRec == [session : Nat, attached : SUBSET (Policies \cup Rules),
            asked : Requested, told : BOOLEAN]

-----------------------------------------------------------------------------
(* Types.                                                                  *)

\* The tables; foreign keys refer to rows that exist.
TablesOK ==
    /\ sites \in Seq(SiteRows)
    /\ sessions \in Seq(SessionRec)
    /\ \A s \in 1..Len(sessions) : sessions[s].site \in 1..Len(sites)
    /\ links \in Seq(LinkRec)
    /\ \A l \in 1..Len(links) : links[l].session \in 1..Len(sessions)
    /\ siteRules \subseteq (1..Len(sites)) \X Rules
    /\ \A pair \in siteRules : config[pair[2]] = "exists"
    /\ config \in [Attachable -> {"never", "exists", "deleted"}]

CallTypes ==
    /\ pc \in [Calls -> PCs]
    /\ user \in [Calls -> Users \cup {NoUser}]
    /\ target \in [Calls -> SiteRows \cup {NoSite}]
    /\ row \in [Calls -> Nat]
    /\ todo \in [Calls -> Seq(Items)]

\* What user, target, row and list of rows a call has where, when there are
\* so many sites, sessions and links.
Fit(nSites, nSessions, nLinks, where, u, t, n, q) ==
    /\ where = "idle" => q = <<>>
    /\ where \in {"findSite", "insertSite"} =>
          t \in SiteRows /\ (q # <<>> => q = Credentials /\ u \in Users)
    /\ where = "insertSession" => q = Credentials /\ u \in Users /\ n \in 1..nSites
    /\ where = "insertCreds" => q \in Seq(Text) /\ n \in 1..nSessions
    /\ where = "insertLink" => q \in Requested /\ n \in 1..nSessions
    /\ where = "attach" => q \in Seq(Policies \cup Rules) /\ n \in 1..nLinks

CallFit(c) == Fit(Len(sites), Len(sessions), Len(links),
                  pc[c], user[c], target[c], row[c], todo[c])

TypeInv ==
    /\ TablesOK /\ CallTypes
    /\ \A c \in Calls : CallFit(c)

\* What no step takes back.
RowsKept ==
    /\ Len(sites) <= Len(sites') /\ Len(sessions) <= Len(sessions')
    /\ Len(links) <= Len(links')
    /\ \A i \in 1..Len(sites) : sites'[i] = sites[i]
    /\ \A s \in 1..Len(sessions) : sessions'[s].site = sessions[s].site

\* Call c goes to where with user u, target t, row n and list q.
Move(c, where, u, t, n, q) ==
    /\ where \in PCs /\ pc' = [pc EXCEPT ![c] = where]
    /\ u \in Users \cup {NoUser} /\ user' = [user EXCEPT ![c] = u]
    /\ t \in SiteRows \cup {NoSite} /\ target' = [target EXCEPT ![c] = t]
    /\ n \in Nat /\ row' = [row EXCEPT ![c] = n]
    /\ q \in Seq(Items) /\ todo' = [todo EXCEPT ![c] = q]

LEMMA ListTypes ==
    /\ <<>> \in Seq(Items)
    /\ \A q \in Seq(Text) : q \in Seq(Items)
    /\ \A q \in Seq(Policies \cup Rules) : q \in Seq(Items)
    /\ \A q \in Requested : q \in Seq(Policies \cup Rules)
    /\ Credentials \in Seq(Text) /\ Credentials # <<>>
<1>1. Text \subseteq Items /\ Policies \cup Rules \subseteq Items
  BY DEF Items
<1>2. \A q \in Seq(Text) : q \in Seq(Items)
  BY <1>1, SeqMonotonic
<1>3. \A q \in Seq(Policies \cup Rules) : q \in Seq(Items)
  BY <1>1, SeqMonotonic
<1>4. <<>> \in Seq(Items)
  BY EmptySeq
<1>5. Credentials \in Seq(Text) /\ Credentials # <<>>
  BY ProvisioningAssumption DEF Text
<1>. QED  BY <1>2, <1>3, <1>4, <1>5, ProvisioningAssumption

LEMMA Lengths ==
    ASSUME TablesOK
    PROVE  Len(sites) \in Nat /\ Len(sessions) \in Nat /\ Len(links) \in Nat
BY DEF TablesOK

\* A call that does not move is as fit as before.
LEMMA FitKept ==
    ASSUME TablesOK, TablesOK', RowsKept, NEW where, NEW u, NEW t, NEW n, NEW q,
           Fit(Len(sites), Len(sessions), Len(links), where, u, t, n, q)
    PROVE  Fit(Len(sites'), Len(sessions'), Len(links'), where, u, t, n, q)
<1>1. /\ Len(sites) \in Nat /\ Len(sessions) \in Nat /\ Len(links) \in Nat
      /\ Len(sites') \in Nat /\ Len(sessions') \in Nat /\ Len(links') \in Nat
  BY DEF TablesOK
<1>. QED  BY <1>1 DEF Fit, RowsKept

LEMMA MoveStep ==
    ASSUME TypeInv, TablesOK', RowsKept, NEW c \in Calls,
           NEW where, NEW u, NEW t, NEW n, NEW q, Move(c, where, u, t, n, q),
           Fit(Len(sites'), Len(sessions'), Len(links'), where, u, t, n, q)
    PROVE  TypeInv'
<1>1. CallTypes'
  BY DEF TypeInv, CallTypes, Move
<1>2. /\ pc'[c] = where /\ user'[c] = u /\ target'[c] = t /\ row'[c] = n /\ todo'[c] = q
  BY DEF TypeInv, CallTypes, Move
<1>3. \A d \in Calls \ {c} : /\ pc'[d] = pc[d] /\ user'[d] = user[d]
                             /\ target'[d] = target[d] /\ row'[d] = row[d]
                             /\ todo'[d] = todo[d]
  BY DEF TypeInv, CallTypes, Move
<1>4. ASSUME NEW d \in Calls PROVE CallFit(d)'
  <2>1. CASE d = c
    BY <1>2, <2>1 DEF CallFit
  <2>2. CASE d # c
    <3>1. Fit(Len(sites), Len(sessions), Len(links),
              pc[d], user[d], target[d], row[d], todo[d])
      BY DEF TypeInv, CallFit
    <3>2. Fit(Len(sites'), Len(sessions'), Len(links'),
              pc[d], user[d], target[d], row[d], todo[d])
      BY <3>1, FitKept DEF TypeInv
    <3>. QED  BY <1>3, <2>2, <3>2 DEF CallFit
  <2>. QED  BY <2>1, <2>2
<1>. QED  BY <1>1, <1>4 DEF TypeInv

\* No call moves.
LEMMA StandStep ==
    ASSUME TypeInv, TablesOK', RowsKept, UNCHANGED <<pc, user, target, row, todo>>
    PROVE  TypeInv'
<1>1. CallTypes'
  BY DEF TypeInv, CallTypes
<1>2. ASSUME NEW d \in Calls PROVE CallFit(d)'
  <2>1. Fit(Len(sites), Len(sessions), Len(links),
            pc[d], user[d], target[d], row[d], todo[d])
    BY DEF TypeInv, CallFit
  <2>2. Fit(Len(sites'), Len(sessions'), Len(links'),
            pc[d], user[d], target[d], row[d], todo[d])
    BY <2>1, FitKept DEF TypeInv
  <2>. QED  BY <2>2 DEF CallFit
<1>. QED  BY <1>1, <1>2 DEF TypeInv

-----------------------------------------------------------------------------
(* What a statement does to the tables.                                    *)

LEMMA SameTables ==
    ASSUME TablesOK, UNCHANGED tables
    PROVE  TablesOK' /\ RowsKept
BY DEF TablesOK, RowsKept, tables

LEMMA SiteAppended ==
    ASSUME TablesOK, NEW t \in SiteRows, sites' = Append(sites, t),
           UNCHANGED <<sessions, links, config, siteRules>>
    PROVE  TablesOK' /\ RowsKept
<1>1. sites' \in Seq(SiteRows) /\ Len(sites') = Len(sites) + 1 /\ Len(sites) \in Nat
      /\ \A i \in 1..Len(sites) : sites'[i] = sites[i]
  BY AppendProperties DEF TablesOK
<1>2. (1..Len(sites)) \subseteq 1..Len(sites')
  BY <1>1
<1>. QED  BY <1>1, <1>2 DEF TablesOK, RowsKept

LEMMA SessionAppended ==
    ASSUME TablesOK, NEW r \in SessionRec, r.site \in 1..Len(sites),
           sessions' = Append(sessions, r), UNCHANGED <<sites, links, config, siteRules>>
    PROVE  TablesOK' /\ RowsKept /\ Len(sessions') = Len(sessions) + 1
<1>1. sessions' \in Seq(SessionRec) /\ Len(sessions') = Len(sessions) + 1
      /\ Len(sessions) \in Nat /\ sessions'[Len(sessions) + 1] = r
      /\ \A i \in 1..Len(sessions) : sessions'[i] = sessions[i]
  BY AppendProperties DEF TablesOK
<1>2. \A s \in 1..Len(sessions') : s \in 1..Len(sessions) \/ s = Len(sessions) + 1
  BY <1>1
<1>3. \A s \in 1..Len(sessions') : sessions'[s].site \in 1..Len(sites)
  BY <1>1, <1>2 DEF TablesOK
<1>4. (1..Len(sessions)) \subseteq 1..Len(sessions')
  BY <1>1
<1>. QED  BY <1>1, <1>3, <1>4 DEF TablesOK, RowsKept

LEMMA SessionSet ==
    ASSUME TablesOK, NEW s \in 1..Len(sessions), NEW r \in SessionRec,
           r.site = sessions[s].site,
           sessions' = [sessions EXCEPT ![s] = r], UNCHANGED <<sites, links, config, siteRules>>
    PROVE  TablesOK' /\ RowsKept
<1>1. /\ sessions' \in Seq(SessionRec) /\ Len(sessions') = Len(sessions)
      /\ \A i \in 1..Len(sessions) : sessions'[i] = IF i = s THEN r ELSE sessions[i]
  BY DEF TablesOK
<1>2. \A i \in 1..Len(sessions) : sessions'[i].site = sessions[i].site
  BY <1>1
<1>3. Len(sites) \in Nat /\ Len(sessions) \in Nat /\ Len(links) \in Nat
  BY Lengths
<1>. QED  BY <1>1, <1>2, <1>3 DEF TablesOK, RowsKept

LEMMA LinkAppended ==
    ASSUME TablesOK, NEW r \in LinkRec, r.session \in 1..Len(sessions),
           links' = Append(links, r), UNCHANGED <<sites, sessions, config, siteRules>>
    PROVE  TablesOK' /\ RowsKept /\ Len(links') = Len(links) + 1
<1>1. links' \in Seq(LinkRec) /\ Len(links') = Len(links) + 1
      /\ Len(links) \in Nat /\ links'[Len(links) + 1] = r
      /\ \A i \in 1..Len(links) : links'[i] = links[i]
  BY AppendProperties DEF TablesOK
<1>2. \A s \in 1..Len(links') : s \in 1..Len(links) \/ s = Len(links) + 1
  BY <1>1
<1>3. \A s \in 1..Len(links') : links'[s].session \in 1..Len(sessions)
  BY <1>1, <1>2 DEF TablesOK
<1>4. Len(sites) \in Nat /\ Len(sessions) \in Nat
  BY Lengths
<1>. QED  BY <1>1, <1>3, <1>4 DEF TablesOK, RowsKept

LEMMA LinkSet ==
    ASSUME TablesOK, NEW l \in 1..Len(links), NEW r \in LinkRec,
           r.session = links[l].session,
           links' = [links EXCEPT ![l] = r], UNCHANGED <<sites, sessions, config, siteRules>>
    PROVE  TablesOK' /\ RowsKept
<1>1. /\ links' \in Seq(LinkRec) /\ Len(links') = Len(links)
      /\ \A i \in 1..Len(links) : links'[i] = IF i = l THEN r ELSE links[i]
  BY DEF TablesOK
<1>2. Len(sites) \in Nat /\ Len(sessions) \in Nat /\ Len(links) \in Nat
  BY Lengths
<1>. QED  BY <1>1, <1>2 DEF TablesOK, RowsKept

-----------------------------------------------------------------------------
(* The steps of a call.                                                    *)

LEMMA ReturnMoves ==
    ASSUME NEW c \in Calls, Return(c)
    PROVE  /\ Move(c, "idle", NoUser, NoSite, None, <<>>)
           /\ \A a, b, d : Fit(a, b, d, "idle", NoUser, NoSite, None, <<>>)
<1>1. None \in Nat /\ "idle" \in PCs /\ <<>> \in Seq(Items)
  BY ListTypes DEF None, PCs
<1>2. Move(c, "idle", NoUser, NoSite, None, <<>>)
  BY <1>1 DEF Return, Goto, Move
<1>. QED  BY <1>2 DEF Fit

LEMMA LocalTypes ==
    ASSUME TypeInv, NEW c \in Calls
    PROVE  /\ pc[c] \in PCs /\ user[c] \in Users \cup {NoUser}
           /\ target[c] \in SiteRows \cup {NoSite} /\ row[c] \in Nat
           /\ todo[c] \in Seq(Items)
           /\ user = [user EXCEPT ![c] = user[c]]
           /\ target = [target EXCEPT ![c] = target[c]]
           /\ row = [row EXCEPT ![c] = row[c]]
           /\ todo = [todo EXCEPT ![c] = todo[c]]
           /\ pc = [pc EXCEPT ![c] = pc[c]]
           /\ Fit(Len(sites), Len(sessions), Len(links),
                  pc[c], user[c], target[c], row[c], todo[c])
BY DEF TypeInv, CallTypes, CallFit

\* GetOrCreateByDomain has row i.
LEMMA HaveSiteType ==
    ASSUME TypeInv, TablesOK', RowsKept, NEW c \in Calls, NEW i \in 1..Len(sites'),
           pc[c] \in {"findSite", "insertSite"}, HaveSite(c, i)
    PROVE  TypeInv'
<1>0. Len(sites') \in Nat
  BY DEF TablesOK
<1>1. CASE todo[c] = <<>>
  BY <1>1, ReturnMoves, MoveStep DEF HaveSite
<1>2. CASE todo[c] # <<>>
  <2>1. todo[c] = Credentials /\ user[c] \in Users
    BY <1>2, LocalTypes DEF Fit
  <2>2. i \in Nat /\ "insertSession" \in PCs
    BY <1>0 DEF PCs
  <2>3. Move(c, "insertSession", user[c], target[c], i, todo[c])
    BY <1>2, <2>2, LocalTypes DEF HaveSite, Goto, Move
  <2>4. Fit(Len(sites'), Len(sessions'), Len(links'),
            "insertSession", user[c], target[c], i, todo[c])
    BY <2>1 DEF Fit
  <2>. QED  BY <2>3, <2>4, MoveStep
<1>. QED  BY <1>1, <1>2

LEMMA FindSiteType ==
    ASSUME TypeInv, NEW c \in Calls, FindSite(c)
    PROVE  TypeInv' /\ TablesOK' /\ RowsKept
<1>1. TablesOK' /\ RowsKept /\ sites' = sites
  BY SameTables DEF FindSite, TypeInv, tables
<1>2. pc[c] = "findSite"
  BY DEF FindSite
<1>3. CASE \E i \in SitesOf(target[c].domain) : HaveSite(c, i)
  <2>1. DOMAIN sites = 1..Len(sites)
    BY DEF TypeInv, TablesOK
  <2>2. PICK i \in 1..Len(sites') : HaveSite(c, i)
    BY <1>1, <1>3, <2>1 DEF SitesOf
  <2>. QED  BY <1>1, <1>2, <2>2, HaveSiteType
<1>4. CASE Goto(c, "insertSite") /\ UNCHANGED <<user, target, row, todo>>
  <2>1. Move(c, "insertSite", user[c], target[c], row[c], todo[c])
    BY <1>4, LocalTypes DEF Goto, Move, PCs
  <2>2. Fit(Len(sites'), Len(sessions'), Len(links'),
            "insertSite", user[c], target[c], row[c], todo[c])
    BY <1>2, LocalTypes DEF Fit
  <2>. QED  BY <1>1, <2>1, <2>2, MoveStep
<1>. QED  BY <1>1, <1>3, <1>4 DEF FindSite

LEMMA InsertSiteType ==
    ASSUME TypeInv, NEW c \in Calls, InsertSite(c)
    PROVE  TypeInv' /\ TablesOK' /\ RowsKept
<1>1. target[c] \in SiteRows /\ pc[c] = "insertSite"
  BY LocalTypes DEF InsertSite, Fit
<1>2. TablesOK' /\ RowsKept
  BY <1>1, SiteAppended DEF InsertSite, TypeInv
<1>3. Len(sites') = Len(sites) + 1 /\ Len(sites) \in Nat
  BY AppendProperties, <1>1 DEF InsertSite, TypeInv, TablesOK
<1>4. Len(sites) + 1 \in 1..Len(sites')
  BY <1>3
<1>5. HaveSite(c, Len(sites) + 1)
  BY DEF InsertSite
<1>. QED  BY <1>1, <1>2, <1>4, <1>5, HaveSiteType

LEMMA InsertSessionType ==
    ASSUME TypeInv, NEW c \in Calls, InsertSession(c)
    PROVE  TypeInv' /\ TablesOK' /\ RowsKept
<1> DEFINE r == [user |-> user[c], site |-> row[c], creds |-> <<>>, told |-> FALSE]
<1>1. todo[c] = Credentials /\ user[c] \in Users /\ row[c] \in 1..Len(sites)
  BY LocalTypes DEF InsertSession, Fit
<1>2. r \in SessionRec /\ r.site \in 1..Len(sites)
  BY <1>1, LocalTypes, EmptySeq DEF SessionRec
<1>3. /\ sessions' = Append(sessions, r) /\ UNCHANGED <<sites, links, config, siteRules>>
      /\ row' = [row EXCEPT ![c] = Len(sessions) + 1] /\ pc' = [pc EXCEPT ![c] = "insertCreds"]
      /\ UNCHANGED <<user, target, todo>>
  BY DEF InsertSession, Goto
<1> HIDE DEF r
<1>4. TablesOK' /\ RowsKept /\ Len(sessions') = Len(sessions) + 1
  BY <1>2, <1>3, SessionAppended DEF TypeInv
<1>5. Len(sessions) \in Nat
  BY Lengths DEF TypeInv
<1>6. Move(c, "insertCreds", user[c], target[c], Len(sessions) + 1, todo[c])
  BY <1>3, <1>5, LocalTypes DEF Move, PCs
<1>7. Fit(Len(sites'), Len(sessions'), Len(links'),
          "insertCreds", user[c], target[c], Len(sessions) + 1, todo[c])
  BY <1>1, <1>4, <1>5, ListTypes DEF Fit
<1>. QED  BY <1>4, <1>6, <1>7, MoveStep

LEMMA InsertCredentialType ==
    ASSUME TypeInv, NEW c \in Calls, InsertCredential(c)
    PROVE  TypeInv' /\ TablesOK' /\ RowsKept
<1> DEFINE old == sessions[row[c]]
           r == [old EXCEPT !.creds = Append(@, Head(todo[c]))]
<1>1. todo[c] \in Seq(Text) /\ todo[c] # <<>> /\ row[c] \in 1..Len(sessions)
      /\ pc[c] = "insertCreds"
  BY LocalTypes DEF InsertCredential, Fit
<1>2. Head(todo[c]) \in Text /\ Tail(todo[c]) \in Seq(Text)
  BY <1>1, HeadTailProperties
<1>3. old \in SessionRec
  BY <1>1 DEF TypeInv, TablesOK
<1>4. r \in SessionRec /\ r.site = old.site
  <2>1. old.creds \in Seq(Text)
    BY <1>3 DEF SessionRec
  <2>2. Append(old.creds, Head(todo[c])) \in Seq(Text)
    BY <1>2, <2>1, AppendProperties
  <2>. QED  BY <1>3, <2>2 DEF SessionRec
<1>5. /\ sessions' = [sessions EXCEPT ![row[c]] = r]
      /\ UNCHANGED <<sites, links, config, siteRules>>
      /\ todo' = [todo EXCEPT ![c] = Tail(todo[c])]
      /\ UNCHANGED <<pc, user, target, row>>
  BY DEF InsertCredential
<1> HIDE DEF r
<1>6. TablesOK' /\ RowsKept
  BY <1>1, <1>4, <1>5, SessionSet DEF TypeInv
<1>7. Tail(todo[c]) \in Seq(Items)
  BY <1>2, ListTypes
<1>8. Move(c, pc[c], user[c], target[c], row[c], Tail(todo[c]))
  BY <1>5, <1>7, LocalTypes DEF Move
<1>9. Len(sessions') = Len(sessions)
  BY <1>5 DEF TypeInv, TablesOK
<1>10. Fit(Len(sites'), Len(sessions'), Len(links'),
           pc[c], user[c], target[c], row[c], Tail(todo[c]))
  BY <1>1, <1>2, <1>9 DEF Fit
<1>. QED  BY <1>6, <1>8, <1>10, MoveStep

LEMMA ImportReturnsType ==
    ASSUME TypeInv, NEW c \in Calls, ImportReturns(c)
    PROVE  TypeInv' /\ TablesOK' /\ RowsKept
<1> DEFINE old == sessions[row[c]]
           r == [old EXCEPT !.told = TRUE]
<1>1. row[c] \in 1..Len(sessions)
  BY LocalTypes DEF ImportReturns, Fit
<1>2. old \in SessionRec
  BY <1>1 DEF TypeInv, TablesOK
<1>3. r \in SessionRec /\ r.site = old.site
  BY <1>2 DEF SessionRec
<1>4. /\ sessions' = [sessions EXCEPT ![row[c]] = r] /\ Return(c)
      /\ UNCHANGED <<sites, links, config, siteRules>>
  BY DEF ImportReturns
<1> HIDE DEF r
<1>5. TablesOK' /\ RowsKept
  BY <1>1, <1>3, <1>4, SessionSet DEF TypeInv
<1>. QED  BY <1>4, <1>5, ReturnMoves, MoveStep

LEMMA StartImportType ==
    ASSUME TypeInv, NEW c \in Calls, NEW u \in Users, NEW site \in SiteRows,
           StartImport(c, u, site)
    PROVE  TypeInv' /\ TablesOK' /\ RowsKept
<1>1. TablesOK' /\ RowsKept
  BY SameTables DEF StartImport, TypeInv, tables
<1>2. Credentials \in Seq(Items)
  BY ListTypes
<1>3. Move(c, "findSite", u, site, row[c], Credentials)
  BY <1>2, LocalTypes DEF Move, StartImport, Begin, Goto, PCs
<1>4. Fit(Len(sites'), Len(sessions'), Len(links'), "findSite", u, site, row[c], Credentials)
  BY DEF Fit
<1>. QED  BY <1>1, <1>3, <1>4, MoveStep

LEMMA StartCreateSiteType ==
    ASSUME TypeInv, NEW c \in Calls, NEW site \in SiteRows,
           StartCreateSite(c, site)
    PROVE  TypeInv' /\ TablesOK' /\ RowsKept
<1>1. TablesOK' /\ RowsKept
  BY SameTables DEF StartCreateSite, TypeInv, tables
<1>2. todo[c] = <<>>
  BY LocalTypes DEF Fit, StartCreateSite, Begin
<1>3. Move(c, "findSite", user[c], site, row[c], todo[c])
  BY LocalTypes DEF Move, StartCreateSite, Begin, Goto, PCs
<1>4. Fit(Len(sites'), Len(sessions'), Len(links'),
          "findSite", user[c], site, row[c], todo[c])
  BY <1>2 DEF Fit
<1>. QED  BY <1>1, <1>3, <1>4, MoveStep

LEMMA StartCreateLinkType ==
    ASSUME TypeInv, NEW c \in Calls, NEW u \in Users, NEW s \in 1..Len(sessions),
           NEW list \in Requested, StartCreateLink(c, u, s, list)
    PROVE  TypeInv' /\ TablesOK' /\ RowsKept
<1>1. TablesOK' /\ RowsKept /\ Len(sessions') = Len(sessions)
  BY SameTables DEF StartCreateLink, TypeInv, tables
<1>2. list \in Seq(Items) /\ s \in Nat
  BY ListTypes, Lengths DEF TypeInv
<1>3. Move(c, "insertLink", u, target[c], s, list)
  BY <1>2, LocalTypes DEF Move, StartCreateLink, Begin, Goto, PCs
<1>4. Fit(Len(sites'), Len(sessions'), Len(links'), "insertLink", u, target[c], s, list)
  BY <1>1 DEF Fit
<1>. QED  BY <1>1, <1>3, <1>4, MoveStep

LEMMA InsertLinkType ==
    ASSUME TypeInv, NEW c \in Calls, InsertLink(c)
    PROVE  TypeInv' /\ TablesOK' /\ RowsKept
<1> DEFINE r == [session |-> row[c], attached |-> {}, asked |-> todo[c], told |-> FALSE]
<1>1. todo[c] \in Requested /\ row[c] \in 1..Len(sessions)
  BY LocalTypes DEF InsertLink, Fit
<1>2. r \in LinkRec /\ r.session \in 1..Len(sessions)
  BY <1>1, LocalTypes DEF LinkRec
<1>3. /\ links' = Append(links, r) /\ UNCHANGED <<sites, sessions, config, siteRules>>
      /\ row' = [row EXCEPT ![c] = Len(links) + 1] /\ pc' = [pc EXCEPT ![c] = "attach"]
      /\ UNCHANGED <<user, target, todo>>
  BY DEF InsertLink, Goto
<1> HIDE DEF r
<1>4. TablesOK' /\ RowsKept /\ Len(links') = Len(links) + 1
  BY <1>2, <1>3, LinkAppended DEF TypeInv
<1>5. Len(links) \in Nat
  BY Lengths DEF TypeInv
<1>6. Move(c, "attach", user[c], target[c], Len(links) + 1, todo[c])
  BY <1>3, <1>5, LocalTypes DEF Move, PCs
<1>7. Fit(Len(sites'), Len(sessions'), Len(links'),
          "attach", user[c], target[c], Len(links) + 1, todo[c])
  BY <1>1, <1>4, <1>5, ListTypes DEF Fit
<1>. QED  BY <1>4, <1>6, <1>7, MoveStep

LEMMA AttachNextType ==
    ASSUME TypeInv, NEW c \in Calls, AttachNext(c)
    PROVE  TypeInv' /\ TablesOK' /\ RowsKept
<1> DEFINE old == links[row[c]]
           r == [old EXCEPT !.attached = @ \cup {Head(todo[c])}]
<1>1. todo[c] \in Seq(Policies \cup Rules) /\ todo[c] # <<>> /\ row[c] \in 1..Len(links)
      /\ pc[c] = "attach"
  BY LocalTypes DEF AttachNext, Fit
<1>2. Head(todo[c]) \in Policies \cup Rules /\ Tail(todo[c]) \in Seq(Policies \cup Rules)
  BY <1>1, HeadTailProperties
<1>3. CASE Head(todo[c]) \in Existing
  <2>1. old \in LinkRec
    BY <1>1 DEF TypeInv, TablesOK
  <2>2. r \in LinkRec /\ r.session = old.session
    BY <1>2, <2>1 DEF LinkRec
  <2>3. /\ links' = [links EXCEPT ![row[c]] = r]
        /\ UNCHANGED <<sites, sessions, config, siteRules>>
        /\ todo' = [todo EXCEPT ![c] = Tail(todo[c])]
        /\ UNCHANGED <<pc, user, target, row>>
    BY <1>3 DEF AttachNext
  <2> HIDE DEF r
  <2>4. TablesOK' /\ RowsKept
    BY <1>1, <2>2, <2>3, LinkSet DEF TypeInv
  <2>5. Tail(todo[c]) \in Seq(Items)
    BY <1>2, ListTypes
  <2>6. Move(c, pc[c], user[c], target[c], row[c], Tail(todo[c]))
    BY <2>3, <2>5, LocalTypes DEF Move
  <2>7. Len(links') = Len(links)
    BY <2>3 DEF TypeInv, TablesOK
  <2>8. Fit(Len(sites'), Len(sessions'), Len(links'),
            pc[c], user[c], target[c], row[c], Tail(todo[c]))
    BY <1>1, <1>2, <2>7 DEF Fit
  <2>. QED  BY <2>4, <2>6, <2>8, MoveStep
<1>4. CASE Head(todo[c]) \notin Existing
  <2>1. Return(c) /\ UNCHANGED tables
    BY <1>4 DEF AttachNext, tables
  <2>2. TablesOK' /\ RowsKept
    BY <2>1, SameTables DEF TypeInv
  <2>. QED  BY <2>1, <2>2, ReturnMoves, MoveStep
<1>. QED  BY <1>3, <1>4

LEMMA CreateLinkReturnsType ==
    ASSUME TypeInv, NEW c \in Calls, CreateLinkReturns(c)
    PROVE  TypeInv' /\ TablesOK' /\ RowsKept
<1> DEFINE old == links[row[c]]
           r == [old EXCEPT !.told = TRUE]
<1>1. row[c] \in 1..Len(links)
  BY LocalTypes DEF CreateLinkReturns, Fit
<1>2. old \in LinkRec
  BY <1>1 DEF TypeInv, TablesOK
<1>3. r \in LinkRec /\ r.session = old.session
  BY <1>2 DEF LinkRec
<1>4. /\ links' = [links EXCEPT ![row[c]] = r] /\ Return(c)
      /\ UNCHANGED <<sites, sessions, config, siteRules>>
  BY DEF CreateLinkReturns
<1> HIDE DEF r
<1>5. TablesOK' /\ RowsKept
  BY <1>1, <1>3, <1>4, LinkSet DEF TypeInv
<1>. QED  BY <1>4, <1>5, ReturnMoves, MoveStep

LEMMA FailCallType ==
    ASSUME TypeInv, NEW c \in Calls, FailCall(c)
    PROVE  TypeInv' /\ TablesOK' /\ RowsKept
BY SameTables, ReturnMoves, MoveStep DEF FailCall, TypeInv

-----------------------------------------------------------------------------
(* The other steps.                                                        *)

LEMMA AttachToSiteType ==
    ASSUME TypeInv, NEW i \in 1..Len(sites), NEW r \in Rules, AttachToSite(i, r)
    PROVE  TypeInv' /\ TablesOK' /\ RowsKept
<1>1. Len(sites) \in Nat /\ Len(sessions) \in Nat /\ Len(links) \in Nat
  BY Lengths DEF TypeInv
<1>2. TablesOK' /\ RowsKept
  BY <1>1 DEF TypeInv, TablesOK, RowsKept, AttachToSite, Existing
<1>. QED  BY <1>2, StandStep DEF AttachToSite

LEMMA AttachEndpointType ==
    ASSUME TypeInv, NEW l \in 1..Len(links), NEW e \in Rules, AttachEndpointToLink(l, e)
    PROVE  TypeInv' /\ TablesOK' /\ RowsKept
<1> DEFINE old == links[l]
           r == [old EXCEPT !.attached = @ \cup {e}]
<1>1. old \in LinkRec
  BY DEF TypeInv, TablesOK
<1>2. r \in LinkRec /\ r.session = old.session
  BY <1>1 DEF LinkRec
<1>3. links' = [links EXCEPT ![l] = r] /\ UNCHANGED <<sites, sessions, config, siteRules>>
  BY DEF AttachEndpointToLink
<1> HIDE DEF r
<1>4. TablesOK' /\ RowsKept
  BY <1>2, <1>3, LinkSet DEF TypeInv
<1>. QED  BY <1>4, StandStep DEF AttachEndpointToLink

LEMMA CreateRowType ==
    ASSUME TypeInv, NEW p \in Attachable, CreateRow(p)
    PROVE  TypeInv' /\ TablesOK' /\ RowsKept
<1>1. Len(sites) \in Nat /\ Len(sessions) \in Nat /\ Len(links) \in Nat
  BY Lengths DEF TypeInv
<1>2. TablesOK' /\ RowsKept
  BY <1>1 DEF TypeInv, TablesOK, RowsKept, CreateRow, Attachable
<1>. QED  BY <1>2, StandStep DEF CreateRow

LEMMA DeleteRowType ==
    ASSUME TypeInv, NEW p \in Attachable, DeleteRow(p)
    PROVE  TypeInv' /\ TablesOK' /\ RowsKept
<1>1. Len(sites) \in Nat /\ Len(sessions) \in Nat /\ Len(links) \in Nat
      /\ DOMAIN links = 1..Len(links) /\ \A l \in 1..Len(links) : links[l] \in LinkRec
  BY Lengths DEF TypeInv, TablesOK
<1>2. links' = [l \in 1..Len(links) |-> [links[l] EXCEPT !.attached = @ \ {p}]]
  BY <1>1 DEF DeleteRow
<1>3. \A l \in 1..Len(links) : links'[l] \in LinkRec /\ links'[l].session = links[l].session
  BY <1>1, <1>2 DEF LinkRec
<1>4. links' \in Seq(LinkRec) /\ Len(links') = Len(links)
  BY <1>1, <1>2, <1>3
<1>5. /\ siteRules' \subseteq (1..Len(sites)) \X Rules
      /\ \A pair \in siteRules' : config'[pair[2]] = "exists"
      /\ config' \in [Attachable -> {"never", "exists", "deleted"}]
  BY DEF TypeInv, TablesOK, DeleteRow, Attachable
<1>6. TablesOK' /\ RowsKept
  BY <1>1, <1>3, <1>4, <1>5 DEF TypeInv, TablesOK, RowsKept, DeleteRow
<1>. QED  BY <1>6, StandStep DEF DeleteRow

-----------------------------------------------------------------------------

LEMMA TypeInit == ProvisioningInit => TypeInv
<1>. SUFFICES ASSUME ProvisioningInit PROVE TypeInv
  OBVIOUS
<1>1. sites = <<>> /\ sessions = <<>> /\ links = <<>> /\ siteRules = {}
      /\ config = [p \in Attachable |-> "never"]
  BY DEF ProvisioningInit
<1>2. sites \in Seq(SiteRows) /\ Len(sites) = 0
  BY <1>1, EmptySeq
<1>3. sessions \in Seq(SessionRec) /\ Len(sessions) = 0
  BY <1>1, EmptySeq
<1>4. links \in Seq(LinkRec) /\ Len(links) = 0
  BY <1>1, EmptySeq
<1>5. TablesOK
  BY <1>1, <1>2, <1>3, <1>4 DEF TablesOK
<1>6. CallTypes
  BY ListTypes DEF ProvisioningInit, CallTypes, PCs, None
<1>7. \A c \in Calls : CallFit(c)
  BY DEF ProvisioningInit, CallFit, Fit
<1>. QED  BY <1>5, <1>6, <1>7 DEF TypeInv

LEMMA TypeNext ==
    ASSUME TypeInv, [ProvisioningNext]_provVars
    PROVE  TypeInv' /\ TablesOK' /\ RowsKept
<1>0. DOMAIN sites = 1..Len(sites) /\ DOMAIN sessions = 1..Len(sessions)
      /\ DOMAIN links = 1..Len(links)
  BY DEF TypeInv, TablesOK
<1>1. CASE \E c \in Calls, site \in SiteRows :
              StartCreateSite(c, site) \/ \E u \in Users : StartImport(c, u, site)
  BY <1>1, StartCreateSiteType, StartImportType
<1>2. CASE \E c \in Calls, u \in Users, s \in DOMAIN sessions, list \in Requested :
              StartCreateLink(c, u, s, list)
  BY <1>0, <1>2, StartCreateLinkType
<1>3. CASE \E c \in Calls : CallStep(c)
  BY <1>3, FindSiteType, InsertSiteType, InsertSessionType, InsertCredentialType,
     ImportReturnsType, InsertLinkType, AttachNextType, CreateLinkReturnsType DEF CallStep
<1>4. CASE \E c \in Calls : FailCall(c)
  BY <1>4, FailCallType
<1>5. CASE \E i \in DOMAIN sites, r \in Rules : AttachToSite(i, r)
  BY <1>0, <1>5, AttachToSiteType
<1>6. CASE \E l \in DOMAIN links, r \in Rules : AttachEndpointToLink(l, r)
  BY <1>0, <1>6, AttachEndpointType
<1>7. CASE \E p \in Attachable : CreateRow(p) \/ DeleteRow(p)
  BY <1>7, CreateRowType, DeleteRowType
<1>8. CASE UNCHANGED provVars
  BY <1>8, SameTables, StandStep DEF provVars, tables, TypeInv
<1>. QED  BY <1>1, <1>2, <1>3, <1>4, <1>5, <1>6, <1>7, <1>8 DEF ProvisioningNext

\* Where the requests of a session go is settled when it is imported, whatever
\* the calls and statements after it (GetOrCreateByDomain, Import).
THEOREM TargetStaysTheorem == ProvisioningSpec => TargetStays
<1>1. ASSUME TypeInv, [ProvisioningNext]_provVars
      PROVE  [\A s \in DOMAIN sessions :
                 sites'[sessions'[s].site] = sites[sessions[s].site]]_provVars
  <2>1. RowsKept
    BY <1>1, TypeNext
  <2>2. \A s \in DOMAIN sessions : s \in 1..Len(sessions)
                                   /\ sessions[s].site \in 1..Len(sites)
    BY <1>1 DEF TypeInv, TablesOK
  <2>. QED  BY <2>1, <2>2 DEF RowsKept
<1>. QED  BY <1>1, TypeInit, TypeNext, PTL DEF ProvisioningSpec, TargetStays

-----------------------------------------------------------------------------
(* Imports.                                                                *)

\* The import c works on session n and still has to insert the rows q.
Importing(rows, n, q) == rows[n].creds \o q = Credentials /\ ~rows[n].told

\* An import under way is the only one at work on its session, which has the
\* credentials that are no longer on its list; an acknowledged one has all.
ImportInv ==
    /\ \A c \in Calls : pc[c] = "insertCreds" => Importing(sessions, row[c], todo[c])
    /\ \A c, d \in Calls :
          pc[c] = "insertCreds" /\ pc[d] = "insertCreds" /\ row[c] = row[d] => c = d
    /\ \A s \in 1..Len(sessions) : sessions[s].told => sessions[s].creds = Credentials

\* No call comes to where, or goes on there.
Quiet(where) ==
    \A d \in Calls : pc'[d] = where =>
        pc[d] = where /\ row'[d] = row[d] /\ todo'[d] = todo[d]

LEMMA ReturnQuiet ==
    ASSUME CallTypes, NEW c \in Calls, Return(c)
    PROVE  \A where : where # "idle" => Quiet(where)
BY DEF CallTypes, Return, Goto, Quiet

LEMMA HaveSiteQuiet ==
    ASSUME CallTypes, NEW c \in Calls, NEW i, HaveSite(c, i)
    PROVE  \A where : where \notin {"idle", "insertSession"} => Quiet(where)
<1>1. CASE todo[c] = <<>>
  BY <1>1, ReturnQuiet DEF HaveSite
<1>2. CASE todo[c] # <<>>
  BY <1>2 DEF HaveSite, CallTypes, Goto, Quiet
<1>. QED  BY <1>1, <1>2

LEMMA SiteStepsQuiet ==
    ASSUME CallTypes, NEW c \in Calls, FindSite(c) \/ InsertSite(c)
    PROVE  \A where : where \notin {"idle", "insertSite", "insertSession"} => Quiet(where)
<1>1. CASE \E i : HaveSite(c, i)
  BY <1>1, HaveSiteQuiet
<1>2. CASE Goto(c, "insertSite") /\ UNCHANGED <<user, target, row, todo>>
  BY <1>2 DEF CallTypes, Goto, Quiet
<1>. QED  BY <1>1, <1>2 DEF FindSite, InsertSite

\* Sessions as they were, and nobody new at work on one.
LEMMA ImportQuiet ==
    ASSUME ImportInv, sessions' = sessions, Quiet("insertCreds")
    PROVE  ImportInv'
BY DEF ImportInv, Quiet, Importing

LEMMA InsertSessionImport ==
    ASSUME TypeInv, TypeInv', ImportInv, NEW c \in Calls, InsertSession(c)
    PROVE  ImportInv'
<1> DEFINE r == [user |-> user[c], site |-> row[c], creds |-> <<>>, told |-> FALSE]
           n == Len(sessions) + 1
<1>1. todo[c] = Credentials /\ Credentials \in Seq(Text)
  BY LocalTypes, ListTypes DEF InsertSession, Fit
<1>2. /\ sessions' = Append(sessions, r)
      /\ row' = [row EXCEPT ![c] = n] /\ pc' = [pc EXCEPT ![c] = "insertCreds"]
      /\ todo' = todo
  BY DEF InsertSession, Goto
<1>3. r.creds = <<>> /\ ~r.told
  OBVIOUS
<1>4. r.creds \o Credentials = Credentials
  BY <1>1, <1>3
<1>5. r \in SessionRec
  BY LocalTypes, EmptySeq DEF SessionRec, InsertSession, Fit
<1> HIDE DEF r
<1>6. /\ sessions'[n] = r /\ \A s \in 1..Len(sessions) : sessions'[s] = sessions[s]
      /\ Len(sessions') = n /\ Len(sessions) \in Nat
  BY <1>2, <1>5, AppendProperties DEF TypeInv, TablesOK
<1>7. \A d \in Calls : pc[d] = "insertCreds" => row[d] \in 1..Len(sessions)
  BY DEF TypeInv, CallFit, Fit
<1>8. pc'[c] = "insertCreds" /\ row'[c] = n /\ todo'[c] = Credentials
  BY <1>1, <1>2 DEF TypeInv, CallTypes
<1>9. \A d \in Calls \ {c} : pc'[d] = pc[d] /\ row'[d] = row[d] /\ todo'[d] = todo[d]
  BY <1>2 DEF TypeInv, CallTypes
<1>10. ASSUME NEW d \in Calls, pc'[d] = "insertCreds"
       PROVE  Importing(sessions', row'[d], todo'[d])
  <2>1. CASE d = c
    BY <1>3, <1>4, <1>6, <1>8, <2>1 DEF Importing
  <2>2. CASE d # c
    <3>1. Importing(sessions, row[d], todo[d])
      BY <1>9, <1>10, <2>2 DEF ImportInv
    <3>2. sessions'[row[d]] = sessions[row[d]] /\ row'[d] = row[d] /\ todo'[d] = todo[d]
      BY <1>6, <1>7, <1>9, <1>10, <2>2
    <3>. QED  BY <3>1, <3>2 DEF Importing
  <2>. QED  BY <2>1, <2>2
<1>11. ASSUME NEW d \in Calls, NEW e \in Calls, pc'[d] = "insertCreds",
              pc'[e] = "insertCreds", row'[d] = row'[e]
       PROVE  d = e
  BY <1>6, <1>7, <1>8, <1>9, <1>11 DEF ImportInv
<1>12. \A s \in 1..Len(sessions') : s \in 1..Len(sessions) \/ s = n
  BY <1>6
<1>13. ASSUME NEW s \in 1..Len(sessions'), sessions'[s].told
       PROVE  sessions'[s].creds = Credentials
  BY <1>3, <1>6, <1>12, <1>13 DEF ImportInv
<1>. QED  BY <1>10, <1>11, <1>13 DEF ImportInv

LEMMA Shifted ==
    ASSUME NEW S, NEW p \in Seq(S), NEW q \in Seq(S), q # <<>>
    PROVE  Append(p, Head(q)) \o Tail(q) = p \o q
OBVIOUS

LEMMA InsertCredentialImport ==
    ASSUME TypeInv, TypeInv', ImportInv, NEW c \in Calls, InsertCredential(c)
    PROVE  ImportInv'
<1> DEFINE n == row[c]
           more == Append(sessions[n].creds, Head(todo[c]))
           r == [sessions[n] EXCEPT !.creds = more]
<1>1. todo[c] \in Seq(Text) /\ todo[c] # <<>> /\ n \in 1..Len(sessions)
      /\ pc[c] = "insertCreds"
  BY LocalTypes DEF InsertCredential, Fit
<1>2. sessions[n] \in SessionRec /\ sessions[n].creds \in Seq(Text)
  <2>1. sessions[n] \in SessionRec
    BY <1>1 DEF TypeInv, TablesOK
  <2>. QED  BY <2>1 DEF SessionRec
<1>3. sessions[n].creds \o todo[c] = Credentials /\ ~sessions[n].told
  BY <1>1 DEF ImportInv, Importing
<1>4. more \o Tail(todo[c]) = Credentials
  BY <1>1, <1>2, <1>3, Shifted
<1>5. r.creds = more /\ r.told = sessions[n].told
  BY <1>2 DEF SessionRec
<1>6. /\ sessions' = [sessions EXCEPT ![n] = r]
      /\ todo' = [todo EXCEPT ![c] = Tail(todo[c])] /\ row' = row /\ pc' = pc
  BY DEF InsertCredential
<1> HIDE DEF r, more
<1>7. /\ \A s \in 1..Len(sessions) : sessions'[s] = IF s = n THEN r ELSE sessions[s]
      /\ Len(sessions') = Len(sessions)
  BY <1>6 DEF TypeInv, TablesOK
<1>8. \A d \in Calls : pc[d] = "insertCreds" => row[d] \in 1..Len(sessions)
  BY DEF TypeInv, CallFit, Fit
<1>9. todo'[c] = Tail(todo[c]) /\ \A d \in Calls \ {c} : todo'[d] = todo[d]
  BY <1>6 DEF TypeInv, CallTypes
<1>10. ASSUME NEW d \in Calls, pc'[d] = "insertCreds"
       PROVE  Importing(sessions', row'[d], todo'[d])
  <2>1. CASE d = c
    BY <1>1, <1>3, <1>4, <1>5, <1>6, <1>7, <1>9, <2>1 DEF Importing
  <2>2. CASE d # c
    <3>1. row[d] # n
      BY <1>1, <1>6, <1>10, <2>2 DEF ImportInv
    <3>2. Importing(sessions, row[d], todo[d])
      BY <1>6, <1>10 DEF ImportInv
    <3>3. sessions'[row[d]] = sessions[row[d]] /\ row'[d] = row[d] /\ todo'[d] = todo[d]
      BY <1>6, <1>7, <1>8, <1>9, <1>10, <2>2, <3>1
    <3>. QED  BY <3>2, <3>3 DEF Importing
  <2>. QED  BY <2>1, <2>2
<1>11. ASSUME NEW s \in 1..Len(sessions'), sessions'[s].told
       PROVE  sessions'[s].creds = Credentials
  BY <1>3, <1>5, <1>7, <1>11 DEF ImportInv
<1>. QED  BY <1>6, <1>10, <1>11 DEF ImportInv

LEMMA ImportReturnsImport ==
    ASSUME TypeInv, TypeInv', ImportInv, NEW c \in Calls, ImportReturns(c)
    PROVE  ImportInv'
<1> DEFINE n == row[c]
           r == [sessions[n] EXCEPT !.told = TRUE]
<1>1. todo[c] = <<>> /\ n \in 1..Len(sessions) /\ pc[c] = "insertCreds"
  BY LocalTypes DEF ImportReturns, Fit
<1>2. sessions[n] \in SessionRec /\ sessions[n].creds \in Seq(Text)
  <2>1. sessions[n] \in SessionRec
    BY <1>1 DEF TypeInv, TablesOK
  <2>. QED  BY <2>1 DEF SessionRec
<1>3. sessions[n].creds = Credentials
  <2>1. sessions[n].creds \o <<>> = Credentials
    BY <1>1 DEF ImportInv, Importing
  <2>2. sessions[n].creds \o <<>> = sessions[n].creds
    BY <1>2
  <2>. QED  BY <2>1, <2>2
<1>4. r.creds = sessions[n].creds
  BY <1>2 DEF SessionRec
<1>5. sessions' = [sessions EXCEPT ![n] = r]
  BY DEF ImportReturns
<1>6. Return(c)
  BY DEF ImportReturns
<1> HIDE DEF r
<1>7. /\ \A s \in 1..Len(sessions) : sessions'[s] = IF s = n THEN r ELSE sessions[s]
      /\ Len(sessions') = Len(sessions)
  BY <1>5 DEF TypeInv, TablesOK
<1>8. \A d \in Calls : pc'[d] = "insertCreds" => d # c /\ row[d] \in 1..Len(sessions)
                          /\ pc[d] = "insertCreds" /\ row'[d] = row[d] /\ todo'[d] = todo[d]
  BY <1>6, ReturnQuiet DEF TypeInv, CallFit, Fit, Quiet, Return, Goto, CallTypes
<1>9. ASSUME NEW d \in Calls, pc'[d] = "insertCreds"
       PROVE  Importing(sessions', row'[d], todo'[d])
  <2>1. row[d] # n
    BY <1>1, <1>8, <1>9 DEF ImportInv
  <2>2. Importing(sessions, row[d], todo[d])
    BY <1>8, <1>9 DEF ImportInv
  <2>3. sessions'[row[d]] = sessions[row[d]] /\ row'[d] = row[d] /\ todo'[d] = todo[d]
    BY <1>7, <1>8, <1>9, <2>1
  <2>. QED  BY <2>2, <2>3 DEF Importing
<1>10. ASSUME NEW s \in 1..Len(sessions'), sessions'[s].told
       PROVE  sessions'[s].creds = Credentials
  BY <1>3, <1>4, <1>7, <1>10 DEF ImportInv
<1>. QED  BY <1>8, <1>9, <1>10 DEF ImportInv

LEMMA ImportNext ==
    ASSUME TypeInv, ImportInv, [ProvisioningNext]_provVars
    PROVE  ImportInv'
<1>0. TypeInv' /\ CallTypes
  BY TypeNext DEF TypeInv
<1>1. CASE \E c \in Calls, site \in SiteRows :
              StartCreateSite(c, site) \/ \E u \in Users : StartImport(c, u, site)
  <2>1. sessions' = sessions /\ Quiet("insertCreds")
    BY <1>0, <1>1 DEF StartCreateSite, StartImport, Begin, Goto, tables, Quiet, CallTypes
  <2>. QED  BY <2>1, ImportQuiet
<1>2. CASE \E c \in Calls, u \in Users, s \in DOMAIN sessions, list \in Requested :
              StartCreateLink(c, u, s, list)
  <2>1. sessions' = sessions /\ Quiet("insertCreds")
    BY <1>0, <1>2 DEF StartCreateLink, Begin, Goto, tables, Quiet, CallTypes
  <2>. QED  BY <2>1, ImportQuiet
<1>3. ASSUME NEW c \in Calls, CallStep(c) PROVE ImportInv'
  <2>1. CASE FindSite(c) \/ InsertSite(c)
    BY <1>0, <2>1, SiteStepsQuiet, ImportQuiet DEF FindSite, InsertSite, tables
  <2>2. CASE InsertLink(c)
    <3>1. sessions' = sessions /\ Quiet("insertCreds")
      BY <1>0, <2>2 DEF InsertLink, Goto, Quiet, CallTypes
    <3>. QED  BY <3>1, ImportQuiet
  <2>3. CASE AttachNext(c)
    <3>1. sessions' = sessions /\ Quiet("insertCreds")
      <4>1. CASE Head(todo[c]) \in Existing
        BY <1>0, <2>3, <4>1 DEF AttachNext, Quiet, CallTypes
      <4>2. CASE Head(todo[c]) \notin Existing
        BY <1>0, <2>3, <4>2, ReturnQuiet DEF AttachNext
      <4>. QED  BY <4>1, <4>2
    <3>. QED  BY <3>1, ImportQuiet
  <2>4. CASE CreateLinkReturns(c)
    BY <1>0, <2>4, ReturnQuiet, ImportQuiet DEF CreateLinkReturns
  <2>. QED
    BY <1>0, <1>3, <2>1, <2>2, <2>3, <2>4, InsertSessionImport, InsertCredentialImport,
       ImportReturnsImport DEF CallStep
<1>4. CASE \E c \in Calls : FailCall(c)
  BY <1>0, <1>4, ReturnQuiet, ImportQuiet DEF FailCall, tables
<1>5. CASE \E i \in DOMAIN sites, r \in Rules : AttachToSite(i, r)
  BY <1>5, ImportQuiet DEF AttachToSite, Quiet
<1>6. CASE \E l \in DOMAIN links, r \in Rules : AttachEndpointToLink(l, r)
  BY <1>6, ImportQuiet DEF AttachEndpointToLink, Quiet
<1>7. CASE \E p \in Attachable : CreateRow(p) \/ DeleteRow(p)
  BY <1>7, ImportQuiet DEF CreateRow, DeleteRow, Quiet
<1>8. CASE UNCHANGED provVars
  BY <1>8, ImportQuiet DEF provVars, Quiet
<1>. QED  BY <1>1, <1>2, <1>3, <1>4, <1>5, <1>6, <1>7, <1>8 DEF ProvisioningNext

-----------------------------------------------------------------------------
(* Links.                                                                  *)

Elems(q) == {q[i] : i \in DOMAIN q}

\* What may be attached when the policies and rules are as pol has them.
There(pol) == {p \in Attachable : pol[p] = "exists"}

\* The policies and rules of the list exist, or did.
Known(pol, list) == \A p \in Elems(list) \cap Attachable : pol[p] # "never"

\* What was asked for and can be attached is attached, or is on the list q.
Given(pol, r, q) == Elems(r.asked) \cap There(pol) \subseteq r.attached \cup Elems(q)

\* A row of shared_links.
LinkOK(pol, r) ==
    /\ Known(pol, r.asked)
    /\ r.attached \subseteq There(pol)
    /\ r.told => Given(pol, r, <<>>)

LinkInv ==
    /\ \A c \in Calls : pc[c] = "insertLink" => Known(config, todo[c])
    /\ \A c \in Calls : pc[c] = "attach" => Given(config, links[row[c]], todo[c])
    /\ \A l \in 1..Len(links) : LinkOK(config, links[l])

LEMMA LinkQuiet ==
    ASSUME LinkInv, links' = links, config' = config,
           Quiet("insertLink"), Quiet("attach")
    PROVE  LinkInv'
BY DEF LinkInv, Quiet

LEMMA StartCreateLinkLink ==
    ASSUME TypeInv, LinkInv, NEW c \in Calls, NEW u, NEW s, NEW list \in Requested,
           StartCreateLink(c, u, s, list)
    PROVE  LinkInv'
<1>1. Known(config, list)
  BY DEF StartCreateLink, Known, Elems
<1>2. links' = links /\ config' = config /\ Quiet("attach")
  BY DEF StartCreateLink, Begin, Goto, tables, Quiet, TypeInv, CallTypes
<1>3. \A d \in Calls : IF d = c THEN todo'[d] = list
                       ELSE pc'[d] = pc[d] /\ todo'[d] = todo[d]
  BY DEF StartCreateLink, Begin, Goto, TypeInv, CallTypes
<1>. QED  BY <1>1, <1>2, <1>3 DEF LinkInv, Quiet

LEMMA InsertLinkLink ==
    ASSUME TypeInv, LinkInv, NEW c \in Calls, InsertLink(c)
    PROVE  LinkInv'
<1> DEFINE r == [session |-> row[c], attached |-> {}, asked |-> todo[c], told |-> FALSE]
           n == Len(links) + 1
<1>1. todo[c] \in Requested /\ pc[c] = "insertLink"
  BY LocalTypes DEF InsertLink, Fit
<1>2. Known(config, todo[c])
  BY <1>1 DEF LinkInv
<1>3. /\ links' = Append(links, r) /\ config' = config
      /\ row' = [row EXCEPT ![c] = n] /\ pc' = [pc EXCEPT ![c] = "attach"]
      /\ todo' = todo
  BY DEF InsertLink, Goto
<1>4. r \in LinkRec /\ r.asked = todo[c] /\ r.attached = {} /\ ~r.told
  BY <1>1, LocalTypes DEF LinkRec
<1> HIDE DEF r
<1>5. LinkOK(config, r) /\ Given(config, r, todo[c])
  BY <1>2, <1>4 DEF LinkOK, Given
<1>6. /\ links'[n] = r /\ \A l \in 1..Len(links) : links'[l] = links[l]
      /\ Len(links') = n /\ Len(links) \in Nat
  BY <1>3, <1>4, AppendProperties DEF TypeInv, TablesOK
<1>7. \A l \in 1..Len(links') : l \in 1..Len(links) \/ l = n
  BY <1>6
<1>8. \A l \in 1..Len(links') : LinkOK(config', links'[l])
  BY <1>3, <1>5, <1>6, <1>7 DEF LinkInv
<1>9. \A d \in Calls : IF d = c THEN pc'[d] = "attach" /\ row'[d] = n
                       ELSE pc'[d] = pc[d] /\ row'[d] = row[d]
  BY <1>3 DEF TypeInv, CallTypes
<1>10. \A d \in Calls : pc[d] = "attach" => row[d] \in 1..Len(links)
  BY DEF TypeInv, CallFit, Fit
<1>11. ASSUME NEW d \in Calls, pc'[d] = "attach"
       PROVE  Given(config', links'[row'[d]], todo'[d])
  BY <1>3, <1>5, <1>6, <1>9, <1>10, <1>11 DEF LinkInv
<1>12. \A d \in Calls : pc'[d] = "insertLink" => Known(config', todo'[d])
  BY <1>3, <1>9 DEF LinkInv
<1>. QED  BY <1>8, <1>11, <1>12 DEF LinkInv

\* Attaching more disturbs nobody.
LEMMA MoreAttached ==
    ASSUME NEW pol, NEW r, NEW new, new.asked = r.asked, new.told = r.told,
           r.attached \subseteq new.attached, new.attached \subseteq There(pol)
    PROVE  /\ LinkOK(pol, r) => LinkOK(pol, new)
           /\ \A q : Given(pol, r, q) => Given(pol, new, q)
BY DEF LinkOK, Given

LEMMA ElemsOfTail ==
    ASSUME NEW S, NEW q \in Seq(S), q # <<>>
    PROVE  Elems(q) = {Head(q)} \cup Elems(Tail(q))
<1>1. /\ Len(q) \in Nat \ {0} /\ Tail(q) \in Seq(S) /\ Len(Tail(q)) = Len(q) - 1
      /\ Head(q) = q[1] /\ DOMAIN q = 1..Len(q) /\ DOMAIN Tail(q) = 1..Len(Tail(q))
      /\ \A i \in 1..Len(q) - 1 : Tail(q)[i] = q[i + 1]
  BY HeadTailProperties
<1>2. ASSUME NEW i \in DOMAIN q PROVE q[i] \in {Head(q)} \cup Elems(Tail(q))
  <2>1. CASE i = 1
    BY <1>1, <2>1
  <2>2. CASE i # 1
    <3>1. i - 1 \in 1..Len(q) - 1 /\ (i - 1) + 1 = i
      BY <1>1, <2>2
    <3>. QED  BY <1>1, <3>1 DEF Elems
  <2>. QED  BY <2>1, <2>2
<1>3. ASSUME NEW i \in DOMAIN Tail(q) PROVE Tail(q)[i] \in Elems(q)
  <2>1. i \in 1..Len(q) - 1 /\ i + 1 \in 1..Len(q)
    BY <1>1
  <2>. QED  BY <1>1, <2>1 DEF Elems
<1>4. Head(q) \in Elems(q)
  BY <1>1 DEF Elems
<1>. QED  BY <1>2, <1>3, <1>4 DEF Elems

LEMMA AttachNextLink ==
    ASSUME TypeInv, LinkInv, NEW c \in Calls, AttachNext(c)
    PROVE  LinkInv'
<1>1. CASE Head(todo[c]) \in Existing
  <2> DEFINE n == row[c]
             h == Head(todo[c])
             r == [links[n] EXCEPT !.attached = @ \cup {h}]
  <2>1. todo[c] \in Seq(Policies \cup Rules) /\ todo[c] # <<>> /\ n \in 1..Len(links)
        /\ pc[c] = "attach"
    BY LocalTypes DEF AttachNext, Fit
  <2>2. Elems(todo[c]) = {h} \cup Elems(Tail(todo[c]))
    BY <2>1, ElemsOfTail
  <2>3. links[n] \in LinkRec /\ LinkOK(config, links[n])
    BY <2>1 DEF TypeInv, TablesOK, LinkInv
  <2>4. /\ links' = [links EXCEPT ![n] = r] /\ config' = config
        /\ todo' = [todo EXCEPT ![c] = Tail(todo[c])] /\ row' = row /\ pc' = pc
    BY <1>1 DEF AttachNext
  <2>5. /\ r.asked = links[n].asked /\ r.told = links[n].told
        /\ r.attached = links[n].attached \cup {h}
    BY <2>3 DEF LinkRec
  <2>6. h \in There(config)
    BY <1>1 DEF There, Existing
  <2> HIDE DEF r, h
  <2>7. r.attached \subseteq There(config)
    BY <2>3, <2>5, <2>6 DEF LinkOK
  <2>8. /\ \A l \in 1..Len(links) : links'[l] = IF l = n THEN r ELSE links[l]
        /\ Len(links') = Len(links)
    BY <2>4 DEF TypeInv, TablesOK
  <2>9. \A l \in 1..Len(links') : LinkOK(config', links'[l])
    BY <2>3, <2>4, <2>5, <2>7, <2>8, MoreAttached DEF LinkInv
  <2>10. \A l \in 1..Len(links) : \A q :
            Given(config, links[l], q) => Given(config, links'[l], q)
    BY <2>5, <2>7, <2>8, MoreAttached
  <2>11. \A d \in Calls : pc[d] = "attach" => row[d] \in 1..Len(links)
    BY DEF TypeInv, CallFit, Fit
  <2>12. Given(config, r, Tail(todo[c]))
    <3>1. Given(config, links[n], todo[c])
      BY <2>1 DEF LinkInv
    <3>. QED  BY <2>2, <2>5, <3>1 DEF Given
  <2>13. ASSUME NEW d \in Calls, pc'[d] = "attach"
         PROVE  Given(config', links'[row'[d]], todo'[d])
    <3>1. CASE d = c
      <4>1. todo'[c] = Tail(todo[c])
        BY <2>4 DEF TypeInv, CallTypes
      <4>. QED  BY <2>1, <2>4, <2>8, <2>12, <3>1, <4>1
    <3>2. CASE d # c
      <4>1. todo'[d] = todo[d] /\ row'[d] = row[d] /\ pc[d] = "attach"
        BY <2>4, <2>13, <3>2 DEF TypeInv, CallTypes
      <4>. QED  BY <2>4, <2>10, <2>11, <4>1 DEF LinkInv
    <3>. QED  BY <3>1, <3>2
  <2>14. ASSUME NEW d \in Calls, pc'[d] = "insertLink"
         PROVE  Known(config', todo'[d])
    <3>1. todo'[d] = todo[d] /\ pc[d] = "insertLink"
      BY <2>1, <2>4, <2>14 DEF TypeInv, CallTypes
    <3>. QED  BY <2>4, <3>1 DEF LinkInv
  <2>. QED  BY <2>9, <2>13, <2>14 DEF LinkInv
<1>2. CASE Head(todo[c]) \notin Existing
  BY <1>2, ReturnQuiet, LinkQuiet DEF AttachNext, TypeInv
<1>. QED  BY <1>1, <1>2

LEMMA CreateLinkReturnsLink ==
    ASSUME TypeInv, LinkInv, NEW c \in Calls, CreateLinkReturns(c)
    PROVE  LinkInv'
<1> DEFINE n == row[c]
           r == [links[n] EXCEPT !.told = TRUE]
<1>1. todo[c] = <<>> /\ n \in 1..Len(links) /\ pc[c] = "attach"
  BY LocalTypes DEF CreateLinkReturns, Fit
<1>2. /\ links[n] \in LinkRec /\ LinkOK(config, links[n])
      /\ Given(config, links[n], <<>>)
  BY <1>1 DEF TypeInv, TablesOK, LinkInv
<1>3. links' = [links EXCEPT ![n] = r] /\ config' = config /\ Return(c)
  BY DEF CreateLinkReturns
<1>4. r.asked = links[n].asked /\ r.attached = links[n].attached
  BY <1>2 DEF LinkRec
<1> HIDE DEF r
<1>5. /\ \A l \in 1..Len(links) : links'[l] = IF l = n THEN r ELSE links[l]
      /\ Len(links') = Len(links)
  BY <1>3 DEF TypeInv, TablesOK
<1>6. LinkOK(config, r) /\ \A q : Given(config, links[n], q) => Given(config, r, q)
  BY <1>2, <1>4 DEF LinkOK, Given
<1>7. \A d \in Calls : /\ pc'[d] = "attach" => /\ row[d] \in 1..Len(links) /\ pc[d] = "attach"
                                               /\ row'[d] = row[d] /\ todo'[d] = todo[d]
                       /\ pc'[d] = "insertLink" => /\ pc[d] = "insertLink"
                                                   /\ todo'[d] = todo[d]
  BY <1>3, ReturnQuiet DEF TypeInv, CallFit, Fit, Quiet
<1>. QED  BY <1>3, <1>5, <1>6, <1>7 DEF LinkInv

LEMMA AttachEndpointLink ==
    ASSUME TypeInv, LinkInv, NEW n \in 1..Len(links), NEW e \in Rules,
           AttachEndpointToLink(n, e)
    PROVE  LinkInv'
<1> DEFINE r == [links[n] EXCEPT !.attached = @ \cup {e}]
<1>1. links[n] \in LinkRec /\ LinkOK(config, links[n])
  BY DEF TypeInv, TablesOK, LinkInv
<1>2. /\ links' = [links EXCEPT ![n] = r] /\ UNCHANGED <<config, todo, row, pc>>
  BY DEF AttachEndpointToLink
<1>3. /\ r.asked = links[n].asked /\ r.told = links[n].told
      /\ r.attached = links[n].attached \cup {e}
  BY <1>1 DEF LinkRec
<1> HIDE DEF r
<1>4. r.attached \subseteq There(config)
  BY <1>1, <1>3 DEF AttachEndpointToLink, Existing, LinkOK, There
<1>5. /\ \A l \in 1..Len(links) : links'[l] = IF l = n THEN r ELSE links[l]
      /\ Len(links') = Len(links)
  BY <1>2 DEF TypeInv, TablesOK
<1>6. \A l \in 1..Len(links') : LinkOK(config', links'[l])
  BY <1>1, <1>2, <1>3, <1>4, <1>5, MoreAttached DEF LinkInv
<1>7. \A l \in 1..Len(links) : \A q :
         Given(config, links[l], q) => Given(config, links'[l], q)
  BY <1>3, <1>4, <1>5, MoreAttached
<1>8. \A d \in Calls : pc[d] = "attach" => row[d] \in 1..Len(links)
  BY DEF TypeInv, CallFit, Fit
<1>. QED  BY <1>2, <1>6, <1>7, <1>8 DEF LinkInv

\* A new policy or rule is on no list yet.
LEMMA CreateRowLink ==
    ASSUME TypeInv, LinkInv, NEW p \in Attachable, CreateRow(p)
    PROVE  LinkInv'
<1>1. /\ config[p] = "never" /\ config' = [config EXCEPT ![p] = "exists"]
      /\ UNCHANGED <<links, pc, row, todo>>
  BY DEF CreateRow
<1>2. config'[p] = "exists" /\ \A o \in Attachable \ {p} : config'[o] = config[o]
  BY <1>1 DEF TypeInv, TablesOK
<1>3. There(config') = There(config) \cup {p}
  BY <1>2 DEF There
<1>4. \A list : Known(config, list) => Known(config', list) /\ p \notin Elems(list)
  BY <1>1, <1>2 DEF Known
<1>5. \A r, q : Known(config, r.asked) /\ Given(config, r, q) => Given(config', r, q)
  BY <1>3, <1>4 DEF Given
<1>6. \A r : LinkOK(config, r) => LinkOK(config', r)
  BY <1>3, <1>4, <1>5 DEF LinkOK
<1>7. \A d \in Calls : pc[d] = "attach" => row[d] \in 1..Len(links)
  BY DEF TypeInv, CallFit, Fit
<1>8. \A l \in 1..Len(links) : Known(config, links[l].asked)
  BY DEF LinkInv, LinkOK
<1>. QED  BY <1>1, <1>4, <1>5, <1>6, <1>7, <1>8 DEF LinkInv

\* The policy or rule goes, and goes from every link.
LEMMA DeleteRowLink ==
    ASSUME TypeInv, LinkInv, NEW p \in Attachable, DeleteRow(p)
    PROVE  LinkInv'
<1>1. /\ config' = [config EXCEPT ![p] = "deleted"] /\ UNCHANGED <<pc, row, todo>>
      /\ links' = [l \in DOMAIN links |-> [links[l] EXCEPT !.attached = @ \ {p}]]
  BY DEF DeleteRow
<1>2. config'[p] = "deleted" /\ \A o \in Attachable \ {p} : config'[o] = config[o]
  BY <1>1 DEF TypeInv, TablesOK
<1>3. There(config') = There(config) \ {p}
  BY <1>2, ProvisioningAssumption DEF There
<1>4. \A list : Known(config, list) => Known(config', list)
  BY <1>2 DEF Known
<1>5. Len(links) \in Nat /\ DOMAIN links = 1..Len(links)
      /\ \A l \in 1..Len(links) : links[l] \in LinkRec
  BY Lengths DEF TypeInv, TablesOK
<1>6. Len(links') = Len(links)
  BY <1>1, <1>5
<1>7. \A l \in 1..Len(links) : /\ links'[l].attached = links[l].attached \ {p}
                               /\ links'[l].asked = links[l].asked
                               /\ links'[l].told = links[l].told
  BY <1>1, <1>5 DEF LinkRec
<1>8. \A l \in 1..Len(links) : \A q :
         Given(config, links[l], q) => Given(config', links'[l], q)
  BY <1>3, <1>7 DEF Given
<1>9. \A l \in 1..Len(links) : LinkOK(config, links[l]) => LinkOK(config', links'[l])
  BY <1>3, <1>4, <1>7, <1>8 DEF LinkOK
<1>10. \A d \in Calls : pc[d] = "attach" => row[d] \in 1..Len(links)
  BY DEF TypeInv, CallFit, Fit
<1>. QED  BY <1>1, <1>4, <1>6, <1>8, <1>9, <1>10 DEF LinkInv

LEMMA LinkNext ==
    ASSUME TypeInv, LinkInv, [ProvisioningNext]_provVars
    PROVE  LinkInv'
<1>0. CallTypes /\ DOMAIN sessions = 1..Len(sessions) /\ DOMAIN links = 1..Len(links)
  BY DEF TypeInv, TablesOK
<1>1. CASE \E c \in Calls, site \in SiteRows :
              StartCreateSite(c, site) \/ \E u \in Users : StartImport(c, u, site)
  <2>1. UNCHANGED <<links, config>> /\ Quiet("insertLink") /\ Quiet("attach")
    BY <1>0, <1>1 DEF StartCreateSite, StartImport, Begin, Goto, tables, Quiet, CallTypes
  <2>. QED  BY <2>1, LinkQuiet
<1>2. CASE \E c \in Calls, u \in Users, s \in DOMAIN sessions, list \in Requested :
              StartCreateLink(c, u, s, list)
  BY <1>2, StartCreateLinkLink
<1>3. ASSUME NEW c \in Calls, CallStep(c) PROVE LinkInv'
  <2>1. CASE FindSite(c) \/ InsertSite(c)
    BY <1>0, <2>1, SiteStepsQuiet, LinkQuiet DEF FindSite, InsertSite, tables
  <2>2. CASE InsertSession(c)
    <3>1. UNCHANGED <<links, config>> /\ Quiet("insertLink") /\ Quiet("attach")
      BY <1>0, <2>2 DEF InsertSession, Goto, Quiet, CallTypes
    <3>. QED  BY <3>1, LinkQuiet
  <2>3. CASE InsertCredential(c)
    <3>1. UNCHANGED <<links, config>> /\ Quiet("insertLink") /\ Quiet("attach")
      BY <1>0, <2>3 DEF InsertCredential, Quiet, CallTypes
    <3>. QED  BY <3>1, LinkQuiet
  <2>4. CASE ImportReturns(c)
    BY <1>0, <2>4, ReturnQuiet, LinkQuiet DEF ImportReturns
  <2>. QED
    BY <1>3, <2>1, <2>2, <2>3, <2>4, InsertLinkLink, AttachNextLink, CreateLinkReturnsLink
    DEF CallStep
<1>4. CASE \E c \in Calls : FailCall(c)
  BY <1>0, <1>4, ReturnQuiet, LinkQuiet DEF FailCall, tables
<1>5. CASE \E i \in DOMAIN sites, r \in Rules : AttachToSite(i, r)
  BY <1>5, LinkQuiet DEF AttachToSite, Quiet
<1>6. CASE \E l \in DOMAIN links, r \in Rules : AttachEndpointToLink(l, r)
  BY <1>0, <1>6, AttachEndpointLink
<1>7. CASE \E p \in Attachable : CreateRow(p) \/ DeleteRow(p)
  BY <1>7, CreateRowLink, DeleteRowLink
<1>8. CASE UNCHANGED provVars
  BY <1>8, LinkQuiet DEF provVars, Quiet
<1>. QED  BY <1>1, <1>2, <1>3, <1>4, <1>5, <1>6, <1>7, <1>8 DEF ProvisioningNext

WorkInv == TypeInv /\ ImportInv /\ LinkInv

LEMMA WorkInit == ProvisioningInit => WorkInv
<1>. SUFFICES ASSUME ProvisioningInit PROVE WorkInv
  OBVIOUS
<1>1. Len(sessions) = 0 /\ Len(links) = 0 /\ \A c \in Calls : pc[c] = "idle"
  BY DEF ProvisioningInit
<1>. QED  BY <1>1, TypeInit DEF WorkInv, ImportInv, LinkInv

LEMMA WorkStep == WorkInv /\ [ProvisioningNext]_provVars => WorkInv'
BY TypeNext, ImportNext, LinkNext DEF WorkInv

LEMMA WorkAnswered == WorkInv => AnsweredComplete
<1>. SUFFICES ASSUME WorkInv PROVE AnsweredComplete
  OBVIOUS
<1>1. DOMAIN sessions = 1..Len(sessions) /\ DOMAIN links = 1..Len(links)
  BY DEF WorkInv, TypeInv, TablesOK
<1>2. \A s \in DOMAIN sessions : sessions[s].told => sessions[s].creds = Credentials
  BY <1>1 DEF WorkInv, ImportInv
<1>3. ASSUME NEW l \in DOMAIN links, links[l].told PROVE Configured(l)
  <2>1. Given(config, links[l], <<>>) /\ Elems(<<>>) = {}
    BY <1>1, <1>3 DEF WorkInv, LinkInv, LinkOK, Elems
  <2>2. There(config) = Existing
    BY DEF There, Existing
  <2>. QED  BY <2>1, <2>2 DEF Configured, Given, Elems
<1>. QED  BY <1>2, <1>3 DEF AnsweredComplete

\* A 201 is never given for half of the work, although nothing is transactional,
\* statements fail and policies and rules are deleted meanwhile (Import,
\* CreateLink).
THEOREM AnsweredTheorem == ProvisioningSpec => []AnsweredComplete
BY WorkInit, WorkStep, WorkAnswered, PTL DEF ProvisioningSpec

-----------------------------------------------------------------------------
(* How many rows a domain gets.                                            *)

Finding == {c \in Calls : pc[c] = "findSite"}

\* Every lookup that failed belongs to a call of its own, which is past it.
LookupInv ==
    /\ blind \in Nat /\ started \in Nat /\ started <= MaxCalls
    /\ blind + Cardinality(Finding) <= started

Bounded(d) ==
    Cardinality(SitesOf(d)) + Cardinality(Inserting(d)) <= Cardinality(Calls) + blind

LEMMA Counted ==
    ASSUME TypeInv, NEW d
    PROVE  /\ IsFiniteSet(SitesOf(d)) /\ Cardinality(SitesOf(d)) \in Nat
           /\ IsFiniteSet(Inserting(d)) /\ Cardinality(Inserting(d)) \in Nat
           /\ Cardinality(Calls) \in Nat
           /\ IsFiniteSet(Finding) /\ Cardinality(Finding) \in Nat
<1>1. Len(sites) \in Nat /\ DOMAIN sites = 1..Len(sites)
  BY DEF TypeInv, TablesOK
<1>2. IsFiniteSet(1..Len(sites))
  BY <1>1, FS_Interval
<1>3. SitesOf(d) \in SUBSET (1..Len(sites))
  BY <1>1 DEF SitesOf
<1>4. IsFiniteSet(SitesOf(d))
  BY <1>2, <1>3, FS_Subset
<1>5. IsFiniteSet(Calls) /\ Inserting(d) \in SUBSET Calls /\ Finding \in SUBSET Calls
  BY ProvisioningAssumption DEF Inserting, Finding
<1>6. IsFiniteSet(Inserting(d)) /\ IsFiniteSet(Finding)
  BY <1>5, FS_Subset
<1>. QED  BY <1>4, <1>5, <1>6, FS_CardinalityType

\* Nothing is inserted and nobody new is about to.
LEMMA NothingInserted ==
    ASSUME TypeInv, blind \in Nat, NEW d, Bounded(d), SitesOf(d)' = SitesOf(d),
           Inserting(d)' \subseteq Inserting(d), blind' \in {blind, blind + 1}
    PROVE  Bounded(d)'
<1> DEFINE before == Inserting(d)
           after == Inserting(d)'
           rows == SitesOf(d)
           more == SitesOf(d)'
<1>1. /\ IsFiniteSet(before) /\ after \in SUBSET before /\ more = rows
      /\ Cardinality(before) \in Nat /\ Cardinality(rows) \in Nat
      /\ Cardinality(Calls) \in Nat
      /\ Cardinality(rows) + Cardinality(before) <= Cardinality(Calls) + blind
  BY Counted DEF Bounded
<1> SUFFICES Cardinality(more) + Cardinality(after) <= Cardinality(Calls) + blind'
  BY DEF Bounded
<1> HIDE DEF before, after, rows, more
<1>2. /\ IsFiniteSet(after) /\ Cardinality(after) <= Cardinality(before)
  BY <1>1, FS_Subset
<1>3. Cardinality(after) \in Nat
  BY <1>2, FS_CardinalityType
<1>. QED  BY <1>1, <1>2, <1>3

\* A call that was about to insert the row of the domain does.
LEMMA AnnouncedInserted ==
    ASSUME TypeInv, blind \in Nat, NEW d, Bounded(d), NEW c \in Inserting(d), NEW i,
           SitesOf(d)' = SitesOf(d) \cup {i}, Inserting(d)' = Inserting(d) \ {c},
           blind' = blind
    PROVE  Bounded(d)'
<1> DEFINE before == Inserting(d)
           after == Inserting(d)'
           rows == SitesOf(d)
           more == SitesOf(d)'
<1>1. /\ IsFiniteSet(before) /\ after = before \ {c} /\ c \in before
      /\ IsFiniteSet(rows) /\ more = rows \cup {i}
      /\ Cardinality(before) \in Nat /\ Cardinality(rows) \in Nat
      /\ Cardinality(Calls) \in Nat
      /\ Cardinality(rows) + Cardinality(before) <= Cardinality(Calls) + blind
  BY Counted DEF Bounded
<1> SUFFICES Cardinality(more) + Cardinality(after) <= Cardinality(Calls) + blind'
  BY DEF Bounded
<1> HIDE DEF before, after, rows, more
<1>2. Cardinality(after) = Cardinality(before) - 1
  BY <1>1, FS_RemoveElement
<1>3. Cardinality(more) \in {Cardinality(rows), Cardinality(rows) + 1}
  BY <1>1, FS_AddElement
<1>. QED  BY <1>1, <1>2, <1>3

\* While the domain has no row, at most every call is about to insert one.
LEMMA FirstAnnounced ==
    ASSUME NEW d, SitesOf(d)' = {}, blind' \in Nat
    PROVE  Bounded(d)'
<1> DEFINE after == Inserting(d)'
<1>1. IsFiniteSet(Calls) /\ after \in SUBSET Calls
  BY ProvisioningAssumption DEF Inserting
<1> SUFFICES Cardinality({}) + Cardinality(after) <= Cardinality(Calls) + blind'
  BY DEF Bounded
<1> HIDE DEF after
<1>2. IsFiniteSet(after) /\ Cardinality(after) <= Cardinality(Calls)
  BY <1>1, FS_Subset
<1>3. Cardinality(after) \in Nat /\ Cardinality(Calls) \in Nat /\ Cardinality({}) = 0
  BY <1>1, <1>2, FS_CardinalityType, FS_EmptySet
<1>. QED  BY <1>2, <1>3

\* A failed lookup announces one more row, and is counted.
LEMMA BlindlyAnnounced ==
    ASSUME TypeInv, blind \in Nat, NEW d, Bounded(d), NEW c,
           SitesOf(d)' = SitesOf(d), Inserting(d)' \subseteq Inserting(d) \cup {c},
           blind' = blind + 1
    PROVE  Bounded(d)'
<1> DEFINE before == Inserting(d)
           after == Inserting(d)'
           rows == SitesOf(d)
           more == SitesOf(d)'
           all == before \cup {c}
<1>1. /\ IsFiniteSet(before) /\ after \in SUBSET all /\ more = rows
      /\ Cardinality(before) \in Nat /\ Cardinality(rows) \in Nat
      /\ Cardinality(Calls) \in Nat
      /\ Cardinality(rows) + Cardinality(before) <= Cardinality(Calls) + blind
  BY Counted DEF Bounded
<1> SUFFICES Cardinality(more) + Cardinality(after) <= Cardinality(Calls) + blind'
  BY DEF Bounded
<1> HIDE DEF before, after, rows, more
<1>2. /\ IsFiniteSet(all)
      /\ Cardinality(all) \in {Cardinality(before), Cardinality(before) + 1}
  BY <1>1, FS_AddElement
<1> HIDE DEF all
<1>3. /\ IsFiniteSet(after) /\ Cardinality(after) <= Cardinality(all)
  BY <1>1, <1>2, FS_Subset
<1>4. Cardinality(after) \in Nat
  BY <1>3, FS_CardinalityType
<1>. QED  BY <1>1, <1>2, <1>3, <1>4

\* Who is about to insert, and who looks, after a step of call c.
LEMMA InsertingAfter ==
    ASSUME CallTypes, NEW c \in Calls, NEW where, Goto(c, where), NEW d,
           \A e \in Calls \ {c} : target'[e] = target[e]
    PROVE  /\ where # "insertSite" \/ target'[c].domain # d =>
                 Inserting(d)' = Inserting(d) \ {c}
           /\ Inserting(d)' \subseteq Inserting(d) \cup {c}
<1>1. /\ pc'[c] = where /\ \A e \in Calls \ {c} : pc'[e] = pc[e]
  BY DEF CallTypes, Goto
<1>. QED  BY <1>1 DEF Inserting

LEMMA FindingAfter ==
    ASSUME CallTypes, NEW c \in Calls, NEW where, Goto(c, where)
    PROVE  Finding' = IF where = "findSite" THEN Finding \cup {c} ELSE Finding \ {c}
<1>1. /\ pc'[c] = where /\ \A e \in Calls \ {c} : pc'[e] = pc[e]
  BY DEF CallTypes, Goto
<1>. QED  BY <1>1 DEF Finding

LEMMA SitesOfAfterInsert ==
    ASSUME TypeInv, NEW t \in SiteRows, sites' = Append(sites, t), NEW d
    PROVE  SitesOf(d)' = IF t.domain = d THEN SitesOf(d) \cup {Len(sites) + 1}
                                         ELSE SitesOf(d)
<1>1. /\ Len(sites) \in Nat /\ Len(sites') = Len(sites) + 1
      /\ DOMAIN sites = 1..Len(sites) /\ DOMAIN sites' = 1..Len(sites')
      /\ \A i \in 1..Len(sites) : sites'[i] = sites[i]
      /\ sites'[Len(sites) + 1] = t
  BY AppendProperties DEF TypeInv, TablesOK
<1>. QED  BY <1>1 DEF SitesOf

\* What a step is to the two counts when it neither looks a site up nor inserts one.
Elsewhere ==
    /\ UNCHANGED <<sites, blind>>
    /\ \/ UNCHANGED <<pc, target, started>>
       \/ \E c \in Calls, where \in PCs \ {"findSite", "insertSite"} :
             /\ Goto(c, where) /\ \A e \in Calls \ {c} : target'[e] = target[e]
             /\ \/ UNCHANGED started
                \/ started < MaxCalls /\ started' = started + 1

LEMMA ReturnElsewhere ==
    ASSUME CallTypes, NEW c \in Calls, Return(c), UNCHANGED <<sites, blind, started>>
    PROVE  Elsewhere
<1>1. "idle" \in PCs \ {"findSite", "insertSite"} /\ Goto(c, "idle")
      /\ \A e \in Calls \ {c} : target'[e] = target[e]
  BY DEF PCs, Return, CallTypes
<1>. QED  BY <1>1 DEF Elsewhere

LEMMA OtherSteps ==
    ASSUME TypeInv, [ProvisioningNext]_provVars
    PROVE  \/ \E c \in Calls, site \in SiteRows :
                 StartCreateSite(c, site) \/ \E u \in Users : StartImport(c, u, site)
           \/ \E c \in Calls : FindSite(c) \/ InsertSite(c)
           \/ Elsewhere
<1>0. CallTypes
  BY DEF TypeInv
<1>1. ASSUME NEW c \in Calls, NEW u \in Users, NEW s \in DOMAIN sessions,
             NEW list \in Requested, StartCreateLink(c, u, s, list)
      PROVE  Elsewhere
  <2>1. "insertLink" \in PCs \ {"findSite", "insertSite"} /\ Goto(c, "insertLink")
        /\ target' = target /\ UNCHANGED <<sites, blind>>
        /\ started < MaxCalls /\ started' = started + 1
    BY <1>1 DEF PCs, StartCreateLink, Begin, tables
  <2>. QED  BY <2>1 DEF Elsewhere
<1>2. ASSUME NEW c \in Calls, InsertSession(c) \/ InsertLink(c) PROVE Elsewhere
  <2>1. PICK where \in {"insertCreds", "attach"} : Goto(c, where)
    BY <1>2 DEF InsertSession, InsertLink
  <2>2. where \in PCs \ {"findSite", "insertSite"} /\ UNCHANGED <<target, sites, blind, started>>
    BY <1>2 DEF PCs, InsertSession, InsertLink
  <2>. QED  BY <2>1, <2>2 DEF Elsewhere
<1>3. ASSUME NEW c \in Calls, InsertCredential(c) PROVE Elsewhere
  BY <1>3 DEF InsertCredential, Elsewhere
<1>4. ASSUME NEW c \in Calls, AttachNext(c) PROVE Elsewhere
  <2>1. CASE Head(todo[c]) \in Existing
    BY <1>4, <2>1 DEF AttachNext, Elsewhere
  <2>2. CASE Head(todo[c]) \notin Existing
    BY <1>0, <1>4, <2>2, ReturnElsewhere DEF AttachNext
  <2>. QED  BY <2>1, <2>2
<1>5. ASSUME NEW c \in Calls, ImportReturns(c) \/ CreateLinkReturns(c) \/ FailCall(c)
      PROVE  Elsewhere
  BY <1>0, <1>5, ReturnElsewhere DEF ImportReturns, CreateLinkReturns, FailCall, tables
<1>6. CASE \/ \E i \in DOMAIN sites, r \in Rules : AttachToSite(i, r)
           \/ \E l \in DOMAIN links, r \in Rules : AttachEndpointToLink(l, r)
           \/ \E p \in Attachable : CreateRow(p) \/ DeleteRow(p)
  BY <1>6 DEF AttachToSite, AttachEndpointToLink, CreateRow, DeleteRow, Elsewhere
<1>7. CASE UNCHANGED provVars
  BY <1>7 DEF provVars, Elsewhere
<1>. QED
  BY <1>1, <1>2, <1>3, <1>4, <1>5, <1>6, <1>7 DEF ProvisioningNext, CallStep

LEMMA BoundedStep ==
    ASSUME TypeInv, blind \in Nat, NEW d, Bounded(d), [ProvisioningNext]_provVars
    PROVE  Bounded(d)'
<1>0. CallTypes
  BY DEF TypeInv
<1>1. ASSUME NEW c \in Calls, NEW where, Goto(c, where), where # "insertSite",
             \A e \in Calls \ {c} : target'[e] = target[e], UNCHANGED <<sites, blind>>
      PROVE  Bounded(d)'
  <2>1. SitesOf(d)' = SitesOf(d) /\ Inserting(d)' \subseteq Inserting(d)
    BY <1>0, <1>1, InsertingAfter DEF SitesOf
  <2>. QED  BY <1>1, <2>1, NothingInserted
<1>2. ASSUME NEW c \in Calls, NEW site \in SiteRows,
             StartCreateSite(c, site) \/ \E u \in Users : StartImport(c, u, site)
      PROVE  Bounded(d)'
  <2>1. /\ Goto(c, "findSite") /\ UNCHANGED <<sites, blind>>
        /\ target' = [target EXCEPT ![c] = site]
    BY <1>2 DEF StartCreateSite, StartImport, Begin, tables
  <2>2. \A e \in Calls \ {c} : target'[e] = target[e]
    BY <1>0, <2>1 DEF CallTypes
  <2>. QED  BY <1>1, <2>1, <2>2
<1>3. ASSUME NEW c \in Calls, NEW i, HaveSite(c, i)
      PROVE  /\ \E where : where # "insertSite" /\ Goto(c, where)
             /\ \A e \in Calls \ {c} : target'[e] = target[e]
  BY <1>0, <1>3 DEF HaveSite, Return, CallTypes
<1>4. ASSUME NEW c \in Calls, FindSite(c) PROVE Bounded(d)'
  <2>1. sites' = sites /\ SitesOf(d)' = SitesOf(d)
    BY <1>4 DEF FindSite, tables, SitesOf
  <2>2. CASE \E i \in SitesOf(target[c].domain) : HaveSite(c, i) /\ UNCHANGED blind
    BY <1>1, <1>3, <2>1, <2>2
  <2>3. CASE SitesOf(target[c].domain) = {} /\ Goto(c, "insertSite")
             /\ UNCHANGED <<target, blind>>
    <3>1. CASE target[c].domain = d
      BY <2>1, <2>3, <3>1, FirstAnnounced
    <3>2. CASE target[c].domain # d
      <4>1. Inserting(d)' \subseteq Inserting(d)
        BY <1>0, <2>3, <3>2, InsertingAfter
      <4>. QED  BY <2>1, <2>3, <4>1, NothingInserted
    <3>. QED  BY <3>1, <3>2
  <2>4. CASE Goto(c, "insertSite") /\ blind' = blind + 1 /\ UNCHANGED target
    <3>1. Inserting(d)' \subseteq Inserting(d) \cup {c}
      BY <1>0, <2>4, InsertingAfter
    <3>. QED  BY <2>1, <2>4, <3>1, BlindlyAnnounced
  <2>. QED  BY <1>4, <2>2, <2>3, <2>4 DEF FindSite
<1>5. ASSUME NEW c \in Calls, InsertSite(c) PROVE Bounded(d)'
  <2>1. /\ pc[c] = "insertSite" /\ target[c] \in SiteRows
        /\ sites' = Append(sites, target[c]) /\ blind' = blind
    BY <1>5, LocalTypes DEF InsertSite, Fit
  <2>2. Inserting(d)' = Inserting(d) \ {c}
    BY <1>0, <1>3, <1>5, InsertingAfter DEF InsertSite
  <2>3. CASE target[c].domain = d
    <3>1. SitesOf(d)' = SitesOf(d) \cup {Len(sites) + 1}
      BY <2>1, <2>3, SitesOfAfterInsert
    <3>2. c \in Inserting(d)
      BY <2>1, <2>3 DEF Inserting
    <3>. QED  BY <2>1, <2>2, <3>1, <3>2, AnnouncedInserted
  <2>4. CASE target[c].domain # d
    <3>1. SitesOf(d)' = SitesOf(d)
      BY <2>1, <2>4, SitesOfAfterInsert
    <3>. QED  BY <2>1, <2>2, <3>1, NothingInserted
  <2>. QED  BY <2>3, <2>4
<1>6. CASE Elsewhere
  <2>1. CASE UNCHANGED <<pc, target, sites, blind>>
    <3>1. SitesOf(d)' = SitesOf(d) /\ Inserting(d)' = Inserting(d)
      BY <2>1 DEF SitesOf, Inserting
    <3>. QED  BY <2>1, <3>1, NothingInserted
  <2>. QED  BY <1>1, <1>6, <2>1 DEF Elsewhere
<1>. QED  BY <1>2, <1>4, <1>5, <1>6, OtherSteps

\* A call begins, looks, or is past its lookup.
LEMMA FindingCount ==
    ASSUME TypeInv, NEW c \in Calls
    PROVE  /\ Cardinality(Finding \cup {c}) <= Cardinality(Finding) + 1
           /\ c \in Finding => Cardinality(Finding \ {c}) = Cardinality(Finding) - 1
           /\ Cardinality(Finding \ {c}) <= Cardinality(Finding)
           /\ Cardinality(Finding \cup {c}) \in Nat /\ Cardinality(Finding \ {c}) \in Nat
<1> DEFINE F == Finding
<1>1. IsFiniteSet(F) /\ Cardinality(F) \in Nat
  BY Counted
<1>. SUFFICES /\ Cardinality(F \cup {c}) <= Cardinality(F) + 1
              /\ c \in F => Cardinality(F \ {c}) = Cardinality(F) - 1
              /\ Cardinality(F \ {c}) <= Cardinality(F)
              /\ Cardinality(F \cup {c}) \in Nat /\ Cardinality(F \ {c}) \in Nat
  OBVIOUS
<1> HIDE DEF F
<1>2. IsFiniteSet(F \cup {c}) /\ Cardinality(F \cup {c}) \in {Cardinality(F), Cardinality(F) + 1}
  BY <1>1, FS_AddElement
<1>3. IsFiniteSet(F \ {c}) /\ (c \in F => Cardinality(F \ {c}) = Cardinality(F) - 1)
      /\ (c \notin F => F \ {c} = F)
  BY <1>1, FS_RemoveElement
<1>4. Cardinality(F \cup {c}) \in Nat /\ Cardinality(F \ {c}) \in Nat
  BY <1>2, <1>3, FS_CardinalityType
<1>5. Cardinality(F \ {c}) <= Cardinality(F)
  BY <1>1, <1>3, <1>4
<1>. QED  BY <1>1, <1>2, <1>3, <1>4, <1>5

LEMMA LookupStep ==
    ASSUME TypeInv, LookupInv, [ProvisioningNext]_provVars
    PROVE  LookupInv'
<1> DEFINE n == Cardinality(Finding)
           m == Cardinality(Finding')
<1>0. CallTypes /\ MaxCalls \in Nat /\ n \in Nat
      /\ blind \in Nat /\ started \in Nat /\ started <= MaxCalls /\ blind + n <= started
  BY Counted, ProvisioningAssumption DEF TypeInv, LookupInv
<1>1. ASSUME NEW c \in Calls, NEW where, Goto(c, where)
      PROVE  /\ m \in Nat /\ m <= n + 1
             /\ where # "findSite" => m <= n
             /\ where # "findSite" /\ pc[c] = "findSite" => m = n - 1
  <2>1. Finding' = IF where = "findSite" THEN Finding \cup {c} ELSE Finding \ {c}
    BY <1>0, <1>1, FindingAfter
  <2>2. pc[c] = "findSite" => c \in Finding
    BY DEF Finding
  <2>3. CASE where = "findSite"
    BY <1>0, <2>1, <2>3, FindingCount
  <2>4. CASE where # "findSite"
    BY <1>0, <2>1, <2>2, <2>4, FindingCount
  <2>. QED  BY <2>3, <2>4
<1> HIDE DEF n, m
<1>. SUFFICES /\ blind' \in Nat /\ started' \in Nat /\ started' <= MaxCalls
              /\ blind' + m <= started'
  BY DEF LookupInv, m
<1>2. CASE \E c \in Calls, site \in SiteRows :
              StartCreateSite(c, site) \/ \E u \in Users : StartImport(c, u, site)
  <2>1. PICK c \in Calls : Begin(c, "findSite")
    BY <1>2 DEF StartCreateSite, StartImport
  <2>2. /\ Goto(c, "findSite") /\ blind' = blind
        /\ started < MaxCalls /\ started' = started + 1
    BY <2>1 DEF Begin
  <2>3. m \in Nat /\ m <= n + 1
    BY <1>1, <2>2
  <2>. QED  BY <1>0, <2>2, <2>3
<1>3. ASSUME NEW c \in Calls, NEW i, HaveSite(c, i)
      PROVE  \E where : where # "findSite" /\ Goto(c, where)
  BY <1>3 DEF HaveSite, Return
<1>4. ASSUME NEW c \in Calls, FindSite(c)
      PROVE  blind' \in Nat /\ started' \in Nat /\ started' <= MaxCalls
             /\ blind' + m <= started'
  <2>1. pc[c] = "findSite" /\ started' = started /\ blind' \in {blind, blind + 1}
    BY <1>4 DEF FindSite
  <2>2. PICK where : where # "findSite" /\ Goto(c, where)
    BY <1>3, <1>4 DEF FindSite
  <2>3. m \in Nat /\ m = n - 1
    BY <1>1, <2>1, <2>2
  <2>4. blind' \in Nat /\ blind' <= blind + 1
    BY <1>0, <2>1
  <2>5. m + 1 <= n
    BY <1>0, <2>3
  <2>6. \A a, b, x, y, z \in Nat : a <= b + 1 /\ x + 1 <= y /\ b + y <= z => a + x <= z
    OBVIOUS
  <2>7. blind' + m <= started
    BY <1>0, <2>3, <2>4, <2>5, <2>6
  <2>. QED  BY <1>0, <2>1, <2>4, <2>7
<1>5. ASSUME NEW c \in Calls, InsertSite(c)
      PROVE  blind' \in Nat /\ started' \in Nat /\ started' <= MaxCalls
             /\ blind' + m <= started'
  <2>1. started' = started /\ blind' = blind /\ HaveSite(c, Len(sites) + 1)
    BY <1>5 DEF InsertSite
  <2>2. PICK where : where # "findSite" /\ Goto(c, where)
    BY <1>3, <2>1
  <2>3. m \in Nat /\ m <= n
    BY <1>1, <2>2
  <2>. QED  BY <1>0, <2>1, <2>3
<1>6. CASE Elsewhere
  <2>1. CASE UNCHANGED <<pc, started>>
    <3>1. m = n /\ blind' = blind
      BY <1>6, <2>1 DEF Finding, n, m, Elsewhere
    <3>. QED  BY <1>0, <2>1, <3>1
  <2>2. CASE \E c \in Calls, where \in PCs \ {"findSite", "insertSite"} :
                /\ Goto(c, where)
                /\ UNCHANGED started \/ (started < MaxCalls /\ started' = started + 1)
    <3>1. m \in Nat /\ m <= n /\ blind' = blind
      BY <1>1, <1>6, <2>2 DEF Elsewhere
    <3>. QED  BY <1>0, <2>2, <3>1
  <2>. QED  BY <1>6, <2>1, <2>2 DEF Elsewhere
<1>. QED  BY <1>2, <1>4, <1>5, <1>6, OtherSteps

LEMMA CountsInit == ProvisioningInit => LookupInv /\ SitesBounded
<1>. SUFFICES ASSUME ProvisioningInit PROVE LookupInv /\ SitesBounded
  OBVIOUS
<1>1. Finding = {} /\ \A d \in Domains : SitesOf(d) = {} /\ Inserting(d) = {}
  BY DEF ProvisioningInit, Finding, SitesOf, Inserting
<1>2. Cardinality(Calls) \in Nat /\ MaxCalls \in Nat
  BY ProvisioningAssumption, FS_CardinalityType
<1>3. blind = 0 /\ started = 0
  BY DEF ProvisioningInit
<1>. QED  BY <1>1, <1>2, <1>3, FS_EmptySet DEF LookupInv, SitesBounded

LEMMA CountsStep ==
    TypeInv /\ LookupInv /\ SitesBounded /\ [ProvisioningNext]_provVars
        => LookupInv' /\ SitesBounded'
<1>. SUFFICES ASSUME TypeInv, LookupInv, SitesBounded, [ProvisioningNext]_provVars
              PROVE  LookupInv' /\ SitesBounded'
  OBVIOUS
<1>1. blind \in Nat /\ \A d \in Domains : Bounded(d)
  BY DEF LookupInv, SitesBounded, Bounded
<1>2. \A d \in Domains : Bounded(d)'
  BY <1>1, BoundedStep
<1>. QED  BY <1>2, LookupStep DEF SitesBounded, Bounded

\* "a rare benign race just produces two rows for the same domain": only calls
\* under way together and failed lookups do (GetOrCreateByDomain).
THEOREM SitesBoundedTheorem == ProvisioningSpec => []SitesBounded
<1>1. ProvisioningInit => TypeInv /\ LookupInv /\ SitesBounded
  BY TypeInit, CountsInit
<1>2. TypeInv /\ LookupInv /\ SitesBounded /\ [ProvisioningNext]_provVars
      => (TypeInv /\ LookupInv /\ SitesBounded)'
  BY TypeNext, CountsStep
<1>. QED  BY <1>1, <1>2, PTL DEF ProvisioningSpec

LEMMA RowsTyped ==
    ASSUME NEW S, NEW T, NEW q \in Seq(S), \A i \in 1..Len(q) : q[i] \in T
    PROVE  q \in Seq(T)
OBVIOUS

LEMMA TypeImplied ==
    ASSUME WorkInv, LookupInv
    PROVE  ProvisioningTypeOK
<1>1. /\ sites \in Seq(SiteRows) /\ DOMAIN sites = 1..Len(sites)
      /\ sessions \in Seq(SessionRec) /\ DOMAIN sessions = 1..Len(sessions)
      /\ links \in Seq(LinkRec)
      /\ config \in [Attachable -> {"never", "exists", "deleted"}]
      /\ siteRules \subseteq (DOMAIN sites) \X (Rules \cap Existing)
  BY DEF WorkInv, TypeInv, TablesOK, Existing, Attachable
<1>2. \A s \in 1..Len(sessions) : sessions[s] \in SessionRec /\ sessions[s].site \in DOMAIN sites
  BY <1>1 DEF WorkInv, TypeInv, TablesOK
<1>3. \A l \in 1..Len(links) : links[l] \in LinkRec /\ links[l].session \in DOMAIN sessions
  BY <1>1 DEF WorkInv, TypeInv, TablesOK
<1>4. \A l \in 1..Len(links) : links[l].attached \subseteq Existing
  BY DEF WorkInv, LinkInv, LinkOK, There, Existing
<1>5. \A s \in 1..Len(sessions) : sessions[s] \in SessionRows
  BY <1>2 DEF SessionRec, SessionRows, Text
<1>6. \A l \in 1..Len(links) : links[l] \in LinkRows
  BY <1>3, <1>4 DEF LinkRec, LinkRows
<1>7. sessions \in Seq(SessionRows)
  BY <1>1, <1>5, RowsTyped
<1>8. links \in Seq(LinkRows)
  BY <1>1, <1>6, RowsTyped
<1>9. Cardinality(Finding) \in Nat /\ MaxCalls \in Nat
  BY Counted, ProvisioningAssumption DEF WorkInv
<1>10. blind \in 0..MaxCalls /\ started \in 0..MaxCalls
  BY <1>9 DEF LookupInv
<1>. QED
  BY <1>1, <1>7, <1>8, <1>10 DEF ProvisioningTypeOK, WorkInv, TypeInv, CallTypes, PCs

\* Foreign keys hold in every state between two statements: a session refers to
\* a site, a link to a session, and to policies and rules that exist, a site to rules
\* that exist.
THEOREM ProvisioningTypeTheorem == ProvisioningSpec => []ProvisioningTypeOK
<1>1. ProvisioningInit => WorkInv /\ LookupInv
  BY WorkInit, CountsInit
<1>2. WorkInv /\ LookupInv /\ [ProvisioningNext]_provVars => (WorkInv /\ LookupInv)'
  BY WorkStep, LookupStep DEF WorkInv
<1>3. WorkInv /\ LookupInv => ProvisioningTypeOK
  BY TypeImplied
<1>. QED  BY <1>1, <1>2, <1>3, PTL DEF ProvisioningSpec

=============================================================================
