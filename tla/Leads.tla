-------------------------------- MODULE Leads --------------------------------
(***************************************************************************)
(* modules/leads.js: leads are captured, handed out to the staff, linked   *)
(* as duplicates of one another and converted to clients.  Leads are       *)
(* numbered in the order they are inserted, which is the order of          *)
(* created_at.  provisionClient (module Clients) is one step here: it      *)
(* gives the number of the client it made.                                 *)
(***************************************************************************)
EXTENDS Handlers, Sequences

CONSTANTS
    Addresses,      \* e-mail addresses and phone numbers people leave
    Pool,           \* pool_json of the active rule: the people leads go round to
    MaxLeads        \* bound: leads ever captured

ASSUME LeadConstants ==
    /\ Pool \in Seq(STRING) /\ Len(Pool) > 1 /\ MaxLeads \in Nat \ {0}

VARIABLES
    lead,           \* leads, by number
    lastIndex,      \* lead_assignment_rules.last_assigned_index of the round-robin rule
    convertedCount, \* campaigns.converted_count of the campaign
    clientsMade,    \* clients provisioned from leads
    conversions,    \* history: how often each lead was converted to the end
    given           \* history: leads each member of the pool was given by the rule

leads == <<lead, lastIndex, convertedCount, clientsMade, conversions, given>>
leadVars == <<server, leads>>

LeadIds == 1..MaxLeads
Statuses == {"new", "contacted", "lost", "won", "duplicate"}
NoLead == [status |-> "absent", keys |-> {}, dupOf |-> 0, client |-> 0, owner |-> None]

LeadInit ==
    /\ lead = [l \in LeadIds |-> NoLead]
    /\ lastIndex = 0 /\ convertedCount = 0 /\ clientsMade = 0
    /\ conversions = [l \in LeadIds |-> 0]
    /\ given = [i \in 1..Len(Pool) |-> 0]

Captured == {l \in LeadIds : lead[l].status # "absent"}
Open(l) == lead[l].status \in {"new", "contacted"}

-----------------------------------------------------------------------------
\* findDuplicate: the earliest lead that shares an address and is not itself linked.
FindDuplicate(keys) ==
    LET same == {l \in Captured : lead[l].dupOf = 0 /\ lead[l].keys \cap keys # {}}
    IN  IF same = {} THEN 0 ELSE CHOOSE l \in same : \A k \in same : l <= k

\* The member of the pool with the fewest open leads, the first of them on a tie.
LeastLoaded ==
    LET load(p) == Cardinality({l \in Captured : lead[l].owner = p /\ Open(l)})
        least == {i \in 1..Len(Pool) : \A j \in 1..Len(Pool) : load(Pool[i]) <= load(Pool[j])}
    IN  Pool[CHOOSE i \in least : \A j \in least : i <= j]

\* POST /leads: the duplicate it will be linked to is read first.
PostLead(r, keys, how) ==
    /\ keys # {}
    /\ Begin(r, [pc |-> "pick", keys |-> keys, dup |-> FindDuplicate(keys), how |-> how])
    /\ UNCHANGED leads

\* pickAssignee: the person named, the next of the pool (the index is read with the
\* rules and written before the lead is), or the least loaded.
PickAssignee(r) ==
    /\ At(r, "pick")
    /\ Continue(r, [pc |-> IF req[r].how = "roundRobin" THEN "advance" ELSE "insertLead",
                    keys |-> req[r].keys, dup |-> req[r].dup,
                    next |-> (lastIndex + 1) % Len(Pool),
                    owner |-> CASE req[r].how = "roundRobin" -> Pool[((lastIndex + 1) % Len(Pool)) + 1]
                                [] req[r].how = "leastLoaded" -> LeastLoaded
                                [] OTHER -> None])
    /\ UNCHANGED leads

Advance(r) ==
    /\ At(r, "advance")
    /\ lastIndex' = req[r].next
    /\ given' = [given EXCEPT ![req[r].next + 1] = @ + 1]
    /\ Continue(r, [req[r] EXCEPT !.pc = "insertLead"])
    /\ UNCHANGED <<lead, convertedCount, clientsMade, conversions>>

InsertLead(r) ==
    LET l == Cardinality(Captured) + 1 IN
    /\ At(r, "insertLead") /\ l \in LeadIds
    /\ lead' = [lead EXCEPT ![l] =
          [status |-> IF req[r].dup = 0 THEN "new" ELSE "duplicate",
           keys |-> req[r].keys, dupOf |-> req[r].dup, client |-> 0, owner |-> req[r].owner]]
    /\ Return(r)
    /\ UNCHANGED <<lastIndex, convertedCount, clientsMade, conversions, given>>

-----------------------------------------------------------------------------
\* PATCH /leads/:id.  "Won is reached by converting, not by declaring."
PatchLead(r, l, status) ==
    /\ l \in Captured
    /\ status = "won" => lead[l].client # 0
    /\ Begin(r, [pc |-> "writeLead", lead |-> l, patch |-> [status |-> status]])
    /\ UNCHANGED leads

\* Mutant: the original may be a duplicate itself.
LinkDuplicateAnywhere(r, l, original) ==
    /\ l \in Captured /\ original \in Captured /\ l # original
    /\ Begin(r, [pc |-> "writeLead", lead |-> l,
                 patch |-> [status |-> "duplicate", dupOf |-> original]])
    /\ UNCHANGED leads

\* POST /leads/:id/duplicate-of/:originalId
LinkDuplicate(r, l, original) ==
    /\ l \in Captured /\ original \in Captured /\ l # original
    /\ lead[original].dupOf = 0
    /\ Begin(r, [pc |-> "writeLead", lead |-> l,
                 patch |-> [status |-> "duplicate", dupOf |-> original]])
    /\ UNCHANGED leads

WriteLead(r) ==
    /\ At(r, "writeLead")
    /\ lead' = [lead EXCEPT ![req[r].lead] = Update(@, req[r].patch)]
    /\ Return(r)
    /\ UNCHANGED <<lastIndex, convertedCount, clientsMade, conversions, given>>

\* POST /leads/:id/convert: the client first, then the lead, then the leads that are
\* duplicates of it, then the count of the campaign, read and written.
Convert(r, l) ==
    /\ l \in Captured /\ lead[l].client = 0
    /\ Begin(r, [pc |-> "provision", lead |-> l])
    /\ UNCHANGED leads

Provision(r) ==
    /\ At(r, "provision")
    /\ clientsMade' = clientsMade + 1
    /\ Continue(r, [pc |-> "markWon", lead |-> req[r].lead, client |-> clientsMade + 1])
    /\ UNCHANGED <<lead, lastIndex, convertedCount, conversions, given>>

MarkWon(r) ==
    /\ At(r, "markWon")
    /\ lead' = [lead EXCEPT ![req[r].lead] = Update(@, [status |-> "won", client |-> req[r].client])]
    /\ conversions' = [conversions EXCEPT ![req[r].lead] = @ + 1]
    /\ Continue(r, [req[r] EXCEPT !.pc = "follow"])
    /\ UNCHANGED <<lastIndex, convertedCount, clientsMade, given>>

DuplicatesFollow(r) ==
    /\ At(r, "follow")
    /\ lead' = [l \in LeadIds |-> IF lead[l].dupOf = req[r].lead /\ l \in Captured
                                  THEN [lead[l] EXCEPT !.client = req[r].client] ELSE lead[l]]
    /\ Continue(r, [pc |-> "campaign"])
    /\ UNCHANGED <<lastIndex, convertedCount, clientsMade, conversions, given>>

ReadCampaign(r) ==
    /\ At(r, "campaign")
    /\ Continue(r, [pc |-> "count", seen |-> convertedCount])
    /\ UNCHANGED leads

CountConversion(r) ==
    /\ At(r, "count")
    /\ convertedCount' = req[r].seen + 1
    /\ Return(r)
    /\ UNCHANGED <<lead, lastIndex, clientsMade, conversions, given>>

-----------------------------------------------------------------------------
LeadRequest(r) ==
    \/ \E keys \in SUBSET Addresses, how \in {"named", "roundRobin", "leastLoaded"} : PostLead(r, keys, how)
    \/ \E l \in LeadIds : \/ \E status \in Statuses : PatchLead(r, l, status)
                          \/ \E original \in LeadIds : LinkDuplicate(r, l, original)
                          \/ Convert(r, l)

LeadStep(r) ==
    \/ PickAssignee(r) \/ Advance(r) \/ InsertLead(r) \/ WriteLead(r) \/ Provision(r) \/ MarkWon(r)
    \/ DuplicatesFollow(r) \/ ReadCampaign(r) \/ CountConversion(r)

LeadNext ==
    \/ \E r \in Requests : LeadRequest(r) \/ LeadStep(r)
    \/ Restart /\ UNCHANGED leads

\* A start with any slots, any number of requests and of restarts.
LeadSpec ==
    /\ \E slots \in SUBSET Requests, requests, stops \in Nat : ServerInit(slots, requests, stops)
    /\ LeadInit
    /\ [][LeadNext]_leadVars

LeadTypeOK ==
    /\ lead \in [LeadIds -> [status : Statuses \cup {"absent"}, keys : SUBSET Addresses,
                             dupOf : 0..MaxLeads, client : 0..clientsMade,
                             owner : {Pool[i] : i \in 1..Len(Pool)} \cup {None}]]
    /\ lastIndex < Len(Pool) /\ convertedCount \in Nat /\ clientsMade \in Nat

\* A lead that reads 'won' has a client behind it, however the edit, the link and the
\* conversion of the same lead interleave: the client is never taken off a lead.
WonHasClient == \A l \in LeadIds : lead[l].status = "won" => lead[l].client # 0

\* Following duplicate_of from any lead ends at a lead that is not a duplicate: the
\* link is refused unless its target is an original, so chains may grow but never
\* close.  Two links that overlap can point at each other.
DuplicatesEnd ==
    LET Reach[n \in 0..MaxLeads] ==
          IF n = 0 THEN [l \in LeadIds |-> lead[l].dupOf]
          ELSE [l \in LeadIds |-> IF Reach[n-1][l] = 0 THEN 0 ELSE lead[Reach[n-1][l]].dupOf]
    IN  ~overlapped => \A l \in LeadIds : Reach[MaxLeads][l] = 0

\* Round robin gives nobody two leads more than anybody else, whatever else happens
\* to the leads in between.
RoundRobinIsFair ==
    ~overlapped => \A i, j \in DOMAIN given : given[i] <= given[j] + 1

\* A lead is converted at most once, every conversion is one client and, once the
\* handler is through, one more on the campaign.
ConversionsAddUp ==
    ~overlapped =>
      LET done == {l \in LeadIds : conversions[l] > 0} IN
      /\ \A l \in LeadIds : conversions[l] <= 1
      /\ Quiescent => convertedCount = Cardinality(done) /\ clientsMade = Cardinality(done)

\* The book of leads holds together: the parts above.
LeadsHold ==
    /\ LeadTypeOK
    /\ WonHasClient
    /\ DuplicatesEnd
    /\ RoundRobinIsFair
    /\ ConversionsAddUp
=============================================================================
