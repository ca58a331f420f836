-------------------------------- MODULE MCSources --------------------------------
(* Instances of Sources and of Mappings for TLC: they take turns. *)
EXTENDS Sources, Mappings, TLC

CONSTANTS r1, r2, p1, c1

\* Calls of the client, or none: then there is a preview, or a publication.
AllCasts == {{r1, r2}, {r1, c1}, {p1, c1}, {}}

AllProfiles ==
    {[flags |-> f, terms |-> 0, inline |-> "empty", own |-> "absent"] : f \in Flags}
    \cup {[flags |-> "sold", terms |-> 0, inline |-> i, own |-> "absent"] : i \in {"absent", "null", "some"}}
    \cup {[flags |-> "sold", terms |-> 0, inline |-> "empty", own |-> "some"]}

\* Approvals of one, of another and of a rewritten document.
One == [pin |-> 1, content |-> 1]
Two == [pin |-> 2, content |-> 2]
Rewritten == [One EXCEPT !.content = 2]

Approved3(t, c, l) == [technical |-> t, commercial |-> c, legal |-> l]
First == Approved3(One, One, One)
AllApprovals == {First, Approved3(One, Two, One), Approved3(One, Rewritten, Two)}

AllPolicies == {[from |-> 0, until |-> d, facts |-> "sold"] : d \in {1, 2}}

-----------------------------------------------------------------------------
\* The previews share nothing with a call but the shutdown, and no clock, and
\* publications are another process.
NoCalls == now = 0 /\ \A c \in Calls : call[c] = [NewTask EXCEPT !.pc = "done"]
NoPreviews == \A p \in Previews : preview[p].pc = "idle"
NoCommands == \A p \in Publishers : command[p] = NewCommand

\* One edit, of the tariff or the prices, and one midnight during commands.
MappingTurn ==
    \/ PublicationStep /\ UNCHANGED catalogVars
    \/ /\ ~NoCommands /\ UNCHANGED mappingLocal
       /\ \/ Midnight
          \/ seller.edits = 0 /\ EditOffer /\ seller'.period = seller.period /\ seller'.service = seller.service

TurnsInit == Init /\ MappingInit

TurnsNext ==
    \/ NoCommands /\ ClientStep /\ UNCHANGED mappingLocal
    \/ NoCommands /\ NoCalls /\ CatalogStep /\ UNCHANGED mappingLocal
    \/ NoCalls /\ NoPreviews /\ shutdown = "no" /\ MappingTurn /\ UNCHANGED vars

TurnsSpec == TurnsInit /\ [][TurnsNext]_<<sourceVars, mappingVars>>

\* The kernel's releases matter until the manifest is fetched, the seller's
\* edits and midnight while the offer is read or published.  Nothing that is
\* there before matters to calls and previews.
EachInTime ==
    /\ manifest # "enabled" => NoCommands /\ \A p \in Previews : preview[p].pc \notin {"link"} \cup OfferReads
    /\ seller.edits > 0 /\ NoCommands =>
          /\ \A p \in Previews : preview[p].pc \in {"ended"} \cup OfferReads
          /\ manifest = "enabled" /\ shutdown \in {"no", "offers"}
    /\ revisions # {} => NoCalls /\ NoPreviews

\* Commands share nothing while they read: one after the other.
Evaluating == {p \in Publishers : command[p].pc \in {"first", "second", "evaluate"}}

OneByOne ==
    /\ Cardinality(Evaluating) <= 1
    /\ \A p, q \in Publishers : p < q /\ command[q].pc # "idle" => command[p].pc # "idle"
    /\ Cardinality(revisions) <= 3
    /\ \A r \in revisions : r.by = Free => \A doc \in r.document : doc.approvals = First
==================================================================================
