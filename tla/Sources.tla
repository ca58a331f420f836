--------------------------------- MODULE Sources ---------------------------------
(***************************************************************************)
(* The sources of one portal process: the calls of the billing client and  *)
(* the catalog's previews end with one shutdown of source_resources.  The  *)
(* previews run under the admission of the offers.                         *)
(***************************************************************************)
EXTENDS LbxClient, Catalog

sourceVars == <<vars, catalogVars>>

SourcesInit == Init /\ CatalogInit

\* A preview is cancelled where it waits, and its last read is over by then.
PreviewsOver == \A p \in Previews : preview[p].pc \in {"idle", "ended"}
PreviewsMayRun == shutdown \in {"no", "billing", "billingPending"}

ClientStep ==
    /\ Next
    /\ shutdown' = "closed" => PreviewsOver
    /\ UNCHANGED catalogVars

CatalogStep ==
    /\ \/ PreviewsMayRun /\ CatalogNext
       \/ \E p \in Previews : PreviewFails(p)
    /\ UNCHANGED vars

SourcesNext == ClientStep \/ CatalogStep

SourcesSpec == SourcesInit /\ [][SourcesNext]_sourceVars
==================================================================================
