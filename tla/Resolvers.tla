------------------------------ MODULE Resolvers ------------------------------
(***************************************************************************)
(* The three resolvers of the repository behind the one promise they make  *)
(* (Resolver): a behaviour is one of the asynchronous resolver, of the     *)
(* blocking one or of the resolver of remote files, as kind says.          *)
(***************************************************************************)
EXTENDS AsyncResolver

CONSTANT MaxFinishes   \* bound: Finish calls of the blocking resolver's client

VARIABLES kind,
          results, added, finished, blockingReply, finishes,
          filesClient, fetch, fetched, wg, closer, filesSpecs, filesErrs, filesReply

blockingVars == <<results, added, finished, blockingReply, finishes>>
filesVars == <<filesClient, fetch, fetched, wg, closer, filesSpecs, filesErrs, filesReply>>
allVars == <<vars, kind, blockingVars, filesVars>>

Blocking == INSTANCE BlockingResolver WITH reply <- blockingReply
Files == INSTANCE FileResolver
           WITH client <- filesClient, outcome <- fetched, specs <- filesSpecs,
                errs <- filesErrs, reply <- filesReply

AllInit ==
    /\ kind \in {"async", "blocking", "files"}
    /\ Init /\ Blocking!Init /\ Files!Init

AsyncStep ==
    /\ kind = "async" /\ Next
    /\ UNCHANGED <<kind, blockingVars, filesVars>>

BlockingStep ==
    /\ kind = "blocking" /\ Blocking!Next
    /\ UNCHANGED <<vars, kind, filesVars>>

FilesStep ==
    /\ kind = "files" /\ Files!Next
    /\ UNCHANGED <<vars, kind, blockingVars>>

(* The client may have nothing left to ask for.                            *)
NothingLeft ==
    /\ \/ kind = "blocking" /\ finishes = MaxFinishes
       \/ kind = "files" /\ filesClient = "done"
    /\ UNCHANGED allVars

AllNext == AsyncStep \/ BlockingStep \/ FilesStep \/ NothingLeft

AllSafety == AllInit /\ [][AllNext]_allVars

(* The fairness of each kind, that of AsyncResolver's FairSpec included.   *)
AllSpec ==
    /\ AllSafety
    /\ WF_vars(kind = "async" /\ Caller)
    /\ \A r \in Requests : WF_vars(kind = "async" /\ Goroutine(r))
    /\ Files!Fairness

-----------------------------------------------------------------------------
(* Every resolver keeps the promise of the interface: Finish accounts for  *)
(* what was added since the last one, and for nothing else.                *)
PromiseKept == ResolverSpec /\ Blocking!ResolverSpec /\ Files!ResolverSpec

(* Finish returns, whatever the order in which the results come and        *)
(* however few of them the channel holds.                                  *)
EveryFinishEnds == FinishEnds /\ Files!FinishEnds
=============================================================================
