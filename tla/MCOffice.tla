------------------------------- MODULE MCOffice -------------------------------
(***************************************************************************)
(* Approvals, documents and foreign trade.  They share nothing, so that a  *)
(* behaviour is of one of them ("desk").  A definition of two nodes: all   *)
(* of two approvers, then any of a role the applicant is in; two users at  *)
(* a time.  Two files, a disposal batch of both and one of the second; two *)
(* clerks.  Two shipments and two boxes for one order line of two pieces;  *)
(* a paper of each kind.  Shipments and boxes are interchangeable.         *)
(***************************************************************************)
EXTENDS Approvals, Documents, Trade, TLC

CONSTANTS i1, u1, u2, u3, r1, r2, w1, w2, f1, f2, b1, b2, s1, s2, x1, x2, l1, p1, p2, p3, p4

VARIABLE desk

MCNodes == <<[mode |-> "all", user |-> Nobody, role |-> r1],
             [mode |-> "any", user |-> Nobody, role |-> r2]>>
MCMembers == r1 :> {u2, u3} @@ r2 :> {u1, u2}
MCApplicant == [i \in Instances |-> u1]
MCItems == b1 :> {f1, f2} @@ b2 :> {f2}
MCRequester == [b \in Batches |-> u1]
MCOrdered == [l \in TradeLines |-> 2]
MCKind == p1 :> "document" @@ p2 :> "customs" @@ p3 :> "settlement" @@ p4 :> "contract"
MCAuthor == [p \in Papers |-> u1]
MCSymmetry == Permutations(Consignments) \cup Permutations(Boxes)

OfficeInit ==
  /\ desk \in {"approvals", "documents", "boxes", "papers"}
  /\ ApprovalsInit /\ DocumentsInit /\ TradeInit
OfficeNext ==
  /\ UNCHANGED desk
  /\ \/ desk = "approvals" /\ ApprovalsNext /\ UNCHANGED <<documentVars, tradeVars>>
     \/ desk = "documents" /\ DocumentsNext /\ UNCHANGED <<approvalVars, tradeVars>>
     \/ desk = "boxes" /\ BoxesNext /\ UNCHANGED <<approvalVars, documentVars>>
     \/ desk = "papers" /\ PapersNext /\ UNCHANGED <<approvalVars, documentVars>>
OfficeSpec == OfficeInit /\ [][OfficeNext]_<<approvalVars, documentVars, tradeVars, desk>>
===============================================================================
