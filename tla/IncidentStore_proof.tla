---- MODULE IncidentStore_proof ----
(***************************************************************************)
(* Proofs about IncidentStore, for any number of incidents, cameras and      *)
(* gateways, any verdicts, limit of an escalation round and reviews.        *)
(***************************************************************************)
EXTENDS IncidentStore, TLAPS

(* No step takes a row of incidents away. *)
LEMMA RowsStay ==
  ASSUME TypeOK, [Next]_vars
  PROVE  Stored \subseteq Stored'
<1> USE DEF TypeOK, Stored, Statuses, Incidents
<1>1. CASE EmitIncident BY <1>1 DEF EmitIncident
<1>2. CASE Age BY <1>2 DEF Age
<1>3. CASE TakeIncident BY <1>3 DEF TakeIncident
<1>4. CASE InsertIncident BY <1>4 DEF InsertIncident
<1>5. CASE InsertPlaceholder BY <1>5 DEF InsertPlaceholder
<1>6. CASE PersistenceFails BY <1>6 DEF PersistenceFails
<1>7. CASE \E g \in Gateways : Select(g) BY <1>7 DEF Select
<1>8. CASE \E g \in Gateways : Escalate(g) BY <1>8 DEF Escalate
<1>9. CASE \E g \in Gateways : WriteRecords(g) BY <1>9 DEF WriteRecords
<1>10. CASE \E g \in Gateways : EngineFails(g) BY <1>10 DEF EngineFails
<1>11. CASE CreateCamera BY <1>11 DEF CreateCamera
<1>12. CASE Review BY <1>12, StoreAssumption DEF Review
<1>13. CASE RecordReview BY <1>13 DEF RecordReview
<1>14. CASE ReviewFails BY <1>14 DEF ReviewFails
<1>15. CASE Acknowledge BY <1>15 DEF Acknowledge
<1>16. CASE UNCHANGED vars BY <1>16 DEF vars
<1> QED
  BY <1>1, <1>2, <1>3, <1>4, <1>5, <1>6, <1>7, <1>8, <1>9, <1>10, <1>11, <1>12,
     <1>13, <1>14, <1>15, <1>16 DEF Next, Persistence, Round, Operator

(* A row is added only for the incident that persistence has in hand. *)
LEMMA RowsOfInHand ==
  ASSUME TypeOK, [Next]_vars
  PROVE  Stored' \subseteq Stored \cup (IF ppc = "insert" THEN {inHand} ELSE {})
<1> USE DEF TypeOK, Stored, Statuses, Incidents
<1>1. CASE EmitIncident BY <1>1 DEF EmitIncident
<1>2. CASE Age BY <1>2 DEF Age
<1>3. CASE TakeIncident BY <1>3 DEF TakeIncident
<1>4. CASE InsertIncident BY <1>4 DEF InsertIncident
<1>5. CASE InsertPlaceholder BY <1>5 DEF InsertPlaceholder
<1>6. CASE PersistenceFails BY <1>6 DEF PersistenceFails
<1>7. CASE \E g \in Gateways : Select(g) BY <1>7 DEF Select
<1>8. CASE \E g \in Gateways : Escalate(g) BY <1>8 DEF Escalate
<1>9. CASE \E g \in Gateways : WriteRecords(g) BY <1>9 DEF WriteRecords
<1>10. CASE \E g \in Gateways : EngineFails(g) BY <1>10 DEF EngineFails
<1>11. CASE CreateCamera BY <1>11 DEF CreateCamera
<1>12. CASE Review BY <1>12, StoreAssumption DEF Review
<1>13. CASE RecordReview BY <1>13 DEF RecordReview
<1>14. CASE ReviewFails BY <1>14 DEF ReviewFails
<1>15. CASE Acknowledge BY <1>15 DEF Acknowledge
<1>16. CASE UNCHANGED vars BY <1>16 DEF vars
<1> QED
  BY <1>1, <1>2, <1>3, <1>4, <1>5, <1>6, <1>7, <1>8, <1>9, <1>10, <1>11, <1>12,
     <1>13, <1>14, <1>15, <1>16 DEF Next, Persistence, Round, Operator

LEMMA ReviewsStay ==
  ASSUME NEW S, NEW T, S \subseteq T
  PROVE  [incident : S, verdict : Verdicts] \subseteq [incident : T, verdict : Verdicts]
OBVIOUS

LEMMA TypeInit == Init => TypeOK
BY StoreAssumption DEF Init, TypeOK, Stored, Statuses, Incidents

LEMMA TypeStep == TypeOK /\ [Next]_vars => TypeOK'
<1> SUFFICES ASSUME TypeOK, [Next]_vars PROVE TypeOK'
  OBVIOUS
<1> DEFINE Rows == Stored
<1>1. Rows \subseteq Rows' BY RowsStay
<1>2. Rows' \subseteq Rows \cup (IF ppc = "insert" THEN {inHand} ELSE {}) BY RowsOfInHand
<1>r. [incident : Rows, verdict : Verdicts] \subseteq [incident : Rows', verdict : Verdicts]
  BY <1>1, ReviewsStay
<1> USE StoreAssumption DEF Incidents
<1>3. EmitIncident => TypeOK'
  BY <1>1, <1>2, <1>r DEF TypeOK, EmitIncident, engine, operators
<1>4. Age => TypeOK'
  BY <1>1, <1>2, <1>r DEF TypeOK, Age, persistence, engine, operators
<1>5. TakeIncident => TypeOK'
  BY <1>1, <1>2, <1>r DEF TypeOK, TakeIncident, engine, operators
<1>6. InsertIncident => TypeOK'
  <2> SUFFICES ASSUME InsertIncident PROVE TypeOK'
    OBVIOUS
  <2>1. status' \in [Incidents -> Statuses]
    BY DEF TypeOK, InsertIncident, Statuses
  <2>2. Rows' \subseteq emitted' \ stream'
    BY <1>2 DEF TypeOK, InsertIncident
  <2>3. reviews' \subseteq [incident : Rows', verdict : Verdicts]
    BY <1>r DEF TypeOK, InsertIncident, operators
  <2>4. pending' \subseteq [incident : Rows', verdict : Verdicts]
    BY <1>r DEF TypeOK, InsertIncident, operators
  <2>5. escalations' \subseteq Rows' /\ old' \subseteq Rows' /\ cut' \subseteq Rows'
    BY <1>1 DEF TypeOK, InsertIncident, engine
  <2> QED
    BY <2>1, <2>2, <2>3, <2>4, <2>5 DEF TypeOK, InsertIncident, engine
<1>7. InsertPlaceholder => TypeOK'
  BY <1>1, <1>2, <1>r DEF TypeOK, InsertPlaceholder, engine, operators
<1>8. PersistenceFails => TypeOK'
  BY <1>1, <1>2, <1>r DEF TypeOK, PersistenceFails, engine, operators
<1>9. \A g \in Gateways : Select(g) => TypeOK'
  BY <1>1, <1>2, <1>r DEF TypeOK, Select, Riskiest, Eligible, Stored, persistence, operators
<1>10. \A g \in Gateways : Escalate(g) => TypeOK'
  BY <1>1, <1>2, <1>r DEF TypeOK, Escalate, persistence, operators, Statuses
<1>11. \A g \in Gateways : WriteRecords(g) => TypeOK'
  BY <1>1, <1>2, <1>r DEF TypeOK, WriteRecords, persistence, operators
<1>12. \A g \in Gateways : EngineFails(g) => TypeOK'
  BY <1>1, <1>2, <1>r DEF TypeOK, EngineFails, persistence, operators
<1>13. CreateCamera => TypeOK'
  BY <1>1, <1>2, <1>r DEF TypeOK, CreateCamera, persistence, engine, operators
<1>14. Review => TypeOK'
  BY <1>1, <1>2, <1>r DEF TypeOK, Review, persistence, engine, Stored, Statuses
<1>15. RecordReview => TypeOK'
  BY <1>1, <1>2, <1>r DEF TypeOK, RecordReview, persistence, engine
<1>16. ReviewFails => TypeOK'
  BY <1>1, <1>2, <1>r DEF TypeOK, ReviewFails, persistence, engine
<1>17. Acknowledge => TypeOK'
  BY <1>1, <1>2, <1>r DEF TypeOK, Acknowledge, persistence, engine, operators, Statuses
<1>18. UNCHANGED vars => TypeOK'
  BY DEF TypeOK, vars, persistence, engine, operators, Stored
<1> QED
  BY <1>3, <1>4, <1>5, <1>6, <1>7, <1>8, <1>9, <1>10, <1>11, <1>12, <1>13, <1>14,
     <1>15, <1>16, <1>17, <1>18 DEF Next, Persistence, Round, Operator

(* Every variable keeps its type, and every row of escalations and reviews   *)
(* has its incident, whatever fails between the statements.                  *)
THEOREM TypeCorrect == Spec => []TypeOK
BY TypeInit, TypeStep, PTL DEF Spec

(* The record of an escalated incident.  The invariant is inductive by itself:
   ESCALATED is only written by a step that leads to "insert", or by a review. *)
LEMMA ListedStep == TypeOK /\ EscalatedIsListed /\ [Next]_vars => EscalatedIsListed'
<1> SUFFICES ASSUME TypeOK, EscalatedIsListed, [Next]_vars PROVE EscalatedIsListed'
  OBVIOUS
<1> USE DEF operators, EscalatedIsListed, TypeOK, Statuses, Judged
<1>1. EmitIncident \/ Age => EscalatedIsListed' BY DEF EmitIncident, Age, engine
<1>2. TakeIncident => EscalatedIsListed' BY DEF TakeIncident, engine
<1>3. InsertIncident => EscalatedIsListed' BY DEF InsertIncident, engine
<1>4. InsertPlaceholder => EscalatedIsListed' BY DEF InsertPlaceholder, engine
<1>5. PersistenceFails => EscalatedIsListed' BY DEF PersistenceFails, engine
<1>6. \A g \in Gateways : Select(g) => EscalatedIsListed' BY DEF Select
<1>7. \A g \in Gateways : Escalate(g) => EscalatedIsListed' BY DEF Escalate
<1>8. \A g \in Gateways : WriteRecords(g) => EscalatedIsListed' BY DEF WriteRecords
<1>9. \A g \in Gateways : EngineFails(g) => EscalatedIsListed' BY DEF EngineFails
<1>10. CreateCamera => EscalatedIsListed' BY DEF CreateCamera, engine
<1>11. Review => EscalatedIsListed' BY DEF Review, engine
<1>12. RecordReview => EscalatedIsListed' BY DEF RecordReview, engine
<1>13. ReviewFails => EscalatedIsListed' BY DEF ReviewFails, engine
<1>14. Acknowledge => EscalatedIsListed' BY DEF Acknowledge, engine
<1>15. UNCHANGED vars => EscalatedIsListed' BY DEF vars, engine
<1> QED
  BY <1>1, <1>2, <1>3, <1>4, <1>5, <1>6, <1>7, <1>8, <1>9, <1>10, <1>11, <1>12,
     <1>13, <1>14, <1>15 DEF Next, Persistence, Round, Operator

(* An incident that an engine escalated is listed, however many gateways      *)
(* escalate, but for a round that is between its two statements or was cut    *)
(* short there (escalation.py:80-95); any other ESCALATED is a reviewer's.    *)
THEOREM EscalatedAreListed == Spec => []EscalatedIsListed
<1>1. Init => EscalatedIsListed BY DEF Init, EscalatedIsListed, Incidents
<1> QED BY <1>1, ListedStep, TypeCorrect, PTL DEF Spec

----
(* The verdict of a row and the rows of reviews *)

LEMMA VerdictStep == TypeOK /\ VerdictIsRecorded /\ [Next]_vars => VerdictIsRecorded'
<1> SUFFICES ASSUME TypeOK, VerdictIsRecorded, [Next]_vars PROVE VerdictIsRecorded'
  OBVIOUS
<1> USE DEF VerdictIsRecorded, TypeOK, Statuses, Judged
<1>1. EmitIncident \/ Age => VerdictIsRecorded' BY DEF EmitIncident, Age, operators
<1>2. TakeIncident => VerdictIsRecorded' BY DEF TakeIncident, operators
<1>3. InsertIncident => VerdictIsRecorded' BY DEF InsertIncident, operators
<1>4. InsertPlaceholder => VerdictIsRecorded' BY DEF InsertPlaceholder, operators
<1>5. PersistenceFails => VerdictIsRecorded' BY DEF PersistenceFails, operators
<1>6. \A g \in Gateways : Select(g) => VerdictIsRecorded' BY DEF Select, operators
<1>7. \A g \in Gateways : Escalate(g) => VerdictIsRecorded' BY DEF Escalate, operators
<1>8. \A g \in Gateways : WriteRecords(g) => VerdictIsRecorded' BY DEF WriteRecords, operators
<1>9. \A g \in Gateways : EngineFails(g) => VerdictIsRecorded' BY DEF EngineFails, operators
<1>10. CreateCamera => VerdictIsRecorded' BY DEF CreateCamera, operators
<1>11. Review => VerdictIsRecorded' BY DEF Review
<1>12. RecordReview => VerdictIsRecorded' BY DEF RecordReview
<1>13. ReviewFails => VerdictIsRecorded' BY DEF ReviewFails
<1>14. Acknowledge => VerdictIsRecorded' BY DEF Acknowledge, operators
<1>15. UNCHANGED vars => VerdictIsRecorded' BY DEF vars, operators
<1> QED
  BY <1>1, <1>2, <1>3, <1>4, <1>5, <1>6, <1>7, <1>8, <1>9, <1>10, <1>11, <1>12,
     <1>13, <1>14, <1>15 DEF Next, Persistence, Round, Operator

(* Whatever the number of reviews under way at once, the verdict in a row of  *)
(* incidents is that of a review recorded, still to come, or cut short.       *)
THEOREM VerdictsAreRecorded == Spec => []VerdictIsRecorded
<1>1. Init => VerdictIsRecorded BY StoreAssumption DEF Init, VerdictIsRecorded, Incidents
<1> QED BY <1>1, VerdictStep, TypeCorrect, PTL DEF Spec

====
