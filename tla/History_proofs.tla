--------------------------- MODULE History_proofs ----------------------------
(***************************************************************************)
(* Lemmas about the steps of History, for any number of events and server  *)
(* processes. Rounds_proofs draws the theorem from them.                   *)
(***************************************************************************)
EXTENDS History, TLAPS

-----------------------------------------------------------------------------
(* The inductive invariant: why an event can end up outside of the sheet   *)
(* only when something happened that excuses it.                           *)

(* Only one event of a process is between the lock's two ends.             *)
InLock(e) == recording[e] \in {"lookup", "create", "header"}
LockHeld == \A e, f \in Events : InLock(e) /\ InLock(f) /\ server[e] = server[f] => e = f

(* Events about to create a sheet found none, and are alone in that.       *)
CreateOK ==
  /\ \A e \in Events : recording[e] = "create" /\ sheet # "none" => e \in excused
  /\ \A e, f \in Events : recording[e] = "create" /\ recording[f] = "create" /\ e # f =>
                            e \in excused /\ f \in excused

(* There is a sheet for a header, and a header for a row.                  *)
SheetOK ==
  /\ \A e \in Events : recording[e] = "header" /\ sheet = "none" => e \in excused
  /\ \A e \in Events : recording[e] = "append" /\ sheet # "headed" =>
                         e \in excused \/ server[e] \in stale
  /\ \A p \in ready : p \in stale \/ sheet = "headed"
  /\ stale \subseteq ready
  /\ sheet # "headed" => rows \subseteq excused

HInv == HistoryTypeOK /\ LockHeld /\ CreateOK /\ SheetOK /\ EventsKept

LEMMA HistoryBegins == ASSUME HistoryInit PROVE HInv
<1> DEFINE q == CHOOSE p \in Processes : TRUE
<1>1. q \in Processes  BY ProcessesAssumption
<1>2. recording = [e \in Events |-> "none"] /\ server = [e \in Events |-> q]
  BY DEF HistoryInit
<1> HIDE DEF q
<1> QED  BY <1>1, <1>2 DEF HistoryInit, HInv, HistoryTypeOK, LockHeld, InLock, CreateOK, SheetOK,
              EventsKept

LEMMA BeginKeeps ==
  ASSUME HInv, NEW e \in Events, NEW p \in Processes, Begin(e, p)
  PROVE  HInv'
<1> USE DEF HInv, Begin, Goes, HistoryTypeOK
<1>1. HistoryTypeOK'  OBVIOUS
<1>2. LockHeld'  BY DEF LockHeld, InLock
<1>3. CreateOK'  BY DEF CreateOK
<1>4. SheetOK'  BY DEF SheetOK
<1>5. EventsKept'  BY DEF EventsKept
<1> QED  BY <1>1, <1>2, <1>3, <1>4, <1>5

LEMMA EnsureKeeps ==
  ASSUME HInv, NEW e \in Events, Ensure(e)
  PROVE  HInv'
<1> USE DEF HInv, Ensure, Goes, HistoryTypeOK
<1>1. HistoryTypeOK'  OBVIOUS
<1>2. LockHeld'  BY DEF LockHeld, InLock, LockFree
<1>3. CreateOK'  BY DEF CreateOK
<1>4. SheetOK'  BY DEF SheetOK
<1>5. EventsKept'  BY DEF EventsKept
<1> QED  BY <1>1, <1>2, <1>3, <1>4, <1>5

LEMMA LookupKeeps ==
  ASSUME HInv, NEW e \in Events, Lookup(e)
  PROVE  HInv'
<1> USE DEF HInv, Lookup, Goes, HistoryTypeOK
<1>1. HistoryTypeOK'  BY DEF Rivals
<1>2. LockHeld'  BY DEF LockHeld, InLock
<1>3. CreateOK'  BY DEF CreateOK, Rivals, LockHeld, InLock
<1>4. SheetOK'  BY DEF SheetOK
<1>5. EventsKept'  BY DEF EventsKept
<1> QED  BY <1>1, <1>2, <1>3, <1>4, <1>5

LEMMA CreateSheetKeeps ==
  ASSUME HInv, NEW e \in Events, CreateSheet(e)
  PROVE  HInv'
<1> USE DEF HInv, CreateSheet, Goes, HistoryTypeOK
<1>1. HistoryTypeOK'  OBVIOUS
<1>2. LockHeld'  BY DEF LockHeld, InLock
<1>3. CreateOK'  BY DEF CreateOK
<1>4. SheetOK'  BY DEF SheetOK
<1>5. EventsKept'  BY DEF EventsKept, CreateOK
<1> QED  BY <1>1, <1>2, <1>3, <1>4, <1>5

(* A header over a row costs one that was excused before.                  *)
LEMMA HeadedCosts ==
  ASSUME HInv, Headed
  PROVE  /\ rows' \subseteq rows /\ rows \ rows' \subseteq excused
         /\ sheet' = "headed"
<1>1. rows' \subseteq rows /\ sheet' = "headed"  BY DEF Headed
<1>2. CASE sheet = "bare"  BY <1>1, <1>2 DEF HInv, SheetOK
<1>3. CASE sheet # "bare"  BY <1>1, <1>3 DEF Headed
<1> QED  BY <1>1, <1>2, <1>3

LEMMA PutHeaderKeeps ==
  ASSUME HInv, NEW e \in Events, PutHeader(e)
  PROVE  HInv'
<1> USE DEF HInv, PutHeader, Goes, HistoryTypeOK
<1>a. /\ rows' \subseteq rows /\ rows \ rows' \subseteq excused
      /\ sheet' = IF sheet = "none" THEN "none" ELSE "headed"
  BY HeadedCosts
<1>1. HistoryTypeOK'  BY <1>a
<1>2. LockHeld'  BY DEF LockHeld, InLock
<1>3. CreateOK'  BY <1>a DEF CreateOK
<1>4. SheetOK'  BY <1>a DEF SheetOK
<1>5. EventsKept'  BY <1>a DEF EventsKept, SheetOK
<1> QED  BY <1>1, <1>2, <1>3, <1>4, <1>5

LEMMA AppendRowKeeps ==
  ASSUME HInv, NEW e \in Events, AppendRow(e)
  PROVE  HInv'
<1> USE DEF HInv, AppendRow, Goes, HistoryTypeOK
<1>1. HistoryTypeOK'  OBVIOUS
<1>2. LockHeld'  BY DEF LockHeld, InLock
<1>3. CreateOK'  BY DEF CreateOK
<1>4. SheetOK'  BY DEF SheetOK
<1>5. EventsKept'  BY DEF EventsKept, SheetOK
<1> QED  BY <1>1, <1>2, <1>3, <1>4, <1>5

LEMMA RecordingFailsKeeps ==
  ASSUME HInv, NEW e \in Events, RecordingFails(e)
  PROVE  HInv'
<1> USE DEF HInv, Goes, HistoryTypeOK
<1>a. /\ recording' = [recording EXCEPT ![e] = "over"] /\ excused' = excused \cup {e}
      /\ UNCHANGED <<server, ready, stale>>
      /\ recording[e] # "over"
  BY DEF RecordingFails
<1>b. \/ UNCHANGED <<sheet, rows>>
      \/ recording[e] = "create" /\ sheet = "none" /\ sheet' = "bare" /\ UNCHANGED rows
      \/ /\ sheet # "none" /\ sheet' = "headed"
         /\ rows' \subseteq rows /\ rows \ rows' \subseteq excused
      \/ recording[e] = "append" /\ sheet # "none" /\ rows' = rows \cup {e} /\ UNCHANGED sheet
  BY HeadedCosts DEF RecordingFails
<1>1. HistoryTypeOK'  BY <1>a, <1>b
<1>2. LockHeld'  BY <1>a DEF LockHeld, InLock
<1>3. CreateOK'  BY <1>a, <1>b DEF CreateOK
<1>4. SheetOK'  BY <1>a, <1>b DEF SheetOK
<1>5. EventsKept'  BY <1>a, <1>b DEF EventsKept
<1> QED  BY <1>1, <1>2, <1>3, <1>4, <1>5

LEMMA ProcessDiesKeeps ==
  ASSUME HInv, NEW p \in Processes, ProcessDies(p)
  PROVE  HInv'
<1> USE DEF HInv, ProcessDies, HistoryTypeOK
<1>1. HistoryTypeOK'  BY DEF Underway
<1>2. LockHeld'  BY DEF LockHeld, InLock
<1>3. CreateOK'  BY DEF CreateOK
<1>4. SheetOK'  BY DEF SheetOK, Underway
<1>5. EventsKept'  BY DEF EventsKept
<1> QED  BY <1>1, <1>2, <1>3, <1>4, <1>5

LEMMA RemoveSheetKeeps ==
  ASSUME HInv, RemoveSheet
  PROVE  HInv'
<1> USE DEF HInv, RemoveSheet, HistoryTypeOK
<1>1. HistoryTypeOK'  BY DEF Underway
<1>2. LockHeld'  BY DEF LockHeld, InLock
<1>3. CreateOK'  BY DEF CreateOK, Underway
<1>4. SheetOK'  BY DEF SheetOK, Underway
<1>5. EventsKept'  BY DEF EventsKept
<1> QED  BY <1>1, <1>2, <1>3, <1>4, <1>5

LEMMA HistoryKeeps ==
  ASSUME HInv, HistoryStep \/ HistoryFault \/ UNCHANGED history
  PROVE  HInv'
<1>1. CASE HistoryStep
  BY <1>1, EnsureKeeps, LookupKeeps, CreateSheetKeeps, PutHeaderKeeps, AppendRowKeeps
  DEF HistoryStep
<1>2. CASE HistoryFault
  BY <1>2, RecordingFailsKeeps, ProcessDiesKeeps, RemoveSheetKeeps DEF HistoryFault
<1>3. CASE UNCHANGED history
  BY <1>3 DEF history, HInv, HistoryTypeOK, LockHeld, InLock, CreateOK, SheetOK, EventsKept
<1> QED  BY <1>1, <1>2, <1>3
=============================================================================
