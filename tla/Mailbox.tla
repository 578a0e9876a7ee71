------------------------------- MODULE Mailbox -------------------------------
(***************************************************************************)
(* The mailbox between the interrupt handler of rx433.c and the main loop: *)
(* rx433_home_easy, rx433_new_code and rx433_new_code_ready, with the      *)
(* critical section of mail_receive_messages.                              *)
(*                                                                         *)
(* The handler interrupts the main loop between any two of its accesses    *)
(* and is never interrupted itself.  Messages are numbered as they are     *)
(* decoded; a symbol of a new code is the number of the message it came    *)
(* with.  While one edge waits for enable_interrupts, others are lost, as  *)
(* in Rx433.                                                               *)
(***************************************************************************)
EXTENDS Integers, Sequences

CONSTANTS
  DataSize,     \* NC_DATA_SIZE
  MaxCodes,     \* bound on new codes decoded
  MaxHeCodes    \* bound on Home Easy codes decoded

ASSUME MailboxAssumption ==
  /\ DataSize \in Nat \ {0}
  /\ MaxCodes \in Nat /\ MaxHeCodes \in Nat

VARIABLES
  rx433_home_easy,       \* 0: none
  rx433_new_code,
  rx433_new_code_ready,
  interrupts,            \* they are enabled
  pc,                    \* the next access of mail_receive_messages
  copy_home_easy,
  copy_new_code,
  copy_new_code_ready,
  copied,                \* how many symbols memcpy has copied
  newest,                \* history: the number of new codes decoded
  heDecoded,             \* history: the number of Home Easy codes decoded
  newestHe,              \* history: the value of the last of them
  taken,                 \* history: the new codes handed to ncrs_decode
  heTaken                \* history: the Home Easy codes shown

boxVars == <<rx433_home_easy, rx433_new_code, rx433_new_code_ready>>
copyVars == <<copy_home_easy, copy_new_code, copy_new_code_ready, copied>>
decodedVars == <<newest, heDecoded, newestHe>>
takenVars == <<taken, heTaken>>
mailboxVars == <<boxVars, interrupts, pc, copyVars, decodedVars, takenVars>>

Symbols == 1 .. DataSize
Code == [Symbols -> Nat]
Steps == {"disable", "testHe", "copyHe", "clearHe", "testNew", "copyNew", "clearReady",
          "setCopyReady", "enable", "process"}

(* The number of new code taken last. *)
LastTaken == IF taken = <<>> THEN 0 ELSE taken[Len(taken)][1]

BoxTypeOK ==
  /\ rx433_home_easy \in Nat
  /\ rx433_new_code \in Code
  /\ rx433_new_code_ready \in BOOLEAN
  /\ interrupts \in BOOLEAN
  /\ pc \in Steps
  /\ copy_home_easy \in Nat
  /\ copy_new_code \in Code
  /\ copy_new_code_ready \in BOOLEAN
  /\ copied \in 0 .. DataSize
  /\ newest \in Nat
  /\ heDecoded \in Nat
  /\ newestHe \in Nat
  /\ taken \in Seq(Code)
  /\ heTaken \in Seq(Nat)

BoxInit ==
  /\ rx433_home_easy = 0
  /\ rx433_new_code = [i \in Symbols |-> 0]
  /\ rx433_new_code_ready = FALSE
  /\ interrupts = TRUE
  /\ pc = "disable"
  /\ copy_home_easy = 0
  /\ copy_new_code = [i \in Symbols |-> 0]
  /\ copy_new_code_ready = FALSE
  /\ copied = 0
  /\ newest = 0
  /\ heDecoded = 0
  /\ newestHe = 0
  /\ taken = <<>>
  /\ heTaken = <<>>

-----------------------------------------------------------------------------
(* rx433_interrupt, when it completes a message *)

NewCodeDecoded ==
  /\ interrupts
  /\ newest < MaxCodes
  /\ newest' = newest + 1
  /\ rx433_new_code' = [i \in Symbols |-> newest + 1]
  /\ rx433_new_code_ready' = TRUE
  /\ UNCHANGED <<rx433_home_easy, interrupts, pc, copyVars, heDecoded, newestHe, takenVars>>

(* A code may be 0, which is also what an empty mailbox holds. *)
HomeEasyDecoded(value) ==
  /\ interrupts
  /\ heDecoded < MaxHeCodes
  /\ heDecoded' = heDecoded + 1
  /\ rx433_home_easy' = value
  /\ newestHe' = value
  /\ UNCHANGED <<rx433_new_code, rx433_new_code_ready, interrupts, pc, copyVars, newest, takenVars>>

-----------------------------------------------------------------------------
(* mail_receive_messages, access by access *)

At(here, next) == pc = here /\ pc' = next

(* Each definition named Mut... is a plausible mistake in the one after it. *)
MutDisableInterrupts ==
  /\ At("disable", "testHe")
  /\ copy_home_easy' = 0
  /\ copy_new_code_ready' = FALSE
  /\ UNCHANGED <<boxVars, interrupts, copy_new_code, copied, decodedVars, takenVars>>

DisableInterrupts ==
  /\ At("disable", "testHe")
  /\ interrupts' = FALSE
  /\ copy_home_easy' = 0
  /\ copy_new_code_ready' = FALSE
  /\ UNCHANGED <<boxVars, copy_new_code, copied, decodedVars, takenVars>>

TestHe ==
  /\ pc = "testHe"
  /\ pc' = IF rx433_home_easy # 0 THEN "copyHe" ELSE "testNew"
  /\ UNCHANGED <<boxVars, interrupts, copyVars, decodedVars, takenVars>>

CopyHe ==
  /\ At("copyHe", "clearHe")
  /\ copy_home_easy' = rx433_home_easy
  /\ UNCHANGED <<boxVars, interrupts, copy_new_code, copy_new_code_ready, copied, decodedVars, takenVars>>

ClearHe ==
  /\ At("clearHe", "testNew")
  /\ rx433_home_easy' = 0
  /\ UNCHANGED <<rx433_new_code, rx433_new_code_ready, interrupts, copyVars, decodedVars, takenVars>>

TestNew ==
  /\ pc = "testNew"
  /\ pc' = IF rx433_new_code_ready THEN "copyNew" ELSE "enable"
  /\ copied' = 0
  /\ UNCHANGED <<boxVars, interrupts, copy_home_easy, copy_new_code, copy_new_code_ready,
                 decodedVars, takenVars>>

(* One symbol of memcpy. *)
CopyNew ==
  /\ pc = "copyNew"
  /\ copied' = copied + 1
  /\ copy_new_code' = [copy_new_code EXCEPT ![copied + 1] = rx433_new_code[copied + 1]]
  /\ pc' = IF copied + 1 = DataSize THEN "clearReady" ELSE "copyNew"
  /\ UNCHANGED <<boxVars, interrupts, copy_home_easy, copy_new_code_ready, decodedVars, takenVars>>

MutClearReady ==
  /\ At("clearReady", "setCopyReady")
  /\ UNCHANGED <<boxVars, interrupts, copyVars, decodedVars, takenVars>>

ClearReady ==
  /\ At("clearReady", "setCopyReady")
  /\ rx433_new_code_ready' = FALSE
  /\ UNCHANGED <<rx433_home_easy, rx433_new_code, interrupts, copyVars, decodedVars, takenVars>>

MutSetCopyReady ==
  /\ At("setCopyReady", "enable")
  /\ UNCHANGED <<boxVars, interrupts, copyVars, decodedVars, takenVars>>

SetCopyReady ==
  /\ At("setCopyReady", "enable")
  /\ copy_new_code_ready' = TRUE
  /\ UNCHANGED <<boxVars, interrupts, copy_home_easy, copy_new_code, copied, decodedVars, takenVars>>

EnableInterrupts ==
  /\ At("enable", "process")
  /\ interrupts' = TRUE
  /\ UNCHANGED <<boxVars, copyVars, decodedVars, takenVars>>

(* The rest of the function, which works on the copies, and of loop(). *)
Process ==
  /\ At("process", "disable")
  /\ heTaken' = IF copy_home_easy # 0 THEN Append(heTaken, copy_home_easy) ELSE heTaken
  /\ taken' = IF copy_new_code_ready THEN Append(taken, copy_new_code) ELSE taken
  /\ UNCHANGED <<boxVars, interrupts, copyVars, decodedVars>>

MainLoop ==
  \/ DisableInterrupts \/ TestHe \/ CopyHe \/ ClearHe \/ TestNew \/ CopyNew
  \/ ClearReady \/ SetCopyReady \/ EnableInterrupts \/ Process

BoxNext ==
  \/ NewCodeDecoded
  \/ \E value \in {0, heDecoded + 1} : HomeEasyDecoded(value)
  \/ MainLoop

BoxSpec == BoxInit /\ [][BoxNext]_mailboxVars

(* The main loop goes on whatever arrives. *)
FairBoxSpec == BoxSpec /\ WF_mailboxVars(MainLoop)

-----------------------------------------------------------------------------
(* Properties *)

(* mail.c:145-156: what goes to ncrs_decode is a message as it was         *)
(* decoded, with no symbol of another one.                                 *)
NoTornCode ==
  pc = "process" /\ copy_new_code_ready =>
    \E n \in 1 .. newest : copy_new_code = [i \in Symbols |-> n]

(* No message is processed twice and none after a later one. *)
TakenInOrder ==
  /\ \A i, j \in DOMAIN taken : i < j => taken[i][1] < taken[j][1]
  /\ \A i, j \in DOMAIN heTaken : i < j => heTaken[i] < heTaken[j]

(* A message is lost only if a later one of its kind replaces it: what has *)
(* just arrived while the flag is tested, copied or cleared is processed   *)
(* in the end, unless another one comes.                                   *)
NewestIsTaken ==
  /\ \A n \in 1 .. MaxCodes : newest = n ~> newest > n \/ LastTaken = n
  /\ \A n \in 1 .. MaxHeCodes :
       newestHe = n ~> newestHe # n \/ (heTaken # <<>> /\ heTaken[Len(heTaken)] = n)
=============================================================================
