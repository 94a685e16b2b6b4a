------------------------------ MODULE BudgetDB ------------------------------
(***************************************************************************)
(* The budget cache file budget.dat (CBudgetDB, DumpBudgets in             *)
(* masternode-budget.cpp) across crashes and restarts.                     *)
(*                                                                         *)
(* The in-memory CBudgetManager is abstracted to one of a few States.  The *)
(* file is missing, partial (cut short) or complete; a complete file       *)
(* records which state it holds and whether its checksum, magic message,   *)
(* network magic and payload format are right.  CBudgetDB::Write builds   *)
(* the whole stream in memory, then fopen(.., "wb") truncates the file in  *)
(* place and the stream is written; a crash can fall between the two.     *)
(* The environment may also damage the file (Faults): flip bits, put a     *)
(* file of another network there, or leave one of an older format.        *)
(***************************************************************************)
EXTENDS Naturals

CONSTANTS
    States,   \* values of the in-memory budget state
    Empty,    \* the cleared state (CBudgetManager::Clear), in States
    Faults,   \* subset of {"bitflip", "foreign", "format"}
    NoWrite   \* model value: no Write in progress

ASSUME Empty \in States /\ Faults \subseteq {"bitflip", "foreign", "format"}

VARIABLES
    mem,          \* the global budget object's state
    up,           \* the process is running
    file,         \* budget.dat on disk
    writing,      \* state being written by an unfinished Write, or NoWrite
    lastWritten   \* history: state of the last Write that completed

vars == <<mem, up, file, writing, lastWritten>>

Missing == [status |-> "missing"]
Partial == [status |-> "partial"]
Complete(s) == [status |-> "complete", payload |-> s, hashOk |-> TRUE,
                magicOk |-> TRUE, netOk |-> TRUE, formatOk |-> TRUE]

-----------------------------------------------------------------------------
(* Mutation: the checksum comparison is skipped. *)
HashUnchecked(f) == TRUE
-----------------------------------------------------------------------------

(* hashIn == Hash(data): the stored checksum matches the bytes before it. *)
HashMatches(f) == f.hashOk

(* The results CBudgetDB::Read can return for file f.  A partial file is   *)
(* either too short to hold the 32-byte checksum (the read throws) or its  *)
(* last 32 bytes are not the hash of the rest.                             *)
ReadResults(f) ==
    CASE f.status = "missing" -> {"FileError"}
      [] f.status = "partial" -> {"HashReadError", "IncorrectHash"}
      [] ~HashMatches(f)      -> {"IncorrectHash"}
      [] ~f.magicOk           -> {"IncorrectMagicMessage"}
      [] ~f.netOk             -> {"IncorrectMagicNumber"}
      [] ~f.formatOk          -> {"IncorrectFormat"}
      [] OTHER                -> {"Ok"}

(* DumpBudgets goes on to Write only after these results of its dry-run   *)
(* Read; on any other it logs "please fix it manually" and returns.        *)
DumpMayWrite(r) == r \in {"Ok", "FileError", "IncorrectFormat"}

Init ==
    /\ mem = Empty
    /\ up = TRUE
    /\ file = Missing
    /\ writing = NoWrite
    /\ lastWritten = Empty

(* Proposals and votes change the in-memory state. *)
Update(s) ==
    /\ up /\ s # mem
    /\ mem' = s
    /\ UNCHANGED <<up, file, writing, lastWritten>>

(* DumpBudgets: dry-run Read, then Write: serialise mem, then fopen "wb",  *)
(* which truncates budget.dat before anything is written.                  *)
DumpStart ==
    /\ up /\ writing = NoWrite
    /\ \E r \in ReadResults(file) : DumpMayWrite(r)
    /\ file' = Partial
    /\ writing' = mem
    /\ UNCHANGED <<mem, up, lastWritten>>

(* Write: fileout << ssObj, fclose. *)
DumpFinish ==
    /\ up /\ file = Partial /\ writing # NoWrite
    /\ file' = Complete(writing)
    /\ lastWritten' = writing
    /\ writing' = NoWrite
    /\ UNCHANGED <<mem, up>>

(* The process dies at any point; memory is lost. *)
Crash ==
    /\ up
    /\ up' = FALSE
    /\ mem' = Empty
    /\ writing' = NoWrite
    /\ UNCHANGED <<file, lastWritten>>

(* Startup loads budget.dat with Read(budget): the state is taken only on *)
(* Ok; IncorrectFormat clears the object; other failures leave it empty.   *)
Restart ==
    /\ ~up
    /\ up' = TRUE
    /\ \E r \in ReadResults(file) :
           mem' = IF r = "Ok" THEN file.payload ELSE Empty
    /\ UNCHANGED <<file, writing, lastWritten>>

(* The environment damages a complete file. *)
BitFlip ==
    /\ "bitflip" \in Faults /\ file.status = "complete" /\ file.hashOk
    /\ \E s \in States \ {file.payload} :
           file' = [file EXCEPT !.payload = s, !.hashOk = FALSE]
    /\ UNCHANGED <<mem, up, writing, lastWritten>>

ForeignFile ==
    /\ "foreign" \in Faults /\ writing = NoWrite
    /\ \E s \in States : file' = [Complete(s) EXCEPT !.netOk = FALSE]
    /\ UNCHANGED <<mem, up, writing, lastWritten>>

OldFormat ==
    /\ "format" \in Faults /\ file.status = "complete" /\ file.formatOk
    /\ file' = [file EXCEPT !.formatOk = FALSE]
    /\ UNCHANGED <<mem, up, writing, lastWritten>>

Next ==
    \/ \E s \in States : Update(s)
    \/ DumpStart
    \/ DumpFinish
    \/ Crash
    \/ Restart
    \/ BitFlip
    \/ ForeignFile
    \/ OldFormat

Spec == Init /\ [][Next]_vars

-----------------------------------------------------------------------------
(* Spec 6/7: a restart never brings back a state this node did not write  *)
(* last: after corruption, a foreign file or a bad format the node starts *)
(* empty, never from the damaged bytes.                                   *)
RestoredStateIsOwn ==
    [][Restart => mem' \in {lastWritten, Empty}]_vars

(* Spec 6: budget.dat is replaced atomically, so when no one else damages *)
(* it, a crash at any point leaves a file the next start can load (or no  *)
(* file at all).                                                          *)
FileLoadableAfterCrash ==
    ~up => ReadResults(file) \subseteq {"Ok", "FileError"}

=============================================================================
