------------------------------ MODULE Workspace ------------------------------
(***************************************************************************)
(* The files the agent edits, with PatchEngine and FileSystemTool.  An     *)
(* edit reads the file, computes what it is to be and opens the file for   *)
(* writing, which empties it; nothing locks the file in between, nor while *)
(* it is empty.  Tools called by runs of one process take turns on its     *)
(* event loop; the auto-fix endpoint runs in a thread, and workers are     *)
(* other processes.                                                        *)
(***************************************************************************)
EXTENDS Integers, SequencesExt

CONSTANTS
    Clients,      \* threads and processes that may edit at the same time
    Blocks,       \* pieces of text: a line, a function, a class
    Edits,        \* the edits that clients ask for
    Start,        \* the file at first; a missing file reads as an empty one
    MaxFileSize   \* the setting, in blocks

ASSUME StartAssumption == Start \in Seq(Blocks) /\ MaxFileSize \in Nat
ASSUME EditsAssumption ==
    Edits \subseteq [op : {"append", "fs.append", "fs.write"}, text : Seq(Blocks)]
               \cup [op : {"insert"}, anchor : Blocks, text : Seq(Blocks), before : BOOLEAN]
               \cup [op : {"replace_block", "replace_function", "fs.replace"},
                     target : Blocks, text : Seq(Blocks)]

VARIABLES
    file,         \* what a reader of the file gets
    edit          \* the edit each client is in the middle of

Patches == {e \in Edits : e.op \in {"append", "insert", "replace_block", "replace_function"}}

NoEdit == [pc |-> "none", after |-> <<>>]

Positions(s, b) == {i \in DOMAIN s : s[i] = b}

(* Where b is if it is there once; where it is first.                      *)
Once(s, b) == {i \in DOMAIN s : Positions(s, b) = {i}}

First(s, b) == {i \in Positions(s, b) : \A j \in Positions(s, b) : i <= j}

(* What the edit makes of content s: nothing when it is refused, as a      *)
(* patch is whose target is missing, ambiguous or its own replacement.  An *)
(* insert of nothing is none of these.                                     *)
Made(e, s) ==
    CASE e.op = "append" -> IF e.text # <<>> THEN {s \o e.text} ELSE {}
      [] e.op = "fs.append" -> {s \o e.text}
      [] e.op = "fs.write" -> {e.text}
      [] e.op = "insert" ->
            {ReplaceSubSeqAt(i + IF e.before THEN 0 ELSE 1, e.text, <<>>, s) : i \in Once(s, e.anchor)}
      [] e.op = "fs.replace" ->
            {ReplaceSubSeqAt(i, e.text, <<e.target>>, s) : i \in First(s, e.target)}
      [] OTHER ->
            IF e.text \in {<<>>, <<e.target>>} THEN {}
            ELSE {ReplaceSubSeqAt(i, e.text, <<e.target>>, s) : i \in Once(s, e.target)}

(* No larger file is read or written; one that is stands for a binary file *)
(* as well.                                                                *)
Fits(s) == Len(s) <= MaxFileSize

(* A patch is computed whatever its size; a file tool looks at both.       *)
Edited(e, s) == {after \in Made(e, s) : Fits(s) /\ (e \in Patches \/ Fits(after))}

(* A unified diff: empty when nothing changes.                             *)
Diff(before, after) == IF before = after THEN <<>> ELSE <<before, after>>

(* A dry run, and an edit that changes nothing, end without writing.       *)
(* Slip: the patch is only previewed.                                      *)
WritesNever(before, after, dry) == FALSE

Writes(before, after, dry) == ~dry /\ before # after

(* PatchEngine hands what it has computed to FileSystemTool.write; the     *)
(* file tools have checked it themselves.                                  *)
Planned(e, after, dry) ==
    IF Writes(file, after, dry)
    THEN [pc |-> IF e \in Patches THEN "computed" ELSE "checked", after |-> after]
    ELSE NoEdit

FileInit ==
    /\ file = Start
    /\ edit = [c \in Clients |-> NoEdit]

Refused(c) == ~Fits(file) \/ ~Fits(edit[c].after)

(* FileSystemTool.write reads the file once more, to see whether it is     *)
(* going to change: the edit is refused, over or goes on.                  *)
Check(c) ==
    /\ edit[c].pc = "computed"
    /\ edit' = [edit EXCEPT ![c] = IF Refused(c) \/ file = edit[c].after THEN NoEdit
                                   ELSE [edit[c] EXCEPT !.pc = "checked"]]
    /\ UNCHANGED file

(* open(path, "w"): from here on the file is empty ...                     *)
Open(c) ==
    /\ edit[c].pc = "checked"
    /\ edit' = [edit EXCEPT ![c].pc = "opened"]
    /\ file' = <<>>

(* ... until the text is written, from the beginning of the file and over  *)
(* what another client has written since, and the file closed.             *)
Write(c) ==
    /\ edit[c].pc = "opened"
    /\ edit' = [edit EXCEPT ![c] = NoEdit]
    /\ LET after == edit[c].after
       IN file' = after \o SubSeq(file, Len(after) + 1, Len(file))
=============================================================================
