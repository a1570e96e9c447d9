--------------------------- MODULE ZFFileManagerTool ---------------------------
(****************************************************************************)
(* The class methods of ZFFileManagerTool over a file system: a function    *)
(* from paths to contents, where NoFile marks a path that holds no file.    *)
(*                                                                          *)
(* NSFileManager is outside the repository.  Every error it returns is      *)
(* swallowed by the tool (error:nil, or a size of 0), so a method that can  *)
(* fail is the SET of its outcomes: the intended one alone when IOErrors is *)
(* FALSE, and also "nothing was done" when it is TRUE.                      *)
(****************************************************************************)
EXTENDS Naturals, Sequences

CONSTANTS
    NoFile,    \* what a path without a file maps to
    IOErrors   \* whether NSFileManager and NSOutputStream calls may fail

ASSUME IOErrorsAssumption == IOErrors \in BOOLEAN

----------------------------------------------------------------------------

isFileExists(fs, path) == fs[path] # NoFile

\* Mutant of fileTotalSize: the size of an existing file is not read.
fileTotalSizeUnread(fs, path) == {0}

\* The sizes fileTotalSize: may return: 0 for a missing file, and 0 again when
\* the attributes of an existing file cannot be read.
fileTotalSize(fs, path) ==
    IF isFileExists(fs, path)
    THEN {Len(fs[path])} \cup (IF IOErrors THEN {0} ELSE {})
    ELSE {0}

\* Mutant of moveFile: the file is not moved.
moveFileForgotten(fs, from, to) == {fs}

\* moveItemAtPath: refuses to replace an existing file; the refusal is ignored.
moveFile(fs, from, to) ==
    IF isFileExists(fs, from) /\ ~isFileExists(fs, to)
    THEN {[fs EXCEPT ![to] = fs[from], ![from] = NoFile]}
            \cup (IF IOErrors THEN {fs} ELSE {})
    ELSE {fs}

removeFileAtPath(fs, path) ==
    IF isFileExists(fs, path)
    THEN {[fs EXCEPT ![path] = NoFile]} \cup (IF IOErrors THEN {fs} ELSE {})
    ELSE {fs}

================================================================================
