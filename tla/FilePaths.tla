------------------------------ MODULE FilePaths ------------------------------
(***************************************************************************)
(* Path names on Windows, the file of the report and captured streams      *)
(* (gtest-filepath.cc, gtest.cc and gtest-port.cc).  A path is a tuple of  *)
(* characters, and of words that are never taken apart.  A file system     *)
(* holds its directories and its files by their location, the tuple of the *)
(* names from the drive on, and the directory that the program was started *)
(* in.                                                                     *)
(***************************************************************************)
EXTENDS Integers, Sequences, SequencesExt, FiniteSetsExt, TLC

kPathSeparator == "\\"
kCurrentDirectoryString == <<".", kPathSeparator>>

IsPathSeparator(c) == c \in {kPathSeparator, "/"}

(* Every FilePath made of a text is normalised. *)
Normalize(p) ==
  FoldLeft(LAMBDA dest, c :
             IF ~IsPathSeparator(c) THEN Append(dest, c)
             ELSE IF dest # << >> /\ Last(dest) = kPathSeparator THEN dest
             ELSE Append(dest, kPathSeparator),
           << >>, p)

FindLastPathSeparator(p) == Max({0} \cup {i \in DOMAIN p : IsPathSeparator(p[i])})
RemoveDirectoryName(p) == SubSeq(p, FindLastPathSeparator(p) + 1, Len(p))

RemoveFileName(p) ==
  IF FindLastPathSeparator(p) = 0 THEN kCurrentDirectoryString
  ELSE SubSeq(p, 1, FindLastPathSeparator(p))

IsDirectory(p) == p # << >> /\ IsPathSeparator(Last(p))
RemoveTrailingPathSeparator(p) == IF IsDirectory(p) THEN Front(p) ELSE p

Drives == {"c", "d"}
IsAbsolutePath(p) ==
  Len(p) >= 3 /\ p[1] \in Drives /\ p[2] = ":" /\ IsPathSeparator(p[3])
IsRootDirectory(p) == Len(p) = 3 /\ IsAbsolutePath(p)

(* RemoveExtension, of a word that stands for the extension. *)
RemoveExtension(p, extension) ==
  IF p # << >> /\ Last(p) \in extension THEN Front(p) ELSE p

ConcatPaths(directory, relative_path) ==
  IF directory = << >> THEN relative_path
  ELSE Normalize(RemoveTrailingPathSeparator(directory)
                   \o <<kPathSeparator>> \o relative_path)

MakeFileName(directory, base_name, number, extension) ==
  ConcatPaths(directory,
    base_name \o (IF number = 0 THEN << >> ELSE <<"_", ToString(number)>>)
      \o <<".", extension>>)

-----------------------------------------------------------------------------
(* The file system: _stat, _mkdir and fopen for writing.                   *)
Names(p) ==
  LET names == FoldLeft(LAMBDA cut, c : IF IsPathSeparator(c) THEN Append(cut, << >>)
                                        ELSE [cut EXCEPT ![Len(cut)] = Append(@, c)],
                        <<<< >>>>, p)
  IN  SelectSeq(names, LAMBDA name : name \notin {<< >>, <<".">>})

Location(fs, p) == IF IsAbsolutePath(p) THEN Names(p) ELSE fs.cwd \o Names(p)

Stat(fs, p) ==
  CASE p = << >> -> "none"
    [] p # << >> /\ Location(fs, p) \in fs.dirs -> "dir"
    [] p # << >> /\ Location(fs, p) \in fs.files -> "file"
    [] OTHER -> "none"

CanMake(fs, p) == Front(Location(fs, p)) \in fs.dirs /\ Stat(fs, p) = "none"

MakeDir(fs, p) ==
  IF CanMake(fs, p) THEN [fs EXCEPT !.dirs = @ \cup {Location(fs, p)}] ELSE fs

-----------------------------------------------------------------------------
FileOrDirectoryExists(fs, p) == Stat(fs, p) # "none"

DirectoryExists(fs, p) ==
  Stat(fs, IF IsRootDirectory(p) THEN p ELSE RemoveTrailingPathSeparator(p)) = "dir"

(* A failed _mkdir is no failure if the directory is there. *)
CreateFolder(fs, p) ==
  LET made == MakeDir(fs, p)
  IN  [ok |-> CanMake(fs, p) \/ DirectoryExists(made, p), fs |-> made]

RECURSIVE CreateDirectoriesRecursively(_, _)
CreateDirectoriesRecursively(fs, p) ==
  IF ~IsDirectory(p) THEN [ok |-> FALSE, fs |-> fs]
  ELSE IF DirectoryExists(fs, p) THEN [ok |-> TRUE, fs |-> fs]
  ELSE LET parent == RemoveFileName(RemoveTrailingPathSeparator(p))
           above == CreateDirectoriesRecursively(fs, parent)
       IN  IF above.ok THEN CreateFolder(above.fs, p) ELSE above

(* The first name that is not there yet. *)
GenerateUniqueFileName(fs, directory, base_name, extension) ==
  LET name(number) == MakeFileName(directory, base_name, number, extension)
  IN  name(Min({n \in 0 .. Cardinality(fs.files) :
                  ~FileOrDirectoryExists(fs, name(n))}))

-----------------------------------------------------------------------------
(* The flag: its format and, unless there is no colon, what follows it.    *)
NoColon == <<"no colon">>
kDefaultOutputFile == <<"test_detail">>
kDefaultOutputFormat == "xml"

GetCurrentExecutableName(argv0) ==
  RemoveDirectoryName(RemoveExtension(Normalize(argv0), {".exe", ".EXE"}))

GetAbsolutePathToOutputFile(fs, working_dir, argv0, format, value) ==
  LET given == Normalize(value)
      output_name == IF IsAbsolutePath(given) THEN given ELSE ConcatPaths(working_dir, given)
  IN  IF value = NoColon
        THEN MakeFileName(working_dir, kDefaultOutputFile, 0,
                          IF format = "" THEN kDefaultOutputFormat ELSE format)
      ELSE IF ~IsDirectory(output_name) THEN output_name
      ELSE GenerateUniqueFileName(fs, output_name, GetCurrentExecutableName(argv0), format)

(* FATAL ends the program. *)
OpenFileForWriting(fs, output_file) ==
  LET directory == CreateDirectoriesRecursively(fs, RemoveFileName(Normalize(output_file)))
      opens == /\ directory.ok
               /\ Front(Location(directory.fs, output_file)) \in directory.fs.dirs
               /\ Stat(directory.fs, output_file) # "dir"
  IN  [opened |-> opens,
       fs |-> IF opens THEN [directory.fs EXCEPT !.files = @ \cup {Location(fs, output_file)}]
              ELSE directory.fs]

ReportFile(fs, working_dir, argv0, format, value) ==
  LET name == GetAbsolutePathToOutputFile(fs, working_dir, argv0, format, value)
  IN  [location |-> Location(fs, name)] @@ OpenFileForWriting(fs, name)

-----------------------------------------------------------------------------
(* Where a flag asks for the report: a file at a place, or a new file in a *)
(* directory.                                                              *)
AskedPlace(fs, value) ==
  IF value = NoColon THEN fs.cwd
  ELSE IF IsAbsolutePath(value) THEN Names(value) ELSE fs.cwd \o Names(value)

AsksForDirectory(value) ==
  value # NoColon /\ (value = << >> \/ IsPathSeparator(Last(value)))

Above(location) == {SubSeq(location, 1, n) : n \in 1 .. Len(location) - 1}
-----------------------------------------------------------------------------
(* Capturing an output stream (gtest-port.cc): the descriptor is led to a  *)
(* temporary file until what is in it is asked for.  A text that is written*)
(* stays in the buffer of its stream until that is flushed; texts[1] is the*)
(* console, the others are the temporary files.                            *)
Streams == {"stdout", "stderr"}
ConsoleText == 1
NoFile == 0

NewStreams ==
  [fd |-> [s \in Streams |-> ConsoleText], buffer |-> [s \in Streams |-> << >>],
   texts |-> << << >> >>, captured |-> [s \in Streams |-> NoFile],
   uncaptured_fd |-> [s \in Streams |-> ConsoleText], removed |-> {}, got |-> << >>,
   aborted |-> FALSE]

WriteText(w, s, text) == [w EXCEPT !.buffer[s] = Append(@, text)]

FlushStream(w, s) ==
  [w EXCEPT !.texts[w.fd[s]] = @ \o [i \in DOMAIN w.buffer[s] |-> <<s, w.buffer[s][i]>>],
            !.buffer[s] = << >>]

FlushStreams(w) == FlushStream(FlushStream(w, "stdout"), "stderr")

(* CaptureStdout, CaptureStderr: there can be one capturer of each.        *)
CaptureStream(w, s) ==
  LET file == Len(w.texts) + 1
  IN  IF w.captured[s] # NoFile THEN [w EXCEPT !.aborted = TRUE]
      ELSE [FlushStreams(w) EXCEPT
              !.texts = Append(@, << >>), !.captured[s] = file,
              !.uncaptured_fd[s] = w.fd[s], !.fd[s] = file]

(* GetCapturedStdout, GetCapturedStderr; the file is removed.              *)
GetCapturedStream(w, s) ==
  LET flushed == FlushStreams(w)
      file == w.captured[s]
  IN  [flushed EXCEPT !.fd[s] = w.uncaptured_fd[s], !.captured[s] = NoFile,
                      !.removed = @ \cup {file}, !.got = Append(@, flushed.texts[file])]

StreamStep(w, step) ==
  IF w.aborted THEN w
  ELSE CASE step[1] = "write" -> WriteText(w, step[2], step[3])
         [] step[1] = "flush" -> FlushStream(w, step[2])
         [] step[1] = "capture" -> CaptureStream(w, step[2])
         [] step[1] = "get" -> GetCapturedStream(w, step[2])

(* The program flushes at its end. *)
StreamsAfter(steps) == FlushStreams(FoldLeft(StreamStep, NewStreams, steps))
=============================================================================
