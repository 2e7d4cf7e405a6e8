---------------------------- MODULE ModelLibrary ----------------------------
(***************************************************************************)
(* loadModelLibrary: the search for the plugin, its version and its table  *)
(* of functions.  The dynamic linker is outside the repository: what it    *)
(* finds in a file is chosen when it is asked.                             *)
(***************************************************************************)
EXTENDS Naturals

CONSTANTS
    NoLibrary,      \* the null handle
    Version         \* what version symbols hold

\* RVMAPI_CURRENT_INTERFACE_VERSION
CurrentVersion == 38

ASSUME VersionAssumption == Version \subseteq Nat

VARIABLES
    LibHandle,      \* the file that was opened
    failed,         \* files that could not be opened
    InterfaceVersion,   \* what the version symbol holds, None if not looked up
    table           \* the file whose table of functions is used

libraryVars == <<LibHandle, failed, InterfaceVersion, table>>

\* Beside the file the option names, the default MODEL_PATH and the file of
\* that name in the current directory are tried.
DefaultPath == {"MODEL_PATH", "./MODEL_PATH"}

\* dlsym with a null handle looks in the program and what it was linked with.
Program == "the program itself"

LibraryTypeOK(path) ==
    /\ LibHandle \in path \cup {NoLibrary}
    /\ failed \subseteq path
    /\ InterfaceVersion \in Version \cup {NoLibrary}
    /\ table \in path \cup {Program, NoLibrary}

LibraryInit ==
    /\ LibHandle = NoLibrary
    /\ failed = {}
    /\ InterfaceVersion = NoLibrary
    /\ table = NoLibrary

\* dlopen finds the file or not; the error is printed and a null returned.
loadLibrary(path) ==
    \/ LibHandle' = path /\ UNCHANGED failed
    \/ failed' = failed \cup {path} /\ UNCHANGED LibHandle

\* Mutation: the default is tried as well when the given file is missing.
NextPathOrDefault(LibraryPath) ==
    CASE LibraryPath # "-" /\ failed = {} -> LibraryPath
      [] "MODEL_PATH" \notin failed -> "MODEL_PATH"
      [] "./MODEL_PATH" \notin failed -> "./MODEL_PATH"
      [] OTHER -> NoLibrary

\* The file to try next; "-" is the default value of the option.
NextPath(LibraryPath) ==
    CASE LibraryPath # "-" /\ failed = {} -> LibraryPath
      [] LibraryPath = "-" /\ failed = {} -> "MODEL_PATH"
      [] LibraryPath = "-" /\ failed = {"MODEL_PATH"} -> "./MODEL_PATH"
      [] OTHER -> NoLibrary

findModelLibrary(LibraryPath) ==
    /\ LibHandle = NoLibrary
    /\ NextPath(LibraryPath) # NoLibrary
    /\ loadLibrary(NextPath(LibraryPath))
    /\ UNCHANGED <<InterfaceVersion, table>>

\* Whatever the search gave, a null handle included, is looked into.
Searched(LibraryPath) == LibHandle # NoLibrary \/ NextPath(LibraryPath) = NoLibrary

ReadVersion(LibraryPath) ==
    /\ Searched(LibraryPath) /\ InterfaceVersion = NoLibrary
    /\ InterfaceVersion' \in Version
    /\ UNCHANGED <<LibHandle, failed, table>>

\* The symbol is read as one byte.
Compatible == InterfaceVersion % 256 = CurrentVersion

GetVTable ==
    /\ InterfaceVersion # NoLibrary /\ Compatible
    /\ table' = IF LibHandle = NoLibrary THEN Program ELSE LibHandle
    /\ UNCHANGED <<LibHandle, failed, InterfaceVersion>>

\* Either symbol is missing, or the version is another one.
LibraryThrows(LibraryPath) ==
    /\ Searched(LibraryPath)
    /\ UNCHANGED libraryVars
=============================================================================
