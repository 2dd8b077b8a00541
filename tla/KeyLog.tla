------------------------------- MODULE KeyLog -------------------------------
(***************************************************************************)
(* The process-wide TLS key-log sink of transport/keylog.go: one global    *)
(* writer under globalKeyLogMu, set from SSLKEYLOGFILE at init, replaced   *)
(* by SetKeyLogFile or SetKeyLogWriter and released by CloseKeyLog. Every  *)
(* operation takes the mutex for its whole body, so each is one step.      *)
(*                                                                         *)
(* Writers are model values: file handles this package opens with          *)
(* os.OpenFile, and writers the application passes in, some of which are   *)
(* io.Closers (an *os.File it owns) and some not (a bytes.Buffer).         *)
(***************************************************************************)
EXTENDS Naturals, FiniteSets

CONSTANTS
    Handles,        \* file handles os.OpenFile may return to this package
    CallerClosers,  \* application writers that implement io.Closer
    CallerPlain,    \* application writers that do not
    Nil             \* no writer configured

ASSUME /\ Handles \cap (CallerClosers \cup CallerPlain) = {}
       /\ Nil \notin Handles \cup CallerClosers \cup CallerPlain

Writers == Handles \cup CallerClosers \cup CallerPlain
IsCloser(w) == w \in Handles \cup CallerClosers

VARIABLES
    globalKeyLogWriter,
    opened,     \* handles this package has opened
    closed      \* writers Close has been called on

vars == <<globalKeyLogWriter, opened, closed>>

TypeOK ==
    /\ globalKeyLogWriter \in Writers \cup {Nil}
    /\ opened \subseteq Handles /\ closed \subseteq Writers

\* Faulty variant: Close called without the io.Closer (and nil) check.
CloseCurrentUnchecked == closed \cup {globalKeyLogWriter}

\* The `if closer, ok := globalKeyLogWriter.(io.Closer); ok { Close() }`
\* that every setter starts with.
CloseCurrent ==
    IF IsCloser(globalKeyLogWriter) THEN closed \cup {globalKeyLogWriter}
                                    ELSE closed

\* os.OpenFile succeeds with a handle not opened before.
OpenFile(h) == h \in Handles \ opened /\ opened' = opened \cup {h}

-----------------------------------------------------------------------------
(* init / initKeyLogFromEnv: SSLKEYLOGFILE unset, unopenable (ignored), or *)
(* opened as the global writer.                                            *)
Init ==
    /\ closed = {}
    /\ \/ globalKeyLogWriter = Nil /\ opened = {}
       \/ \E h \in Handles : globalKeyLogWriter = h /\ opened = {h}

(* SetKeyLogFile(path): close the current writer, clear it; for a          *)
(* non-empty path open the file and install it (an open error leaves Nil). *)
SetKeyLogFile ==
    /\ closed' = CloseCurrent
    /\ \/ globalKeyLogWriter' = Nil /\ UNCHANGED opened
       \/ \E h \in Handles : OpenFile(h) /\ globalKeyLogWriter' = h

(* SetKeyLogWriter(w): close the current writer, install w (or nil).       *)
SetKeyLogWriter(w) ==
    /\ closed' = CloseCurrent
    /\ globalKeyLogWriter' = w
    /\ UNCHANGED opened

\* Faulty variant: CloseKeyLog clearing the writer without closing it.
CloseKeyLogKeepOpen ==
    /\ globalKeyLogWriter' = Nil
    /\ UNCHANGED <<opened, closed>>

(* CloseKeyLog: close the current writer if it is a Closer; clear it.      *)
CloseKeyLog ==
    /\ closed' = CloseCurrent
    /\ globalKeyLogWriter' = Nil
    /\ UNCHANGED opened

Next ==
    \/ SetKeyLogFile
    \/ \E w \in CallerClosers \cup CallerPlain \cup {Nil} : SetKeyLogWriter(w)
    \/ CloseKeyLog

Spec == Init /\ [][Next]_vars

-----------------------------------------------------------------------------
(* No file handle leaks: every file this package opened (from the          *)
(* environment or SetKeyLogFile) is either still the global writer or has  *)
(* been closed, whatever sequence of setters the application calls.        *)
NoLeakedHandle ==
    \A h \in opened : h = globalKeyLogWriter \/ h \in closed

(* SetKeyLogFile / SetKeyLogWriter / CloseKeyLog comments: only "a file we *)
(* opened" / "opened by this package" is closed; writers the application   *)
(* passed in stay the application's to close.                              *)
OnlyOwnClosed == closed \subseteq opened
=============================================================================
