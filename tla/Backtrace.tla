----------------------------- MODULE Backtrace -----------------------------
(***************************************************************************)
(* backtraceHandler::getStacktraceJSON (src/src/backtracehandler.cpp):    *)
(* createBacktraceSymbols walks the raw return addresses from the         *)
(* outermost kept frame down to skip_front with a size_t counter, then,   *)
(* when source data is attached, getContextLines reads a frame's file     *)
(* line by line to collect pre_context, context_line and post_context.    *)
(*                                                                         *)
(* Both loops are modelled step by step, with size_t arithmetic modulo    *)
(* 2^Width, and the result is compared at the end with the window the     *)
(* spec describes.  callstack[k] is the address at index k, so a frame is *)
(* its index; the file's line k has text k and the empty string is 0.    *)
(* What bfd finds for an address is an input (a resolution); the text    *)
(* translateAddressesBuf makes of it and FrameInfo's parse of that text   *)
(* are the FrameInfo module.  The context is read for the innermost frame,*)
(* at the line its parse gives; the file's shape is an input.             *)
(***************************************************************************)
EXTENDS Naturals, Sequences, SequencesExt

CONSTANTS
  Width,        \* bits of size_t (and of an address) in the model
  MaxFrames,    \* largest nFrames backtrace() returns in the model
  SkipPairs,    \* <<skip_front, skip_back>> pairs the callers pass
  Delta,        \* additionalLines in getStacktraceJSON (4)
  MaxLines,     \* longest source file in the model
  Paths,        \* source paths bfd may name, as character sequences
  Names,        \* (demangled) function names bfd may name
  Addrs         \* module-relative addresses

ASSUME Width \in Nat /\ MaxFrames \in Nat /\ Delta \in Nat /\ MaxLines \in Nat
(* Every unwrapped quantity fits in size_t, and a wrapped difference is   *)
(* larger than any loop index, as with a 64-bit size_t.                    *)
ASSUME MaxLines + 1 + 2 * Delta < 2^Width /\ 2 * MaxFrames < 2^Width

SizeT == 0..(2^Width - 1)
Sub(a, b) == (a - b) % 2^Width
Add(a, b) == (a + b) % 2^Width

Blank == 0   \* the empty std::string

FI == INSTANCE FrameInfo

(* What processFile can make of one address: bfd finds its file, line and *)
(* function ("found"; <<>> is a null file or name); the address lies in no*)
(* section ("notFound"); or processFile returns nullptr before looking,   *)
(* because bfd_openr, the format checks or kstSlurpSymtab fail (a        *)
(* stripped binary has no HAS_SYMS) -- "noSymbols".                        *)
Resolutions ==
  [kind : {"found"}, file : Paths, line : 0..(MaxLines + 1), name : Names,
   addr : Addrs]
  \cup [kind : {"notFound"}, addr : Addrs] \cup {[kind |-> "noSymbols"]}
NoRes == [kind |-> "none"]

VARIABLES
  nFrames, skipFront, skipBack,   \* createBacktraceSymbols' arguments
  i,            \* the frame loop's size_t counter
  frames,       \* output: the indices of the frames emitted, in order
  withSource,   \* m_withSourceData
  opened,       \* file.is_open() for the frame's abs_path
  lineCount,    \* lines in that file
  trailingNewline, \* whether its last line ends with '\n'
  lineNo,       \* the frame's line number
  ci,           \* getContextLines' size_t loop counter
  consumed,     \* lines getline has consumed
  eof,          \* file.eof()
  pre, ctx, post, \* preContext, contextLne, postContext
  res,          \* what resolution gave for the last frame emitted
  pc            \* "frames", "context", "done", or how the capture died

vars == <<nFrames, skipFront, skipBack, i, frames, withSource, opened,
          lineCount, trailingNewline, lineNo, ci, consumed, eof, pre, ctx,
          post, res, pc>>

TypeOK ==
  /\ nFrames \in 0..MaxFrames
  /\ <<skipFront, skipBack>> \in SkipPairs
  /\ i \in SizeT
  /\ frames \in Seq(0..(nFrames - 1))
  /\ withSource \in BOOLEAN /\ opened \in BOOLEAN
  /\ lineCount \in 0..MaxLines /\ trailingNewline \in BOOLEAN
  /\ lineNo \in 0..(MaxLines + 1)
  /\ ci \in SizeT /\ consumed \in 0..lineCount /\ eof \in BOOLEAN
  /\ pre \in Seq(0..MaxLines) /\ ctx \in 0..MaxLines /\ post \in Seq(0..MaxLines)
  /\ res \in Resolutions \cup {NoRes}
  /\ pc \in {"frames", "context", "done", "thrown", "crashed"}

(* numberOfFramesInOutput = nFrames - skip_back - skip_front, in size_t,   *)
(* and the loop starts at numberOfFramesInOutput + skip_front - 1.         *)
numberOfFramesInOutput(n, f, b) == Sub(Sub(n, b), f)
firstFrame(n, f, b) == Sub(Add(numberOfFramesInOutput(n, f, b), f), 1)

(* backtrace() returns at least as many frames as the callers skip: their *)
(* own frames and the handler's trampoline are always on the stack.  The  *)
(* source file is looked at only once the frames are known.               *)
Init ==
  /\ \E p \in SkipPairs : skipFront = p[1] /\ skipBack = p[2]
  /\ nFrames \in (skipFront + skipBack)..MaxFrames
  /\ i = firstFrame(nFrames, skipFront, skipBack)
  /\ frames = <<>>
  /\ withSource \in BOOLEAN
  /\ opened = FALSE /\ lineCount = 0 /\ trailingNewline = FALSE
  /\ lineNo = 0
  /\ ci = 1 /\ consumed = 0 /\ eof = FALSE
  /\ pre = <<>> /\ ctx = Blank /\ post = <<>>
  /\ res = NoRes
  /\ pc = "frames"

ContextVars == <<withSource, opened, lineCount, trailingNewline, lineNo, ci,
                 consumed, eof, pre, ctx, post>>

(* One address of the loop body: processFile, then strlen(location[0])   *)
(* and FrameInfo(location[0]).  A nullptr from processFile is read        *)
(* through (SIGSEGV); a parse whose stoul throws std::invalid_argument    *)
(* leaves createBacktraceSymbols; otherwise the frame is pushed and --i.   *)
resolveFrame(r) ==
  /\ IF r.kind = "noSymbols"
       THEN pc' = "crashed" /\ UNCHANGED <<frames, i, res>>
     ELSE IF ~FI!FrameInfo(FI!translateAddressesBuf(r)).ok
       THEN pc' = "thrown" /\ UNCHANGED <<frames, i, res>>
     ELSE /\ frames' = Append(frames, i)
          /\ i' = Sub(i, 1)
          /\ res' = r
          /\ UNCHANGED pc
  /\ UNCHANGED <<opened, lineCount, trailingNewline, lineNo>>

(* The loop has ended.  getStacktraceJSON reads context lines for every   *)
(* frame if m_withSourceData; the model reads them for the innermost one: *)
(* getContextLines(abs_path, lineno, 4) with lineno the frame's parsed    *)
(* line, from a file that may be missing, of any length up to MaxLines.   *)
endFrames ==
  IF withSource /\ frames # <<>>
    THEN /\ pc' = "context"
         /\ lineNo' = FI!FrameInfo(FI!translateAddressesBuf(res)).lineNumber
         /\ opened' \in BOOLEAN
         /\ lineCount' \in 0..MaxLines
         /\ trailingNewline' \in BOOLEAN
         /\ UNCHANGED <<frames, i, res>>
    ELSE /\ pc' = "done"
         /\ UNCHANGED <<frames, i, res, opened, lineCount, trailingNewline, lineNo>>

(* Mutation: the loop test i > skip_front, dropping the innermost frame. *)
createBacktraceSymbolsStrict ==
  /\ pc = "frames"
  /\ IF i > skipFront THEN \E r \in Resolutions : resolveFrame(r) ELSE endFrames
  /\ UNCHANGED <<nFrames, skipFront, skipBack, withSource, ci, consumed, eof,
                 pre, ctx, post>>

(* One iteration of createBacktraceSymbols' loop: while i >= skip_front,   *)
(* resolve addrList[i] and push the frame, then --i.  When it ends,        *)
(* getStacktraceJSON attaches context lines if m_withSourceData.           *)
createBacktraceSymbols ==
  /\ pc = "frames"
  /\ IF i >= skipFront THEN \E r \in Resolutions : resolveFrame(r) ELSE endFrames
  /\ UNCHANGED <<nFrames, skipFront, skipBack, withSource, ci, consumed, eof,
                 pre, ctx, post>>

-----------------------------------------------------------------------------
(* Mutation: a failed read at the end still counts as a consumed line.  *)
getlineCountsFailedRead ==
  IF consumed < lineCount
    THEN [text |-> consumed + 1,
          eof  |-> consumed + 1 = lineCount /\ ~trailingNewline,
          used |-> consumed + 1]
    ELSE [text |-> Blank, eof |-> TRUE, used |-> consumed + 1]

(* std::getline after `consumed` lines: the next line, with eofbit set if *)
(* it ran into the end of the file; at the end, an empty string and       *)
(* eofbit (the read fails, but the loop uses currentLine all the same).    *)
getline ==
  IF consumed < lineCount
    THEN [text |-> consumed + 1,
          eof  |-> consumed + 1 = lineCount /\ ~trailingNewline,
          used |-> consumed + 1]
    ELSE [text |-> Blank, eof |-> TRUE, used |-> consumed]

(* Mutation: the current line is filed under pre_context (i <= lineNo). *)
fileLinePreInclusive(text) ==
  IF ci >= Sub(lineNo, Delta) /\ ci <= lineNo
    THEN pre' = Append(pre, text) /\ UNCHANGED <<ctx, post>>
  ELSE IF ci = lineNo THEN ctx' = text /\ UNCHANGED <<pre, post>>
  ELSE IF ci > lineNo /\ ci <= Add(lineNo, Delta)
    THEN post' = Append(post, text) /\ UNCHANGED <<pre, ctx>>
  ELSE UNCHANGED <<pre, ctx, post>>

(* The if/else-if chain that files line i: pre_context from              *)
(* lineNo - deltaLines (size_t) up to lineNo, then the context line, then  *)
(* post_context up to lineNo + deltaLines.                                 *)
fileLine(text) ==
  IF ci >= Sub(lineNo, Delta) /\ ci < lineNo
    THEN pre' = Append(pre, text) /\ UNCHANGED <<ctx, post>>
  ELSE IF ci = lineNo THEN ctx' = text /\ UNCHANGED <<pre, post>>
  ELSE IF ci > lineNo /\ ci <= Add(lineNo, Delta)
    THEN post' = Append(post, text) /\ UNCHANGED <<pre, ctx>>
  ELSE UNCHANGED <<pre, ctx, post>>

(* One iteration of getContextLines' loop, for i = 1 .. lineNo+deltaLines:*)
(* break on file.eof(), else getline and file the line by its position.   *)
(* An unopened file gives the empty result.                                *)
getContextLines ==
  /\ pc = "context"
  /\ IF ~opened \/ ~(ci <= Add(lineNo, Delta)) \/ eof
       THEN /\ pc' = "done"
            /\ UNCHANGED <<ci, consumed, eof, pre, ctx, post>>
       ELSE LET r == getline IN
            /\ consumed' = r.used
            /\ eof' = r.eof
            /\ ci' = Add(ci, 1)
            /\ fileLine(r.text)
            /\ UNCHANGED pc
  /\ UNCHANGED <<nFrames, skipFront, skipBack, i, frames, withSource, opened,
                 lineCount, trailingNewline, lineNo, res>>

(* The capture has returned, or the process dies with it.                *)
Done == pc \in {"done", "thrown", "crashed"} /\ UNCHANGED vars

Next == createBacktraceSymbols \/ getContextLines \/ Done

Spec == Init /\ [][Next]_vars /\ WF_vars(createBacktraceSymbols \/ getContextLines)

-----------------------------------------------------------------------------
(* The reference: what the spec (section 4.1) says the capture returns.    *)

(* The frames left after dropping skip_front innermost and skip_back      *)
(* outermost addresses, outermost first (createBacktraceSymbols' order).  *)
RefFrames == Reverse(SetToSortSeq(skipFront..(nFrames - skipBack - 1), <))

(* Lines [lineNo - delta, lineNo + delta] of the file, split around        *)
(* lineNo; a line the file does not have is omitted.                       *)
FileLines(from, to) ==
  IF opened THEN SetToSortSeq({k \in 1..lineCount : from <= k /\ k <= to}, <)
  ELSE <<>>
RefPre == FileLines(lineNo - Delta, lineNo - 1)
RefCtx == IF opened /\ lineNo <= lineCount THEN lineNo ELSE Blank
RefPost == FileLines(lineNo + 1, lineNo + Delta)

(* createBacktraceSymbols' size_t countdown emits exactly the kept frames,*)
(* outermost first, never reading an index outside the captured range.    *)
FramesMatchReference == pc \in {"context", "done"} => frames = RefFrames

(* getContextLines puts the frame's own line in context_line, or "" when  *)
(* the file is missing or shorter, whatever eofbit does at the end.        *)
ContextLineExact == (pc = "done" /\ withSource) => ctx = RefCtx

(* "read lines [line_number - delta, line_number + delta], splitting into *)
(* pre/current/post; missing file or line => that attachment is omitted": *)
(* pre_context and post_context are exactly those lines.                  *)
ContextWindow ==
  (pc = "done" /\ withSource) => (pre = RefPre /\ post = RefPost)

-----------------------------------------------------------------------------
(* The frame a resolution stands for (spec section 2): the path, the part *)
(* after its last '/', the line, the function and the address in hex,    *)
(* with "??" for what bfd did not name.                                   *)
Basename(p) ==
  LET k == CHOOSE k \in 0..Len(p) :
             /\ (k = 0 \/ p[k] = "/")
             /\ \A j \in (k + 1)..Len(p) : p[j] # "/"
  IN  SubSeq(p, k + 1, Len(p))
OrUnknown(s) == IF s = <<>> THEN FI!Unknown ELSE s
ExpectedFrame(r) ==
  [ok |-> TRUE, absFilePath |-> OrUnknown(r.file),
   fileName |-> Basename(OrUnknown(r.file)), lineNumber |-> r.line,
   functionName |-> OrUnknown(r.name), address |-> FI!Digits(r.addr, 16)]

(* FrameInfo's find/rfind/substr arithmetic, with npos + 1 wrapping to 0 *)
(* and the wrapped counts clipped by substr, recovers from                *)
(* translateAddressesBuf's "%s:%u %s %lu" exactly the frame bfd found,   *)
(* for every emitted frame, including "??" files and function names with *)
(* spaces (paths without ' ' or ':', as in Paths).                        *)
FrameInfoRoundTrip ==
  res.kind = "found" =>
    FI!FrameInfo(FI!translateAddressesBuf(res)) = ExpectedFrame(res)

(* Spec section 4.1: "any resolution failure for an individual address   *)
(* degrades that frame to an address-only placeholder; it never aborts   *)
(* the whole capture", and section 7: the SDK must never crash the host. *)
(* createBacktraceSymbols neither throws from FrameInfo's stoul nor reads *)
(* through processFile's nullptr.                                         *)
CaptureCompletes == pc \notin {"thrown", "crashed"}

=============================================================================
