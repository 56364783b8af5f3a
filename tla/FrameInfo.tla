----------------------------- MODULE FrameInfo -----------------------------
(***************************************************************************)
(* The text that links symbol resolution to the stack frame JSON.         *)
(* translateAddressesBuf (src/src/backtracehandler.cpp) prints what bfd    *)
(* found for an address as one line, and the FrameInfo constructor        *)
(* (src/src/backtracehandler.h) splits that line again with std::string's *)
(* find, rfind and substr and converts two fields with std::stoul.         *)
(*                                                                         *)
(* A string is a sequence of one-character strings.  Positions and counts *)
(* are size_t modulo 2^Width, and npos is 2^Width - 1, so npos + 1 wraps   *)
(* to 0 and a negative count wraps to a huge one, as in the code.  A parse *)
(* that throws std::invalid_argument is the record [ok |-> FALSE].         *)
(***************************************************************************)
EXTENDS Naturals, Sequences, SequencesExt

CONSTANT Width   \* bits of size_t in the model

Npos == 2^Width - 1              \* std::string::npos
SizeAdd(a, b) == (a + b) % 2^Width
SizeSub(a, b) == (a - b) % 2^Width

HexDigits == <<"0", "1", "2", "3", "4", "5", "6", "7", "8", "9",
               "a", "b", "c", "d", "e", "f">>

(* The value of digit c, and whether c is a digit in base b.               *)
DigitValue(c) == CHOOSE k \in 0..15 : HexDigits[k + 1] = c
IsDigitIn(c, b) == \E k \in 0..(b - 1) : HexDigits[k + 1] = c

(* printf's %u / %lu (base 10) and %lx (base 16) of a natural number.     *)
RECURSIVE Digits(_, _)
Digits(n, b) ==
  IF n < b THEN <<HexDigits[n + 1]>>
  ELSE Digits(n \div b, b) \o <<HexDigits[(n % b) + 1]>>

Unknown == <<"?", "?">>

(* One line of translateAddressesBuf for a resolution r.  An address bfd  *)
(* finds in no section prints "[0x%lx] ?? ??:0".  Otherwise "%s:%u %s %lu" *)
(* of the file (or "??" when bfd gives none), the line, the function name  *)
(* (or "??" when it is null or empty; a mangled name is replaced by its    *)
(* demangling, which r.name already is) and the address in decimal.       *)
translateAddressesBuf(r) ==
  IF r.kind = "notFound"
    THEN <<"[", "0", "x">> \o Digits(r.addr, 16)
           \o <<"]", " ">> \o Unknown \o <<" ">> \o Unknown \o <<":", "0">>
    ELSE (IF r.file = <<>> THEN Unknown ELSE r.file) \o <<":">>
           \o Digits(r.line, 10) \o <<" ">>
           \o (IF r.name = <<>> THEN Unknown ELSE r.name) \o <<" ">>
           \o Digits(r.addr, 10)

(* std::string::find and rfind of one character: a 0-based position, or   *)
(* npos.                                                                   *)
find(s, c) ==
  LET k == SelectInSeq(s, LAMBDA x : x = c) IN IF k = 0 THEN Npos ELSE k - 1
rfind(s, c) ==
  LET k == SelectLastInSeq(s, LAMBDA x : x = c) IN IF k = 0 THEN Npos ELSE k - 1

(* std::string::substr(pos, n): at most n characters from pos.  It throws  *)
(* std::out_of_range when pos > size(); no call in FrameInfo can, because  *)
(* every pos is a found position + 1 or npos + 1 = 0.                      *)
substr(s, pos, n) ==
  SubSeq(s, pos + 1, pos + (IF n < Len(s) - pos THEN n ELSE Len(s) - pos))

(* std::stoul(s, nullptr, 0): skip leading white space; "0x" followed by a *)
(* hex digit selects base 16, another leading "0" base 8, else base 10;    *)
(* take the longest run of digits of that base.  No digit at all throws    *)
(* std::invalid_argument.  (The model's alphabet has no sign characters,   *)
(* and its values are far below ULONG_MAX.)                                *)
stoul(s) ==
  LET w    == SelectInSeq(s, LAMBDA c : c # " ")
      t    == IF w = 0 THEN <<>> ELSE SubSeq(s, w, Len(s))
      hex  == Len(t) >= 3 /\ t[1] = "0" /\ t[2] = "x" /\ IsDigitIn(t[3], 16)
      base == IF hex THEN 16 ELSE IF t # <<>> /\ t[1] = "0" THEN 8 ELSE 10
      body == IF hex THEN SubSeq(t, 3, Len(t)) ELSE t
      e    == SelectInSeq(body, LAMBDA c : ~IsDigitIn(c, base))
      run  == IF e = 0 THEN body ELSE SubSeq(body, 1, e - 1)
  IN  IF run = <<>> THEN [ok |-> FALSE]
      ELSE [ok |-> TRUE,
            val |-> FoldLeft(LAMBDA acc, c : acc * base + DigitValue(c), 0, run)]

(* Mutation: the file name keeps the last '/' (substr from fileNameStart). *)
FrameInfoSlashInName(line) ==
  LET filePathEnd   == find(line, ":")
      absFilePath   == substr(line, 0, filePathEnd)
      fileNameStart == rfind(absFilePath, "/")
      fileName      == substr(absFilePath, fileNameStart, Npos)
      linenumberEnd == find(line, " ")
      lnPos         == SizeAdd(filePathEnd, 1)
      lineNumber    == stoul(substr(line, lnPos, SizeSub(linenumberEnd, lnPos)))
      nameEnd       == rfind(line, " ")
      fnPos         == SizeAdd(linenumberEnd, 1)
      functionName  == substr(line, fnPos, SizeSub(nameEnd, fnPos))
      address       == stoul(substr(line, SizeAdd(nameEnd, 1), Npos))
  IN  IF ~lineNumber.ok \/ ~address.ok THEN [ok |-> FALSE]
      ELSE [ok |-> TRUE, absFilePath |-> absFilePath, fileName |-> fileName,
            lineNumber |-> lineNumber.val, functionName |-> functionName,
            address |-> Digits(address.val, 16)]

(* The FrameInfo constructor: the path up to the first ':', the file name  *)
(* after the path's last '/', the line number between ':' and the first   *)
(* ' ', the function name between the first and the last ' ', and the     *)
(* address after the last ' ', re-printed in hex.  The two stoul calls    *)
(* run in that order; either one throwing ends the constructor.           *)
FrameInfo(line) ==
  LET filePathEnd   == find(line, ":")
      absFilePath   == substr(line, 0, filePathEnd)
      fileNameStart == rfind(absFilePath, "/")
      fileName      == substr(absFilePath, SizeAdd(fileNameStart, 1), Npos)
      linenumberEnd == find(line, " ")
      lnPos         == SizeAdd(filePathEnd, 1)
      lineNumber    == stoul(substr(line, lnPos, SizeSub(linenumberEnd, lnPos)))
      nameEnd       == rfind(line, " ")
      fnPos         == SizeAdd(linenumberEnd, 1)
      functionName  == substr(line, fnPos, SizeSub(nameEnd, fnPos))
      address       == stoul(substr(line, SizeAdd(nameEnd, 1), Npos))
  IN  IF ~lineNumber.ok \/ ~address.ok THEN [ok |-> FALSE]
      ELSE [ok |-> TRUE, absFilePath |-> absFilePath, fileName |-> fileName,
            lineNumber |-> lineNumber.val, functionName |-> functionName,
            address |-> Digits(address.val, 16)]

=============================================================================
