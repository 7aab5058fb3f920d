------------------------------- MODULE Lexer -------------------------------
(* The lexer of src/lexer.rs: layout, brackets, continuations and errors.   *)
(* A character is a model value: a blank, a line end, a bracket, or one     *)
(* whole lexeme (a word, a number, a literal, an operator), whose spelling  *)
(* the longest match of the source decides and the parser never sees.       *)
(* An action is one turn of the loop of `next`: it drains a pending token,  *)
(* or looks at the next characters.                                         *)
EXTENDS Integers, Sequences, SequencesExt, FiniteSetsExt

VARIABLES
    source,                  \* the text: a sequence of characters
    pos,                     \* the next character
    at_line_start, indent_stack, paren_count,
    pending_tokens, eof_emitted, last_token_was_string,
    panicked,                \* `next` has unwrapped a character there is not
    items                    \* what `next` has returned so far

lexer == <<pos, at_line_start, indent_stack, paren_count, pending_tokens,
           eof_emitted, last_token_was_string, panicked, items>>

Openers == {"(", "[", "{"}
Closers == {")", "]", "}"}
Strings == {"str", "doc", "tstr", "tbad"}   \* "a", """a""", t"a{b}" and t"a{b c}"
Blanks == {"sp", "tab", "cr"}
Unexpected == {"$", "!"}            \* starts no token
Broken == {"1e", "quote"}           \* begins a literal it does not finish
Layout == {"Newline", "Indent", "Dedent", "Eof"}

\* An item of the token stream: its token and the half-open range it spans.
Item(t, from, to) == [tok |-> t, from |-> from, to |-> to]
Error == "lexical error"

-----------------------------------------------------------------------------
LexerInit ==
    /\ pos = 1
    /\ at_line_start = TRUE
    /\ indent_stack = <<0>>
    /\ paren_count = 0
    /\ pending_tokens = <<>>
    /\ eof_emitted = FALSE
    /\ last_token_was_string = FALSE
    /\ panicked = FALSE
    /\ items = <<>>

\* The end of the line that holds position p: its line feed, or past the end.
skip_to_line_end(p) ==
    Min({q \in p .. Len(source) : source[q] = "nl"} \cup {Len(source) + 1})

\* The first position from p on that is not a space.
AfterSpaces(p) ==
    Min({q \in p .. Len(source) : source[q] # "sp"} \cup {Len(source) + 1})

Holds(p, chars) == p <= Len(source) /\ source[p] \in chars

\* Where the line ends that ends right there, by a line feed alone or after a
\* carriage return.
LineEnd(p) ==
    IF Holds(p, {"nl"}) THEN {p + 1}
    ELSE IF Holds(p, {"cr"}) /\ Holds(p + 1, {"nl"}) THEN {p + 2} ELSE {}

\* The error of a fresh call of `next`, returned past the queue of tokens. A
\* call that finds the same error at the same place is not recorded again.
Fail(at) ==
    /\ items' = Append(items, Item(Error, pos, at))
    /\ UNCHANGED <<pending_tokens, eof_emitted, last_token_was_string, panicked>>

emit(tokens, to) ==
    /\ pending_tokens' = [i \in DOMAIN tokens |-> Item(tokens[i], pos, to)]
    /\ last_token_was_string' = (Last(tokens) \in Strings)

Advance(to) ==
    /\ pos' = to
    /\ UNCHANGED <<items, eof_emitted, panicked>>

\* The same error is returned forever: no character is consumed before it.
Stuck ==
    /\ items # <<>>
    /\ Last(items).tok = Error
    /\ Last(items).to = pos
    /\ Holds(pos, Unexpected) \/ (Holds(pos, {"\\"}) /\ LineEnd(pos + 1) = {})

Scanning ==
    /\ ~panicked /\ ~eof_emitted /\ ~Stuck
    /\ pending_tokens = <<>>

Drain ==
    /\ pending_tokens # <<>>
    /\ items' = Append(items, Head(pending_tokens))
    /\ pending_tokens' = Tail(pending_tokens)
    /\ UNCHANGED <<pos, at_line_start, indent_stack, paren_count, eof_emitted,
                   last_token_was_string, panicked>>

EndOfInput ==
    /\ Scanning
    /\ pos > Len(source)
    /\ emit((IF at_line_start THEN <<>> ELSE <<"Newline">>)
            \o [i \in 1 .. Len(indent_stack) - 1 |-> "Dedent"] \o <<"Eof">>, pos)
    /\ indent_stack' = <<0>>
    /\ eof_emitted' = TRUE
    /\ UNCHANGED <<pos, at_line_start, paren_count, panicked, items>>

-----------------------------------------------------------------------------
(* The start of a logical line.                                             *)

(* Mutant: a line that only comments is no blank line.                      *)
IsBlankLineButComments(p) == Holds(AfterSpaces(p), {"nl", "cr"})

\* Blank: empty, or a comment only. A line of spaces that the end of the text
\* cuts off is not blank.
IsBlankLine(p) == Holds(AfterSpaces(p), {"nl", "cr", "#"})

SkipBlankLine ==
    /\ Scanning
    /\ pos <= Len(source)
    /\ at_line_start
    /\ IsBlankLine(pos)
    /\ Advance(Min({skip_to_line_end(pos) + 1, Len(source) + 1}))
    /\ UNCHANGED <<at_line_start, indent_stack, paren_count, pending_tokens,
                   last_token_was_string>>

\* A line of code whose indentation, outside brackets, is not that of the block.
Shifts(p) ==
    /\ at_line_start
    /\ paren_count = 0
    /\ AfterSpaces(p) - p # Last(indent_stack)

Offside ==
    LET spaces == AfterSpaces(pos) - pos
        kept == SelectSeq(indent_stack, LAMBDA level : level <= spaces)
        popped == [i \in 1 .. Len(indent_stack) - Len(kept) |-> "Dedent"]
    IN
    /\ Scanning
    /\ pos <= Len(source)
    /\ ~ IsBlankLine(pos)
    /\ Shifts(pos)
    /\ pos' = pos + spaces
    /\ at_line_start' = FALSE
    /\ UNCHANGED <<paren_count, eof_emitted, panicked>>
    /\ \/ /\ spaces > Last(indent_stack)
          /\ indent_stack' = Append(indent_stack, spaces)
          /\ emit(<<"Indent">>, pos + spaces)
          /\ UNCHANGED items
       \/ /\ spaces < Last(indent_stack)
          /\ indent_stack' = kept
          /\ emit(popped, pos + spaces)
          /\ IF Last(kept) = spaces THEN UNCHANGED items
             ELSE items' = Append(items, Item(Error, pos, pos + spaces))

-----------------------------------------------------------------------------
(* The next character of a line.                                            *)

\* Where it stands: the indentation of a line that keeps the level is passed
\* in the same turn.
At == IF at_line_start THEN AfterSpaces(pos) ELSE pos

has_indented_string_continuation(q) ==
    /\ last_token_was_string
    /\ AfterSpaces(q + 1) - (q + 1) > Last(indent_stack)
    /\ Holds(AfterSpaces(q + 1), Strings)

InLine ==
    /\ Scanning
    /\ pos <= Len(source)
    /\ at_line_start => ~ IsBlankLine(pos) /\ ~ Shifts(pos)

Quiet == UNCHANGED <<indent_stack, paren_count, pending_tokens, last_token_was_string>>

EndOfLine ==
    /\ InLine
    /\ Holds(At, {"nl"})
    /\ Advance(At + 1)
    /\ UNCHANGED <<indent_stack, paren_count>>
    /\ IF paren_count = 0 /\ ~ has_indented_string_continuation(At)
       THEN at_line_start' = TRUE /\ emit(<<"Newline">>, At + 1)
       ELSE at_line_start' = FALSE /\ UNCHANGED <<pending_tokens, last_token_was_string>>

\* Blanks, comments and joined lines leave no token.
SkipInLine ==
    /\ InLine
    /\ at_line_start' = FALSE
    /\ Quiet
    /\ \/ Holds(At, Blanks) /\ Advance(At + 1)
       \/ Holds(At, {"#"}) /\ Advance(skip_to_line_end(At))
       \/ Holds(At, {"\\"}) /\ \E end \in LineEnd(At + 1) : Advance(end)

Bracket ==
    /\ InLine
    /\ at_line_start' = FALSE
    /\ UNCHANGED indent_stack
    /\ \/ /\ Holds(At, Openers)
          /\ paren_count' = paren_count + 1
          /\ Advance(At + 1) /\ emit(<<source[At]>>, At + 1)
       \/ /\ Holds(At, Closers)
          /\ paren_count > 0 \/ source[At] = "}"
          /\ paren_count' = Max({paren_count - 1, 0})
          /\ Advance(At + 1) /\ emit(<<source[At]>>, At + 1)
       \/ /\ Holds(At, {")", "]"})
          /\ paren_count = 0
          /\ pos' = At + 1
          /\ Fail(At + 1)
          /\ UNCHANGED paren_count

Lexeme ==
    /\ InLine
    /\ At <= Len(source)
    /\ source[At] \notin Openers \cup Closers \cup Blanks \cup Unexpected \cup Broken
                         \cup {"nl", "#", "\\"}
    /\ at_line_start' = FALSE
    /\ Advance(At + 1)
    /\ emit(<<source[At]>>, At + 1)
    /\ UNCHANGED <<indent_stack, paren_count>>

\* A broken literal is consumed up to the place of its error; a character that
\* starts nothing, or a backslash before no line end, is not consumed at all.
Mistake ==
    /\ InLine
    /\ at_line_start' = FALSE
    /\ UNCHANGED <<indent_stack, paren_count>>
    /\ \/ Holds(At, Unexpected) /\ pos' = At
       \/ Holds(At, {"\\"}) /\ LineEnd(At + 1) = {} /\ pos' = At
       \/ Holds(At, {"1e"}) /\ pos' = At + 1
       \/ Holds(At, {"quote"}) /\ pos' = skip_to_line_end(At)
    /\ Fail(pos')

\* There is no character: `chars().next().unwrap()` on an empty remainder.
Panic ==
    /\ InLine
    /\ At > Len(source)
    /\ panicked' = TRUE
    /\ UNCHANGED <<pos, at_line_start, indent_stack, paren_count, pending_tokens,
                   eof_emitted, last_token_was_string, items>>

Lex ==
    /\ \/ Drain \/ EndOfInput \/ SkipBlankLine \/ Offside \/ EndOfLine
       \/ SkipInLine \/ Bracket \/ Lexeme \/ Mistake \/ Panic
    /\ UNCHANGED source

\* No more items will come, or the last one comes again and again.
Lexed == pending_tokens = <<>> /\ (eof_emitted \/ Stuck \/ panicked)
=============================================================================
