------------------------------ MODULE Frontend ------------------------------
(* The front end over one text: the lexer's tokens are read by the strict   *)
(* parse, which stops at the first error and is what compiles a program, and*)
(* by the diagnostic parse of `mojito parse`, which recovers at statement   *)
(* boundaries to report more than one error.                                *)
EXTENDS Parser

CONSTANTS MaxErrors         \* the errors a report may hold

VARIABLES
    stage,       \* "lex", "parse", "sync" (skipping to a boundary) or "done"
    strict,      \* the strict parse, once the text is lexed
    parser,      \* the diagnostic parse: its parser,
    program,     \* the statements it has kept,
    errors,      \* the items where it has reported an error
    truncated    \* and whether it stopped at MaxErrors

vars == <<lexer, source, stage, strict, parser, program, errors, truncated>>
report == <<parser, program, errors, truncated>>

InitWith(text) ==
    /\ source = text
    /\ LexerInit
    /\ stage = "lex"
    /\ strict = ParserNew
    /\ parser = ParserNew
    /\ program = <<>>
    /\ errors = <<>>
    /\ truncated = FALSE

Lexing ==
    /\ stage = "lex"
    /\ Lex
    /\ UNCHANGED <<stage, strict, report>>

StrictParse ==
    /\ stage = "lex"
    /\ Lexed
    /\ ~ panicked
    /\ strict' = parse_program
    /\ stage' = "parse"
    /\ UNCHANGED <<lexer, source, report>>

-----------------------------------------------------------------------------
(* One turn of the loop of parse_program_diagnostic, or of its recovery.    *)

Diagnosing == stage = "parse"
Next_ == peek_token(parser)

\* Reports an error there; the report stops when it is full.
Report(p) ==
    /\ errors' = Append(errors, p.at)
    /\ truncated' = (Len(errors) + 1 >= MaxErrors)

(* Mutant: an item that is an error is not passed over.                     *)
discard_one_tokens ==
    IF peek_token(parser) = Error THEN parser ELSE [next_token(parser) EXCEPT !.ok = TRUE]

\* An error of the lexer, or a layout token, is passed over.
discard_one == [next_token(parser) EXCEPT !.ok = TRUE]

ReportLexError ==
    /\ Diagnosing
    /\ Next_ = Error
    /\ Report(parser)
    /\ parser' = discard_one
    /\ stage' = IF truncated' THEN "done" ELSE stage
    /\ UNCHANGED <<lexer, source, strict, program>>

DiscardLayout ==
    /\ Diagnosing
    /\ Next_ \in {"Newline", "Indent", "Dedent"}
    /\ parser' = discard_one
    /\ UNCHANGED <<lexer, source, stage, strict, program, errors, truncated>>

ParseStatement ==
    /\ Diagnosing
    /\ Next_ \notin Layout \cup {Error, "none"}
    /\ \E parsed \in {Run([parser EXCEPT !.out = <<>>], parse_statement)} :
        /\ parser' = [parsed EXCEPT !.ok = TRUE]
        /\ IF parsed.ok
           THEN /\ program' = Append(program, Head(parsed.out))
                /\ UNCHANGED <<stage, errors, truncated>>
           ELSE /\ Report(parsed)
                /\ stage' = IF truncated' THEN "done" ELSE "sync"
                /\ UNCHANGED program
    /\ UNCHANGED <<lexer, source, strict>>

(* Mutant: the end of a line is no boundary.                                *)
synchronize_statement_across_lines ==
    /\ stage = "sync"
    /\ parser' = discard_one
    /\ stage' = IF Next_ \in {";", "Dedent", "Eof", "none"} THEN "parse" ELSE "sync"
    /\ UNCHANGED <<lexer, source, strict, program, errors, truncated>>

\* Panic mode: one item of synchronize_statement.
synchronize_statement ==
    /\ stage = "sync"
    /\ parser' = discard_one
    /\ stage' = IF Next_ \in {"Newline", ";", "Dedent", "Eof", "none"} THEN "parse" ELSE "sync"
    /\ UNCHANGED <<lexer, source, strict, program, errors, truncated>>

Finish ==
    /\ Diagnosing
    /\ Next_ \in {"Eof", "none"}
    /\ stage' = "done"
    /\ UNCHANGED <<lexer, source, strict, report>>

Next ==
    \/ Lexing
    \/ StrictParse
    \/ ReportLexError
    \/ DiscardLayout
    \/ ParseStatement
    \/ synchronize_statement
    \/ Finish
=============================================================================
