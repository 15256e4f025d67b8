------------------------------ MODULE PromptReader ------------------------------
(***************************************************************************)
(* How the host client reads a prompt from a terminal                       *)
(* (_read_prompt_bracketed of scripts/xyntra_host_cli.py).  The terminal      *)
(* encloses what is pasted in two markers of six bytes, so that a newline     *)
(* that was pasted does not submit the prompt; the bytes arrive in pieces,    *)
(* cut anywhere, and a lone escape is told from the beginning of a marker by  *)
(* waiting 50 ms for more.  Each piece is decoded by itself: of a character   *)
(* that two pieces share, replacement characters are left.                    *)
(***************************************************************************)
EXTENDS Integers, SequencesExt

CONSTANTS
    Characters,   \* what is typed or pasted, "enter" for a newline
    Width,        \* the bytes of each in UTF-8
    Inputs        \* what a user does at the terminal: sequences of acts

\* A read that ends within a character is decoded to "torn" for the bytes it has of it,
\* the next one to a "rest" for every byte left.  To the program all of these are
\* U+FFFD; they are kept apart to say where a read has to end.
Decoded == Characters \cup {"torn", "rest"}

Acts ==
    [type : {"key", "arrow", "paste", "enter", "backspace", "escape", "end", "interrupt"},
     text : Seq(Decoded)]

\* What is pasted has no control characters, Enter is no key of a text, and a marker
\* is not typed by hand.
ASSUME PromptAssumption ==
    /\ Characters \cap {"escape", "end", "interrupt", "backspace", "torn", "rest"} = {}
    /\ Width \in [Characters -> 1 .. 4]
    /\ Inputs \subseteq Seq(Acts)
    /\ \A acts \in Inputs : \A i \in DOMAIN acts : acts[i].text \in Seq(Characters)
    /\ \A acts \in Inputs : \A i \in DOMAIN acts : acts[i].type = "key" =>
          /\ acts[i].text # <<>>
          /\ \A k \in DOMAIN acts[i].text : acts[i].text[k] # "enter"
          /\ i > 1 /\ acts[i - 1].type = "escape" => acts[i].text[1] # "["

VARIABLES
    input,      \* what the user does, and
    heard,      \* prophecy: the same with the characters that reads will tear
    unread,     \* what was not read yet of it
    pending,    \* characters read and not looked at
    chars,      \* the text so far
    paste,      \* the last paste: is it going on, where did it begin, is it announced
    prompt,     \* how the reading ended
    cut         \* history: 50 ms passed in the middle of a marker

promptVars == <<input, heard, unread, pending, chars, paste, prompt, cut>>

PasteBegins == <<"escape", "[", "2", "0", "0", "~">>
PasteEnds == <<"escape", "[", "2", "0", "1", "~">>

BytesOf(u) ==
    CASE u.type = "paste" -> PasteBegins \o u.text \o PasteEnds
      [] u.type = "arrow" -> <<"escape", "[", "A">>
      [] u.type = "key"   -> u.text
      [] OTHER            -> <<u.type>>

\* A character is read as a whole, or its first bytes by one read and the others later.
ReadAs(c) ==
    {<<c>>} \cup {<<"torn">> \o [x \in 1 .. n |-> "rest"] : n \in 1 .. Width[c] - 1}

\* What the characters of an act, and the acts, may be read as.
OneOfEach(sets) ==
    {w \in [DOMAIN sets -> UNION {sets[j] : j \in DOMAIN sets}] :
        \A j \in DOMAIN sets : w[j] \in sets[j]}
HeardAct(u) ==
    {[u EXCEPT !.text = FlattenSeq(w)] :
        w \in OneOfEach([j \in DOMAIN u.text |-> ReadAs(u.text[j])])}
Hearings(acts) == OneOfEach([i \in DOMAIN acts |-> HeardAct(acts[i])])

\* The bytes of the first n acts, for every n, a character as one.
BytesUpTo(acts) ==
    LET bytes[n \in 0 .. Len(acts)] == IF n = 0 THEN <<>> ELSE bytes[n - 1] \o BytesOf(acts[n])
    IN  bytes

PromptInit ==
    /\ input \in Inputs
    /\ heard \in Hearings(input)
    /\ unread = BytesUpTo(heard)[Len(heard)]
    /\ pending = <<>> /\ chars = <<>>
    /\ paste = [on |-> FALSE, start |-> 0, open |-> FALSE]
    /\ prompt = "reading"
    /\ cut = FALSE

Reading == prompt = "reading"
Begins(marker) == IsPrefix(marker, pending)

\* os.read returns what has arrived, and all of it is decoded: where a character was
\* torn, a read ended.
ReadBytes ==
    /\ \E n \in 1 .. Len(unread) :
          /\ \A x \in 1 .. n - 1 : unread[x] # "torn"
          /\ pending' = pending \o SubSeq(unread, 1, n)
          /\ unread' = SubSeq(unread, n + 1, Len(unread))
    /\ UNCHANGED <<input, heard, chars, paste, prompt, cut>>

ReadMore == Reading /\ pending = <<>> /\ ReadBytes

Skip(n) == pending' = SubSeq(pending, n + 1, Len(pending))

BeginPaste ==
    /\ Reading /\ Begins(PasteBegins)
    /\ paste' = [on |-> TRUE, start |-> Len(chars), open |-> TRUE]
    /\ Skip(6)
    /\ UNCHANGED <<input, heard, unread, chars, prompt, cut>>

EndPaste ==
    /\ Reading /\ Begins(PasteEnds)
    /\ paste' = [paste EXCEPT !.on = FALSE]
    /\ Skip(6)
    /\ UNCHANGED <<input, heard, unread, chars, prompt, cut>>

\* Mutant: nobody waits, what begins with an escape and is not a marker is none.
ShortEscape_Never == FALSE

\* Too short to tell an escape from a marker.
ShortEscape == Len(pending) \in 1 .. 5 /\ Head(pending) = "escape"

\* The escape does begin a marker, the rest of which is on its way.
InMarker == \E m \in {PasteBegins, PasteEnds} : IsPrefix(m, pending \o unread)

AwaitRest == Reading /\ ShortEscape /\ ReadBytes

\* The escape is dropped: nothing came within 50 ms, or what came is no marker.
DropEscape ==
    /\ Reading /\ pending # <<>> /\ Head(pending) = "escape"
    /\ ~Begins(PasteBegins) /\ ~Begins(PasteEnds)
    /\ cut' = (cut \/ (ShortEscape /\ InMarker))
    /\ Skip(1)
    /\ UNCHANGED <<input, heard, unread, chars, paste, prompt>>

\* The reading ends, and with it what is pending is lost.
EndPrompt(how) ==
    /\ prompt' = how
    /\ pending' = <<>>
    /\ UNCHANGED <<chars, paste>>

\* A Backspace takes the last paste with all that was typed after it, once; else one
\* character.
Erase ==
    IF paste.open /\ Len(chars) > paste.start
    THEN chars' = SubSeq(chars, 1, paste.start) /\ paste' = [paste EXCEPT !.open = FALSE]
    ELSE chars' = SubSeq(chars, 1, Len(chars) - 1) /\ UNCHANGED paste

TakeByte ==
    /\ Reading /\ pending # <<>> /\ Head(pending) # "escape"
    /\ LET c == Head(pending)
       IN  CASE c = "interrupt" -> EndPrompt("interrupted")
             [] c = "end" -> EndPrompt(IF chars = <<>> THEN "ended" ELSE "submitted")
             [] c = "enter" /\ ~paste.on -> EndPrompt("submitted")
             [] c = "backspace" -> Erase /\ Skip(1) /\ UNCHANGED prompt
             [] OTHER -> chars' = Append(chars, c) /\ Skip(1) /\ UNCHANGED <<paste, prompt>>
    /\ UNCHANGED <<input, heard, unread, cut>>

\* Bound: a behaviour is one prompt.
PromptNext ==
    ReadMore \/ BeginPaste \/ EndPaste \/ AwaitRest \/ DropEscape \/ TakeByte

PromptSpec == PromptInit /\ [][PromptNext]_promptVars

-------------------------------------------------------------------------------
\* What an act means to a user whose text so far is s.text, of which the last paste, as
\* long as it is whole, began behind s.from: a paste is one act, whatever is in it.
Understood(s, u) ==
    IF s.how # "reading" THEN s
    ELSE CASE u.type = "key"   -> [s EXCEPT !.text = @ \o u.text]
           [] u.type = "arrow" -> [s EXCEPT !.text = @ \o <<"[", "A">>]
           [] u.type = "paste" -> [s EXCEPT !.text = @ \o u.text, !.from = Len(s.text), !.whole = TRUE]
           [] u.type = "enter" -> [s EXCEPT !.how = "submitted"]
           [] u.type = "end"   -> [s EXCEPT !.how = IF s.text = <<>> THEN "ended" ELSE "submitted"]
           [] u.type = "interrupt" -> [s EXCEPT !.how = "interrupted"]
           [] u.type = "escape" -> s
           [] u.type = "backspace" ->
                 IF s.whole /\ Len(s.text) > s.from
                 THEN [s EXCEPT !.text = SubSeq(@, 1, s.from), !.whole = FALSE]
                 ELSE [s EXCEPT !.text = SubSeq(@, 1, Len(@) - 1)]

\* What the first n acts mean, for every n.
MeaningUpTo(acts) ==
    LET meaning[n \in 0 .. Len(acts)] ==
            IF n = 0 THEN [text |-> <<>>, from |-> 0, whole |-> FALSE, how |-> "reading"]
            ELSE Understood(meaning[n - 1], acts[n])
    IN  meaning

Meaning == MeaningUpTo(heard)[Len(heard)]

\* However the bytes are cut into pieces, and however the pieces are spaced outside
\* of the markers, a prompt ends by the act that was to end it and its text is
\* that of the acts before: a newline that was pasted never submits, a marker never
\* shows up in a text, and an escape swallows nothing but itself.  A cut within a
\* character costs that character and nothing else: it stands in the text as two to
\* four replacement characters, of which a Backspace takes one.
PromptIsWhatWasMeant ==
    (~Reading /\ ~cut) => prompt = Meaning.how /\ chars = Meaning.text
===============================================================================
