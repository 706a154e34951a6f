------------------------------ MODULE MessageParts -----------------------------
(* server/gmail_client.py: what the agent is told of one message.  A message is*)
(* a tree of MIME parts; its body is put together from the text parts, and its *)
(* attachments are listed under keys that download_attachment must still find  *)
(* in a later fetch, although Gmail gives each fetch attachment ids of its own.*)
(* A part is named by its path, the sequence of child numbers that leads to it;*)
(* Gmail's partId is that path.                                                *)
EXTENDS Integers, Sequences, FiniteSets, SequencesExt

CONSTANTS
  Messages,     \* the payloads to consider
  Multipart,    \* the MIME types that start with "multipart/"
  MaxFetches    \* bound: fetches of the message

(* A part: its type, whether it has a filename, a text that is not blank, an   *)
(* attachmentId, and how many parts there are below it.                        *)
Part == [mime: STRING, filename: BOOLEAN, data: BOOLEAN, attachmentId: BOOLEAN, parts: Nat]

(* A message maps the paths of its parts to the parts.                         *)
IsMessage(m) ==
  /\ m \in [DOMAIN m -> Part] /\ IsFiniteSet(DOMAIN m)
  /\ <<>> \in DOMAIN m
  /\ \A path \in DOMAIN m :
       /\ path \in Seq(Nat)
       /\ \A i \in 1..m[path].parts : Append(path, i) \in DOMAIN m
       /\ path # <<>> => /\ Front(path) \in DOMAIN m
                        /\ Last(path) \in 1..m[Front(path)].parts

ASSUME MessagesAssumption == \A m \in Messages : IsMessage(m)
ASSUME MultipartAssumption ==
  /\ "multipart/alternative" \in Multipart
  /\ Multipart \cap {"text/plain", "text/html"} = {}
ASSUME FetchAssumption == MaxFetches \in Nat

VARIABLES
  payload,   \* the message
  fetches,   \* how often it was fetched
  listed,    \* what list_attachments told the agent: the keys, and what has them
  download   \* the last download: its key, and the part whose bytes were fetched

messageVars == <<payload, fetches, listed, download>>

NotFound == <<0>>
NoDownload == [key |-> [from |-> "nowhere", path |-> <<>>], part |-> NotFound]

Earliest(seq, indices) == seq[CHOOSE i \in indices : \A j \in indices : i <= j]

(* What a traversal found below each of the parts of a part.                   *)
Pieces(path, found) == [i \in 1..payload[path].parts |-> found[Append(path, i)]]

--------------------------------------------------------------------------------
(* The body.                                                                   *)
(* Mutant of FirstWithContent: the first version counts, empty or not.         *)
FirstVersion(pieces) == IF pieces = <<>> THEN <<>> ELSE pieces[1]

FirstWithContent(pieces) ==
  LET full == {i \in DOMAIN pieces : pieces[i] # <<>>}
  IN  IF full = {} THEN <<>> ELSE Earliest(pieces, full)

(* What _extract_parts returns for a part, given the pieces of its parts: of   *)
(* alternative versions the first with content, of any other multipart (mixed, *)
(* related, signed...) the pieces of all of them.                              *)
Taken(mime, path, pieces) ==
  LET part == payload[path]
  IN  CASE part.filename -> <<>>
        [] ~part.filename /\ part.mime = mime -> IF part.data THEN <<path>> ELSE <<>>
        [] ~part.filename /\ part.mime = "multipart/alternative" -> FirstWithContent(pieces)
        [] ~part.filename /\ part.mime \in Multipart \ {"multipart/alternative"} ->
             FlattenSeq(pieces)
        [] OTHER -> <<>>

(* _extract_parts of every part: the paths of the parts whose texts it returns,*)
(* in order; and that of the message.                                          *)
Texts(mime) ==
  LET texts[path \in DOMAIN payload] == Taken(mime, path, Pieces(path, texts))
  IN  texts

Extract(mime) == Texts(mime)[<<>>]

(* Mutant of BodyOf: the HTML is only for those who ask for it.                *)
BodyPlain(plain, html) == plain

BodyOf(plain, html) == IF plain # <<>> THEN plain ELSE html

(* _body_and_links, for get_email.                                             *)
Told ==
  LET plain == Extract("text/plain")
      html == Extract("text/html")
  IN  [body |-> BodyOf(plain, html), html |-> IF plain # <<>> THEN html ELSE <<>>]

--------------------------------------------------------------------------------
(* The attachments.  Every fetch names them anew.                              *)
GmailId(fetch, path) == [from |-> "fetch", number |-> fetch, path |-> path]

(* Mutant of Key: an attachment is listed under the id of the fetch.           *)
KeyOfFetch(path, fetch) == GmailId(fetch, path)

(* The key of an attachment: its partId, and "root" for that of the root.  The *)
(* code would fall back to the id of the fetch for a part below the root that  *)
(* has no partId; Gmail gives every such part one.                             *)
Key(path, fetch) == [from |-> IF path = <<>> THEN "root" ELSE "partId", path |-> path]

(* _attachment_parts of every part: the paths of the downloadable parts, in    *)
(* order; and that of the message.                                             *)
AttachmentParts ==
  LET attachments[path \in DOMAIN payload] ==
        (IF payload[path].filename /\ payload[path].attachmentId THEN <<path>> ELSE <<>>) \o
        FlattenSeq(Pieces(path, attachments))
  IN  attachments

Downloadable == AttachmentParts[<<>>]

(* find_attachment, with what this fetch gave: the first of either name.       *)
FindAttachment(key, fetch) ==
  LET found == {i \in DOMAIN Downloadable :
                  key \in {Key(Downloadable[i], fetch), GmailId(fetch, Downloadable[i])}}
  IN  IF found = {} THEN NotFound ELSE Earliest(Downloadable, found)

MessageInit ==
  /\ payload \in Messages
  /\ fetches = 0
  /\ listed = {}
  /\ download = NoDownload

(* list_attachments and get_email.                                             *)
ListAttachments ==
  /\ fetches < MaxFetches
  /\ fetches' = fetches + 1
  /\ listed' = {[key |-> Key(path, fetches'), part |-> path] : path \in ToSet(Downloadable)}
  /\ download' = NoDownload
  /\ UNCHANGED payload

(* download_attachment: the id to download with is that of its own fetch.      *)
DownloadAttachment ==
  /\ fetches < MaxFetches
  /\ fetches' = fetches + 1
  /\ \E entry \in listed :
       download' = [key |-> entry.key, part |-> FindAttachment(entry.key, fetches')]
  /\ UNCHANGED <<payload, listed>>

MessageNext == ListAttachments \/ DownloadAttachment

MessageSpec == MessageInit /\ [][MessageNext]_messageVars

--------------------------------------------------------------------------------
(* Properties.                                                                 *)
(* The part at depth n on the way to a part.                                   *)
Up(path, n) == SubSeq(path, 1, n)

(* The parts of a type that the message offers: texts with content, at the end *)
(* of multiparts all the way, and no attachment.                               *)
Offered(mime) ==
  {path \in DOMAIN payload :
     /\ payload[path].mime = mime /\ payload[path].data
     /\ \A n \in 0..Len(path) : ~payload[Up(path, n)].filename
     /\ \A n \in 0..Len(path) - 1 : payload[Up(path, n)].mime \in Multipart}

(* Of those, the ones no earlier version of theirs makes redundant.            *)
Wanted(mime) ==
  {path \in Offered(mime) :
     \A n \in 0..Len(path) - 1 :
       payload[Up(path, n)].mime = "multipart/alternative" =>
         \A other \in Offered(mime) :
           IsPrefix(Up(path, n), other) => path[n + 1] <= other[n + 1]}

InOrder(p, q) ==
  \E n \in 0..Len(p) - 1 : IsPrefix(Up(p, n), q) /\ Len(q) > n /\ p[n + 1] < q[n + 1]

(* The texts of a type are those of the first version with content at every    *)
(* choice the message offers, each once, in the message's order, however the   *)
(* choices nest, and never an attachment's.                                    *)
BestVersionTaken ==
  \A mime \in {"text/plain", "text/html"} :
    LET taken == Extract(mime)
    IN  /\ ToSet(taken) = Wanted(mime)
        /\ \A i, j \in DOMAIN taken : i < j => InOrder(taken[i], taken[j])

(* Whatever text a message offers reaches the agent: no message that says      *)
(* something has an empty body, and no HTML is dropped for a plain part.       *)
NothingUnsaid ==
  /\ Offered("text/plain") \cup Offered("text/html") # {} => Told.body # <<>>
  /\ Wanted("text/html") \subseteq ToSet(Told.body) \cup ToSet(Told.html)

(* An attachment that was listed is found, and is the one that was listed, in  *)
(* every later fetch.                                                          *)
ListedIsFound ==
  \A entry \in listed : download.key = entry.key /\ download # NoDownload =>
    download.part = entry.part
================================================================================
