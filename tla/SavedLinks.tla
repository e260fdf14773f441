------------------------------ MODULE SavedLinks ------------------------------
(***************************************************************************)
(* Saved links, the images imported for them, and memos: one file each,    *)
(* in the user's directory, which the command line, tool calls and the     *)
(* requests of the browser read, change and replace without any lock.  A   *)
(* link is read, changed in memory and written back; its old image is      *)
(* removed only after that.  A call takes as long as the page it fetches.  *)
(***************************************************************************)
EXTENDS Integers, Sequences, FiniteSets, FiniteSetsExt, SequencesExt

CONSTANTS
  Callers,                    \* commands, tool calls and requests running at the same time
  MaxLinks, MaxImages, MaxCalls, MaxMishaps   \* bounds

VARIABLES
  links,        \* the stored links, by ID: the fields the sought word is in, the tags, the image
  images,       \* the image files, each with the link whose ID is in its name
  memo,         \* the one memo: its content, 0 when there is none
  classifier,   \* the settings file of the tag classifier: absent, whole, or cut short
  caller,       \* what each caller is doing
  torn,         \* links a call began to delete, or wrote from a copy that was no longer theirs
  begun, upset  \* calls and mishaps so far

linkVars == <<links, images, memo, classifier, caller, torn, begun, upset>>

(* An image is the number of a file, or not a local one.                   *)
NoImage == 0
Web == -1
NoLink == [words |-> {}, tags |-> "none", image |-> NoImage]
Free == [at |-> "idle", op |-> "", id |-> 0, copy |-> NoLink, seen |-> NoLink, import |-> FALSE, new |-> NoImage,
         found |-> <<>>]

LinkInit ==
  /\ links \in {[i \in {1} |-> [words |-> {"title"}, tags |-> "user", image |-> m]] : m \in {NoImage, Web, 1}}
  /\ images = [m \in {links[1].image} \ {NoImage, Web} |-> 1]
  /\ memo = 1 /\ classifier = "absent"
  /\ caller = [w \in Callers |-> Free] /\ torn = {} /\ begun = 0 /\ upset = 0

Stored(l) == l \in DOMAIN links
Without(ms) == [m \in DOMAIN images \ ms |-> images[m]]

Goes(w, c) == caller' = [caller EXCEPT ![w] = c]
Ends(w) == Goes(w, Free)
Starts(w, c) == caller[w].at = "idle" /\ begun < MaxCalls /\ begun' = begun + 1 /\ Goes(w, c)

-------------------------------------------------------------------------------
(* What a caller can ask for: an image, and tags.  Only a command on this  *)
(* machine, a tool and the browser's form bring an image along.  A list of *)
(* tags that is there but empty takes the tags away when the command runs  *)
(* here; sent to another machine it is as if it were not there.            *)
Input(imports, tags) == [import : imports, tags : tags]
RemoteLinkAdd == Input({FALSE}, {"none", "user"})
LinkAdd == Input(BOOLEAN, {"none", "user"}) \union RemoteLinkAdd
CreateRequest == Input(BOOLEAN, {"none", "user"})
HandleLinkAdd == Input(BOOLEAN, {"none"})
RemoteLinkUpdate == Input({FALSE}, {"kept", "user"})
LinkUpdate == Input(BOOLEAN, {"kept", "user", "none"}) \union RemoteLinkUpdate
UpdateRequest == Input(BOOLEAN, {"kept", "user"})
HandleLinkUpdate == Input(BOOLEAN, {"kept"})

UpdateWithTags(link, words, tags) ==
  [link EXCEPT !.words = words, !.tags = IF tags = "kept" THEN @ ELSE tags]

AfterRead(import) == IF import THEN "import" ELSE "save"

(* A link is added: the page is fetched first.                             *)
AddWithTags(w) ==
  \E in \in LinkAdd \union CreateRequest \union HandleLinkAdd :
    /\ Starts(w, [Free EXCEPT !.at = "fetch", !.op = "add", !.import = in.import,
                  !.copy = [NoLink EXCEPT !.words = {"url"}, !.tags = in.tags]])
    /\ UNCHANGED <<links, images, memo, classifier, torn, upset>>

(* The page answers with a title and perhaps an image, or it does not and  *)
(* the link is saved as it is; only an address that is not public ends the *)
(* call.                                                                   *)
Pages == {[words |-> t, tags |-> "page", image |-> m] : t \in {{}, {"title"}}, m \in {NoImage, Web}}
Fetched == {NoLink} \union Pages
(* The tags are guessed when the user gave none and the page is known; the *)
(* guess is left out when it fails.                                        *)
Classify(page) == {"none"} \union (IF page \in Pages /\ classifier = "whole" THEN {"guessed"} ELSE {})

ValidateRefuses(w) ==
  /\ caller[w].at = "fetch" /\ Ends(w)
  /\ UNCHANGED <<links, images, memo, classifier, torn, begun, upset>>
FetchMetadata(w, id) ==
  LET c == caller[w] IN
  /\ c.at = "fetch"
  /\ \E page \in Fetched : \E tags \in Classify(page) :
       Goes(w, [c EXCEPT !.at = AfterRead(c.import), !.id = id,
                !.copy = [words |-> c.copy.words \union page.words, image |-> page.image,
                          tags |-> IF c.copy.tags = "user" THEN "user" ELSE tags]])
  /\ UNCHANGED <<links, images, memo, classifier, torn, begun, upset>>

(* An ID that no link has had, and no other caller has been given.         *)
NewID == CHOOSE i \in 1..(MaxLinks + Cardinality(Callers)) :
  ~Stored(i) /\ i \notin torn /\ \A w \in Callers : caller[w].id /= i

Get(w) ==
  \E in \in LinkUpdate \union UpdateRequest \union HandleLinkUpdate, l \in DOMAIN links, note \in SUBSET {"note"} :
    /\ Starts(w, [Free EXCEPT !.at = AfterRead(in.import), !.op = "update", !.id = l, !.import = in.import,
                  !.seen = links[l], !.copy = UpdateWithTags(links[l], (links[l].words \ {"note"}) \union note, in.tags)])
    /\ UNCHANGED <<links, images, memo, classifier, torn, upset>>

(* A name that no image has, nor had while a call could still know it.     *)
Known == DOMAIN images \union {links[l].image : l \in DOMAIN links}
         \union UNION {{caller[w].new, caller[w].copy.image, caller[w].seen.image} : w \in Callers}
NewImage == {m \in 1..MaxImages : m \notin Known /\ \A n \in 1..(m - 1) : n \in Known}

(* The file the user brought is copied under a new name, or it is no image *)
(* or too large and the call ends.                                         *)
ImportImage(w) ==
  LET c == caller[w] IN
  /\ c.at = "import"
  /\ \/ Ends(w) /\ UNCHANGED images
     \/ \E m \in NewImage :
          /\ images' = [i \in DOMAIN images \union {m} |-> IF i = m THEN c.id ELSE images[i]]
          /\ Goes(w, [c EXCEPT !.at = "save", !.new = m, !.copy.image = m])
  /\ UNCHANGED <<links, memo, classifier, torn, begun, upset>>

(* The image a call replaces, once its link is written.                    *)
ReplacedAlways(c) == {c.seen.image} \ {NoImage, Web}
Replaced(c) == IF c.new /= NoImage THEN {c.seen.image} \ {NoImage, Web} ELSE {}

(* The link is written, whatever has become of it since it was read.       *)
Overwrites(c) == c.op = "update" /\ (~Stored(c.id) \/ links[c.id] /= c.seen)
SaveLink(w) ==
  LET c == caller[w] IN
  /\ c.at = "save" /\ c.op \in {"add", "update"}
  /\ links' = [i \in DOMAIN links \union {c.id} |-> IF i = c.id THEN c.copy ELSE links[i]]
  /\ torn' = IF Overwrites(c) THEN torn \union {c.id} ELSE torn
  /\ Goes(w, IF Replaced(c) = {} THEN Free ELSE [c EXCEPT !.at = "old"])
  /\ UNCHANGED <<images, memo, classifier, begun, upset>>

SaveFails(w) ==
  /\ caller[w].at = "save" /\ caller[w].op \in {"add", "update"} /\ upset < MaxMishaps /\ upset' = upset + 1
  /\ images' = Without({caller[w].new}) /\ Ends(w)
  /\ UNCHANGED <<links, memo, classifier, torn, begun>>

RemoveImage(w) ==
  /\ caller[w].at = "old" /\ images' = Without(Replaced(caller[w])) /\ Ends(w)
  /\ UNCHANGED <<links, memo, classifier, torn, begun, upset>>

-------------------------------------------------------------------------------
(* A link is deleted: the image its record names, every image with its ID  *)
(* in its name, and then the record.                                       *)
Delete(w) ==
  \E l \in DOMAIN links :
    /\ Starts(w, [Free EXCEPT !.at = "named", !.op = "delete", !.id = l, !.seen = links[l]])
    /\ UNCHANGED <<links, images, memo, classifier, torn, upset>>
DeleteImage(w) ==
  LET c == caller[w] IN
  /\ c.at \in {"named", "prefix"}
  /\ images' = Without(IF c.at = "named" THEN {c.seen.image} ELSE {m \in DOMAIN images : images[m] = c.id})
  /\ torn' = torn \union {c.id}
  /\ Goes(w, [c EXCEPT !.at = IF @ = "named" THEN "prefix" ELSE "json"])
  /\ UNCHANGED <<links, memo, classifier, begun, upset>>
DeleteJSON(w) ==
  /\ caller[w].at = "json"
  /\ links' = [i \in DOMAIN links \ {caller[w].id} |-> links[i]] /\ Ends(w)
  /\ UNCHANGED <<images, memo, classifier, torn, begun, upset>>

-------------------------------------------------------------------------------
(* A search by a word: a field it is in counts once as the whole phrase    *)
(* and once as a word (the weights are doubled, to be whole numbers).      *)
Weight == [title |-> 10, tags |-> 8, url |-> 6, description |-> 4, note |-> 3]
BonusExactPhrase == 6
Score(link) == FoldSet(LAMBDA f, sum : sum + Weight[f] + BonusExactPhrase, 0, link.words)
RankLinks(ls) ==
  SetToSortSeq({l \in ls : Score(links[l]) > 0},
               LAMBDA a, b : Score(links[a]) > Score(links[b]) \/ (Score(links[a]) = Score(links[b]) /\ a > b))
(* By meaning, the links close enough to the question, without the words;  *)
(* by words when the model is not there.                                   *)
SearchLinks(ls, answers) ==
  {RankLinks(ls)} \union (IF "meaning" \in answers THEN {SetToSeq(s) : s \in SUBSET ls} ELSE {})

(* The names in the directory are read first and then every file; one that *)
(* is gone by then fails the whole list.                                   *)
List(w) ==
  /\ Starts(w, [Free EXCEPT !.at = "list", !.op = "search", !.found = SetToSeq(DOMAIN links)])
  /\ UNCHANGED <<links, images, memo, classifier, torn, upset>>
Search(w) ==
  /\ caller[w].at = "list"
  /\ \/ ToSet(caller[w].found) \subseteq DOMAIN links
        /\ \E r \in SearchLinks(ToSet(caller[w].found), {"words", "meaning"}) :
             Goes(w, [caller[w] EXCEPT !.at = "found", !.found = r])
     \/ ~(ToSet(caller[w].found) \subseteq DOMAIN links) /\ Ends(w)
  /\ UNCHANGED <<links, images, memo, classifier, torn, begun, upset>>
ShowLinks(w) ==
  /\ caller[w].at = "found" /\ Ends(w)
  /\ UNCHANGED <<links, images, memo, classifier, torn, begun, upset>>

-------------------------------------------------------------------------------
(* Memos, in the same way; a deletion is one step.                         *)
AddMemo(w) ==
  /\ memo = 0 /\ Starts(w, Free) /\ memo' = 1
  /\ UNCHANGED <<links, images, classifier, torn, upset>>
UpdateMemo(w) ==
  /\ memo /= 0 /\ Starts(w, [Free EXCEPT !.at = "save", !.op = "memo"])
  /\ UNCHANGED <<links, images, memo, classifier, torn, upset>>
SaveMemo(w) ==
  /\ caller[w].at = "save" /\ caller[w].op = "memo" /\ memo' = 2 /\ Ends(w)
  /\ UNCHANGED <<links, images, classifier, torn, begun, upset>>
DeleteMemo(w) ==
  /\ Starts(w, Free) /\ memo' = 0
  /\ UNCHANGED <<links, images, classifier, torn, upset>>

(* The classifier's settings are read, and then written in place.          *)
SaveClassifier(w) ==
  /\ classifier /= "cut" /\ Starts(w, [Free EXCEPT !.at = "write", !.op = "settings"])
  /\ classifier' = "cut"
  /\ UNCHANGED <<links, images, memo, torn, upset>>
WriteClassifier(w) ==
  /\ caller[w].at = "write" /\ classifier' = "whole" /\ Ends(w)
  /\ UNCHANGED <<links, images, memo, torn, begun, upset>>

(* The process ends in the middle of what it does.                         *)
Die(w) ==
  /\ caller[w].at /= "idle" /\ upset < MaxMishaps /\ upset' = upset + 1 /\ Ends(w)
  /\ UNCHANGED <<links, images, memo, classifier, torn, begun>>

LinkNext ==
  \E w \in Callers :
    \/ AddWithTags(w) \/ ValidateRefuses(w) \/ FetchMetadata(w, NewID) \/ Get(w) \/ ImportImage(w) \/ SaveLink(w) \/ SaveFails(w)
    \/ RemoveImage(w) \/ Delete(w) \/ DeleteImage(w) \/ DeleteJSON(w)
    \/ List(w) \/ Search(w) \/ ShowLinks(w)
    \/ AddMemo(w) \/ UpdateMemo(w) \/ SaveMemo(w) \/ DeleteMemo(w) \/ SaveClassifier(w) \/ WriteClassifier(w) \/ Die(w)

LinkSpec == LinkInit /\ [][LinkNext]_linkVars

-------------------------------------------------------------------------------
(* A link that names an imported image finds it, unless a call has begun   *)
(* to delete the link or has written it over a change made since the call  *)
(* read it (UpdateWithTags and Delete, with no lock between them): the     *)
(* image is there before the record names it and goes only after.          *)
ImagesFollowLinks ==
  \A l \in DOMAIN links : links[l].image \notin DOMAIN images \union {NoImage, Web} => l \in torn
===============================================================================
