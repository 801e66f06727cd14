----------------------------- MODULE Attachments -----------------------------
(***************************************************************************)
(* Attachments (rblog-attachments): an upload stores the file and then the *)
(* thumbnail of an image, each under a key made of group, month, the hash  *)
(* of its bytes and its name; a removal deletes one key.  Nothing else is  *)
(* recorded: what is stored is what the backend lists.                     *)
(***************************************************************************)
EXTENDS Server, Naturals

CONSTANTS
    FileNames,
    Groups,         \* of keys: what sanitize leaves
    NoGroup,        \* an upload that names none
    Dot,            \* the group "."
    Encoded,        \* "%2E"
    Contents,       \* contents of uploads and of thumbnails
    Hashes,         \* sha_prefix, eight hex digits: contents may share one
    HashOf,
    Images,         \* contents that are declared to be images
    ThumbOf,        \* the thumbnail's bytes, None where the image does not decode
    ThumbName,      \* strip_ext and the profile's name
    Uploads,        \* bound: what clients send, <<group, name, body>>
    Months          \* bound: 1..Months

ObjectKey == [group : Groups, month : 1..Months, hash : Hashes, name : FileNames]

\* Where the backend has its objects.
StoredPath == [group : Groups \cup {Encoded}, month : 1..Months, hash : Hashes, name : FileNames]

ASSUME AttachmentsAssumption ==
    /\ None \notin Contents
    /\ NoGroup \in Groups /\ NoGroup # Dot /\ Encoded \notin Groups
    /\ HashOf \in [Contents -> Hashes]
    /\ Images \subseteq Contents
    /\ ThumbOf \in [Images -> Contents \cup {None}]
    /\ ThumbName \in [FileNames -> FileNames]
    /\ Uploads \subseteq Groups \X FileNames \X Contents
    /\ Months \in Nat \ {0}

VARIABLES
    month,
    objects,    \* the backend
    upload,     \* the handlers
    answered    \* history: the objects that answers with 201 gave the URLs of,
                \* until their keys are deleted

attachmentsVars == <<month, objects, upload, answered>>

NoUpload == [at |-> "idle"]
Upload == {NoUpload} \cup [at : {"put", "render", "thumb"}, what : Uploads,
                           stored : SUBSET (ObjectKey \X Contents)]

AttachmentsInit ==
    /\ month = 1
    /\ objects = [p \in StoredPath |-> None]
    /\ upload = [r \in Requests |-> NoUpload]
    /\ answered = {}

\* Mutant: the key has no hash.
Key_NoHash(group, name, body) ==
    [group |-> group, month |-> month, hash |-> CHOOSE h \in Hashes : TRUE, name |-> name]

\* object_key.
Key(group, name, body) ==
    [group |-> group, month |-> month, hash |-> HashOf[body], name |-> name]

NextMonth ==
    /\ month < Months
    /\ month' = month + 1
    /\ UNCHANGED <<objects, upload, answered>>

\* upload: files that are neither empty nor too large.
StartUpload(r) ==
    \E u \in Uploads :
        /\ upload[r] = NoUpload
        /\ upload' = [upload EXCEPT ![r] = [at |-> "put", what |-> u, stored |-> {}]]
        /\ UNCHANGED <<month, objects, answered>>

\* object_path: ObjectPath::from encodes a part that is a dot.
ObjectPath(k) == IF k.group = Dot THEN [k EXCEPT !.group = Encoded] ELSE k

\* What a browser asks for when it follows public_url, and ServeDir finds: a part
\* that is a dot is dropped.
Served(k) == IF k.group = Dot THEN [k EXCEPT !.group = NoGroup] ELSE k

PutObject(k, b) == objects' = [objects EXCEPT ![ObjectPath(k)] = b]

Answer(r, stored) ==
    /\ answered' = answered \cup stored
    /\ upload' = [upload EXCEPT ![r] = NoUpload]

\* The file itself is stored, before it is known to be an image.
PutOriginal(r) ==
    LET u == upload[r].what
        b == u[3]
        k == Key(u[1], u[2], b)
    IN
    /\ upload[r].at = "put"
    /\ PutObject(k, b)
    /\ IF b \in Images
       THEN /\ upload' = [upload EXCEPT ![r].at = "render", ![r].stored = {<<k, b>>}]
            /\ UNCHANGED answered
       ELSE Answer(r, {<<k, b>>})
    /\ UNCHANGED month

\* render: what does not decode is refused, with the file in place.
RenderThumb(r) ==
    /\ upload[r].at = "render"
    /\ upload' = [upload EXCEPT ![r] = IF ThumbOf[upload[r].what[3]] = None THEN NoUpload
                                       ELSE [@ EXCEPT !.at = "thumb"]]
    /\ UNCHANGED <<month, objects, answered>>

\* The thumbnail, under a key made now, and the answer.
PutThumb(r) ==
    LET u == upload[r].what
        b == ThumbOf[u[3]]
        k == Key(u[1], ThumbName[u[2]], b)
    IN
    /\ upload[r].at = "thumb"
    /\ PutObject(k, b)
    /\ Answer(r, upload[r].stored \cup {<<k, b>>})
    /\ UNCHANGED month

\* The client hangs up, a put fails or the process stops: what is stored stays.
AbandonUpload(r) ==
    /\ upload[r] # NoUpload
    /\ upload' = [upload EXCEPT ![r] = NoUpload]
    /\ UNCHANGED <<month, objects, answered>>

Less(stored, k) == {s \in stored : s[1] # k}

\* DELETE of one key: the file, or one of its thumbnails.
RemoveObject ==
    \E k \in ObjectKey :
        /\ objects[ObjectPath(k)] # None
        /\ objects' = [objects EXCEPT ![ObjectPath(k)] = None]
        /\ answered' = Less(answered, k)
        /\ upload' = [r \in Requests |->
                        IF upload[r] = NoUpload THEN NoUpload
                        ELSE [upload[r] EXCEPT !.stored = Less(@, k)]]
        /\ UNCHANGED month

UploadStep(r) == StartUpload(r) \/ PutOriginal(r) \/ RenderThumb(r) \/ PutThumb(r)

AttachmentsNext ==
    \/ \E r \in Requests : UploadStep(r) \/ AbandonUpload(r)
    \/ RemoveObject \/ NextMonth

AttachmentsSpec == AttachmentsInit /\ [][AttachmentsNext]_attachmentsVars

-----------------------------------------------------------------------------
(* Properties.                                                             *)

AttachmentsTypeOK ==
    /\ month \in 1..Months
    /\ objects \in [StoredPath -> Contents \cup {None}]
    /\ upload \in [Requests -> Upload]
    /\ answered \subseteq ObjectKey \X Contents

\* Every URL that an answer gave, of a file or a thumbnail, leads to the bytes it
\* was given for, or to others whose hash begins with the same four bytes, until its
\* key is deleted: no upload or removal of another file takes them away (object_key).
\* Uploads with the same hash share the key, and so do thumbnails that come out the
\* same: deleting one of them deletes the other. The URL of a file in the group "."
\* leads nowhere (ObjectPath, Served) and is left out.
UrlsLeadToTheirFiles ==
    \A a \in answered : a[1].group # Dot =>
        /\ objects[Served(a[1])] # None
        /\ HashOf[objects[Served(a[1])]] = HashOf[a[2]]
=============================================================================
