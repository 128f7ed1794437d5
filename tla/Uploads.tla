------------------------------- MODULE Uploads -------------------------------
(***************************************************************************)
(* Files: the upload and download handlers of hdl_files.go, over HTTP and  *)
(* gRPC, their collection when nobody uses them, and the two places where  *)
(* contents are kept, media/fs and media/s3.  Handlers are jobs, as in     *)
(* Accounts.  A database has one more table here, disk: the contents       *)
(* there are, under the location of the handler (a file, an object).       *)
(* A file record has a user, the hour it was last written in (old: an hour *)
(* ago or more), and the location once the upload is finished.             *)
(***************************************************************************)
EXTENDS Accounts

Location(f) == "tenants/" \o f

\* Calls that are not to the database: a file or an object, a stream.
MediaCall(d, id, m, a) ==
    CASE m = "media.Create" -> Done(Ins(d, "disk", {[ten |-> id, loc |-> Location(a[1])]}))
      [] m = "media.Remove" -> Done(Del(d, "disk", LAMBDA r : r.ten = id /\ r.loc = a[1]))
      [] m = "media.Open" -> IF \E r \in Rows(d, "disk", id) : r.loc = a[1] THEN Val({}) ELSE Fail(ErrNotFound)
      [] m \in {"media.Write", "stream.Recv"} -> Val({})
Call(d, id, m, a) ==
    IF m \in {"media.Create", "media.Remove", "media.Open", "media.Write", "stream.Recv"}
    THEN MediaCall(d, id, m, a) ELSE StoreCall(d, id, m, a)

newFile(id, u, f) == [ten |-> id, id |-> f, status |-> "started", user |-> u, old |-> FALSE,
                      loc |-> None]

\* The record of an upload that failed goes, whatever it is that failed.
Unfinished(id, u, f) == Try("FileFinishUpload", <<newFile(id, u, f), FALSE>>)

\* Mutant: contents that could not be written stay in the directory.
fsUploadKept(id, u, f) ==
    Must("media.Create", <<f>>) \o StartUpload(newFile(id, u, f)) \o Must("media.Write", <<f>>)
\* media/fs: the file, its record, its contents.
fsUpload(id, u, f) ==
    Must("media.Create", <<f>>)
    \o OrUndo(StartUpload(newFile(id, u, f)) \o Must("media.Write", <<f>>),
              Try("media.Remove", <<Location(f)>>))
\* media/s3: the record, the object.
s3Upload(id, u, f) == StartUpload(newFile(id, u, f)) \o Must("media.Create", <<f>>)

\* calls, with more to undo after what they undo themselves.
Then(calls, undo) == [i \in DOMAIN calls |-> [calls[i] EXCEPT !.undo = @ \o undo]]
Upload(media, id, u, f) ==
    Then(IF media = "fs" THEN fsUpload(id, u, f) ELSE s3Upload(id, u, f), Unfinished(id, u, f))

\* If the last call fails the handler looks into the record it did not get.
largeFileReceiveHTTP(media, id, u, f) ==
    Upload(media, id, u, f)
    \o On("finish", FinishUpload([newFile(id, u, f) EXCEPT !.loc = Location(f)], TRUE))
\* The upload is not finished: its record has no location.
LargeFileReceive(media, id, u, f) ==
    Upload(media, id, u, f) \o OrUndo(Must("stream.Recv", <<>>), Unfinished(id, u, f))

\* media/fs reads the record for the headers, and again to open its location;
\* media/s3 sends the client to the object named by the identifier.
Download(j, f) == Go(j, Must("media.Open", <<f.loc>>))
Headers(j, f) == Go(j, Must("media.Open", <<f.id>>))
largeFileServeHTTP(media, f) ==
    IF media = "fs" THEN On("exists", FilesGet(f)) \o On("open", FilesGet(f))
    ELSE On("redirect", FilesGet(f))
LargeFileServe(media, f) == largeFileServeHTTP(media, f)

largeFileRunGarbageCollection == On("unused", DeleteUnused)

FileTaken(j, place, ret) ==
    LET one == CHOOSE r \in ret : TRUE
        locs == SetToSeq(ret)
    IN  CASE place = "finish" -> GoOn(j)
          [] place = "open" -> IF ret = {} THEN Abort(j, ErrNotFound) ELSE Download(j, one)
          [] place = "redirect" -> IF ret = {} THEN Abort(j, ErrNotFound) ELSE Headers(j, one)
          [] place = "unused" -> Go(j, IF ret = {} THEN <<>> ELSE On("deleted", DeleteFound(ret)))
          [] place = "deleted" ->
                 Go(j, FlattenSeq([i \in DOMAIN locs |-> Try("media.Remove", <<locs[i]>>)]))

FilePlaces == {"finish", "open", "redirect", "unused", "deleted"}

\* An answer to a job of any kind.
After(j, r) ==
    CASE Now(j).on \notin FilePlaces -> Answered(j, r)
      [] Now(j).on \in FilePlaces /\ r.err = Ok -> FileTaken(j, Now(j).on, r.ret)
      [] OTHER -> Abort(j, IF Now(j).on = "finish" THEN Panic ELSE r.err)
==============================================================================
