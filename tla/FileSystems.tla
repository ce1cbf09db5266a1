----------------------------- MODULE FileSystems -----------------------------
(***************************************************************************)
(* What the file systems of the server (local, S3, GCS, Azure blobs and    *)
(* Azure file shares) say of a model repository, as operators on the       *)
(* repository's content.                                                   *)
(*                                                                         *)
(* A repository is a set of keys; a key is a sequence of path parts.  A    *)
(* key whose last part is "" is a directory placeholder: an object whose   *)
(* name ends with a slash in a bucket, an empty directory elsewhere.       *)
(* Buckets, credentials and the listing of more than one page are left     *)
(* out; the services themselves are external.                              *)
(***************************************************************************)
EXTENDS Integers, Sequences

\* Keys of S below the path p, its placeholder included.
Under(S, p) == {k \in S : Len(k) > Len(p) /\ SubSeq(k, 1, Len(p)) = p}

Below(S, p) == Under(S, p) \ {Append(p, "")}

PartAfter(p, K) == {k[Len(p) + 1] : k \in K}

RelativePaths(p, K) == {SubSeq(k, Len(p) + 1, Len(k)) : k \in K}

IsFile(k) == k[Len(k)] # ""

-----------------------------------------------------------------------------
(* The local file system. *)

LocalIsDirectory(S, p) == Under(S, p) # {}

LocalDirectorySubdirs(S, p) ==
  {n \in PartAfter(p, Below(S, p)) : LocalIsDirectory(S, Append(p, n))}

LocalDirectoryFiles(S, p) ==
  {n \in PartAfter(p, Below(S, p)) : ~LocalIsDirectory(S, Append(p, n))}

LocalFileExists(S, p) == p \in S \/ LocalIsDirectory(S, p)

-----------------------------------------------------------------------------
(* Amazon S3. *)

S3IsDirectory(S, p) == p = <<>> \/ Under(S, p) # {}

S3FileExists(S, p) == p \in S \/ S3IsDirectory(S, p)

S3DirectoryContents(S, p) == PartAfter(p, Below(S, p))

S3DirectorySubdirs(S, p) ==
  {n \in S3DirectoryContents(S, p) : S3IsDirectory(S, Append(p, n))}

S3DirectoryFiles(S, p) ==
  {n \in S3DirectoryContents(S, p) : ~S3IsDirectory(S, Append(p, n))}

\* The files of the directory and those of its subdirectories, no deeper,
\* as far as their names are accepted.
S3DownloadFileFolder(S, p, accepted) ==
  LET files == {<<n>> : n \in S3DirectoryFiles(S, p)}
               \cup UNION {{<<d, n>> : n \in S3DirectoryFiles(S, Append(p, d))} :
                           d \in S3DirectorySubdirs(S, p)}
  IN  {f \in files : f[Len(f)] \in accepted}

-----------------------------------------------------------------------------
(* Google Cloud Storage. *)

GCSIsDirectory(S, p) == Under(S, p) # {}

GCSDirectoryContents(S, p) == PartAfter(p, Below(S, p))

GCSDirectorySubdirs(S, p) ==
  {n \in GCSDirectoryContents(S, p) : GCSIsDirectory(S, Append(p, n))}

GCSFileExists(S, p) == p \in S \/ GCSIsDirectory(S, p)

GCSDirectoryFiles(S, p) ==
  {n \in GCSDirectoryContents(S, p) : ~GCSIsDirectory(S, Append(p, n))}

\* Descends into every subdirectory: what is downloaded is every accepted
\* file below p.
GCSDownloadFileFolder(S, p, accepted) ==
  RelativePaths(p, {k \in Under(S, p) : IsFile(k) /\ k[Len(k)] \in accepted})

-----------------------------------------------------------------------------
(* Azure blobs: a directory is an entry without a blob in the listing of   *)
(* its parent.                                                             *)

AzureBlobIsDirectory(S, p) ==
  LET parent == SubSeq(p, 1, Len(p) - 1) IN
  \E k \in Under(S, parent) : Len(k) > Len(p) /\ k[Len(p)] = p[Len(p)]

\* Mutant: blobs are listed as directories too.
AzureBlobDirectoryEntries(S, p) == PartAfter(p, Under(S, p))

AzureBlobDirectorySubdirs(S, p) ==
  PartAfter(p, {k \in Under(S, p) : Len(k) > Len(p) + 1})

AzureBlobDirectoryFiles(S, p) ==
  PartAfter(p, {k \in Under(S, p) : Len(k) = Len(p) + 1 /\ IsFile(k)})

AzureBlobFileExists(S, p) == p \in S

\* Every file below p, whatever its name.
AzureBlobDownloadFileFolder(S, p) ==
  RelativePaths(p, {k \in Under(S, p) : IsFile(k)})

-----------------------------------------------------------------------------
(* Azure file shares: the path is walked from the share down.              *)

\* A path with no directory between the share and its last part is refused.
AzureFileCheckPath(p) == Len(p) >= 2

AzureFileIsDirectory(S, p) ==
  \A i \in 1..Len(p) : Under(S, SubSeq(p, 1, i)) # {}

\* The deepest directory of p that exists; listings are made of this one.
AzureFileLastWorkingSubdir(S, p) ==
  LET existing == {i \in 1..Len(p) : \A j \in 1..i : Under(S, SubSeq(p, 1, j)) # {}}
  IN  SubSeq(p, 1, IF existing = {} THEN 0
                   ELSE CHOOSE i \in existing : \A j \in existing : j <= i)

AzureFileDirectorySubdirs(S, p) ==
  LET d == AzureFileLastWorkingSubdir(S, p) IN
  {n \in PartAfter(d, Below(S, d)) : Under(S, Append(d, n)) # {}}

AzureFileDirectoryFiles(S, p) ==
  LET d == AzureFileLastWorkingSubdir(S, p) IN
  {n \in PartAfter(d, Below(S, d)) : Under(S, Append(d, n)) = {}}

\* The last part is looked up in that directory too.
AzureFileExists(S, p) ==
  LET d == AzureFileLastWorkingSubdir(S, SubSeq(p, 1, Len(p) - 1)) IN
  Append(d, p[Len(p)]) \in S

AzureFileDownloadFileFolder(S, p) ==
  RelativePaths(p, {k \in Under(S, p) : IsFile(k)})

-----------------------------------------------------------------------------
(* The file system that the prefix of the base path selects.               *)

Backends == {"local", "s3", "gcs", "azblob", "azfile"}

IsDirectory(fs, S, p) ==
  CASE fs = "local"  -> LocalIsDirectory(S, p)
    [] fs = "s3"     -> S3IsDirectory(S, p)
    [] fs = "gcs"    -> GCSIsDirectory(S, p)
    [] fs = "azblob" -> AzureBlobIsDirectory(S, p)
    [] fs = "azfile" -> AzureFileCheckPath(p) /\ AzureFileIsDirectory(S, p)

DirectorySubdirs(fs, S, p) ==
  CASE fs = "local"  -> LocalDirectorySubdirs(S, p)
    [] fs = "s3"     -> S3DirectorySubdirs(S, p)
    [] fs = "gcs"    -> GCSDirectorySubdirs(S, p)
    [] fs = "azblob" -> AzureBlobDirectorySubdirs(S, p)
    [] fs = "azfile" -> AzureFileDirectorySubdirs(S, p)

DirectoryFiles(fs, S, p) ==
  CASE fs = "local"  -> LocalDirectoryFiles(S, p)
    [] fs = "s3"     -> S3DirectoryFiles(S, p)
    [] fs = "gcs"    -> GCSDirectoryFiles(S, p)
    [] fs = "azblob" -> AzureBlobDirectoryFiles(S, p)
    [] fs = "azfile" -> AzureFileDirectoryFiles(S, p)

FileExists(fs, S, p) ==
  CASE fs = "local"  -> LocalFileExists(S, p)
    [] fs = "s3"     -> S3FileExists(S, p)
    [] fs = "gcs"    -> GCSFileExists(S, p)
    [] fs = "azblob" -> AzureBlobFileExists(S, p)
    [] fs = "azfile" -> AzureFileExists(S, p)

DownloadFileFolder(fs, S, p, accepted) ==
  CASE fs = "s3"     -> S3DownloadFileFolder(S, p, accepted)
    [] fs = "gcs"    -> GCSDownloadFileFolder(S, p, accepted)
    [] fs = "azblob" -> AzureBlobDownloadFileFolder(S, p)
    [] fs = "azfile" -> AzureFileDownloadFileFolder(S, p)

\* The status of downloadModelVersions: every version has to be there.  S3
\* and GCS go on after a failure and Azure stops, with the same result.
S3DownloadModelVersions(S, base, versions) ==
  \A v \in versions : S3FileExists(S, Append(base, v))

GCSDownloadModelVersions(S, base, versions) ==
  \A v \in versions : GCSIsDirectory(S, Append(base, v))

AzureDownloadModelVersions(fs, S, base, versions) ==
  \A v \in versions : IsDirectory(fs, S, Append(base, v))

DownloadSucceeds(fs, S, base, versions) ==
  CASE fs = "s3"  -> S3DownloadModelVersions(S, base, versions)
    [] fs = "gcs" -> GCSDownloadModelVersions(S, base, versions)
    [] OTHER      -> AzureDownloadModelVersions(fs, S, base, versions)

=============================================================================
