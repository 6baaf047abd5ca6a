------------------------------ MODULE ImageKinds ------------------------------
(***************************************************************************)
(* The resources of services/images.                                       *)
(***************************************************************************)
EXTENDS Steps

\* pcd_images_image: made empty, then filled by an upload or an import.  When that
\* fails Create deletes the image again, which Glance refuses if it is protected.
ImageReads == {"attributes", "protected"}
ImageReplaces == {"data"}
uploadLocalFile == SendWork({"data"})
waitForNewImage == Await({"data"})
ImageCreate ==
    <<Post({"attributes", "protected"}), Record, uploadLocalFile, waitForNewImage>>
deleteCreatedImage == <<Destroy>>
ImageRead == <<Refresh(ImageReads)>>
ImageUpdate == <<Send({"attributes", "protected"}), ReadBack(ImageReads)>>
\* Mutant of ImageDelete: the image is left protected.
ImageDeleteProtected == <<Destroy>>
ImageDelete == <<ClearRecorded({"protected"}), Destroy>>
Image == [Resource({"attributes", "protected", "data"}, ImageReplaces, {"reverts"},
        ImageCreate, ImageRead, ImageUpdate, ImageDelete)
    EXCEPT !.blocks = {"protected"}, !.undo = deleteCreatedImage]

\* pcd_images_image_access: adopted when the member is there, recorded before its status
\* is set; left where it is, with a warning, when the image is no longer shared.
readImageMember == Refresh({"status"})
ImageAccessCreate == <<PostOrAdopt({}), Record, Send({"status"})>>
ImageAccessRead == <<readImageMember>>
ImageAccessUpdate == <<SendAll({"status"})>>
ImageAccessDelete == <<DestroyOrWarn>>
ImageAccess == Resource({"status"}, {}, {"named", "unheld"},
    ImageAccessCreate, ImageAccessRead, ImageAccessUpdate, ImageAccessDelete)

\* pcd_images_image_access_accept is this project's status as a member: set, and
\* rejected by Delete.
detectMemberID == Ask
ImageAccessAcceptCreate == <<detectMemberID, Put({"status"})>>
ImageAccessAcceptRead == <<readImageMember>>
ImageAccessAcceptUpdate == <<SendAll({"status"})>>
ImageAccessAcceptDelete == <<DestroyOrWarn>>
ImageAccessAccept == Resource({"status"}, {}, {"named", "unheld"},
    ImageAccessAcceptCreate, ImageAccessAcceptRead, ImageAccessAcceptUpdate,
    ImageAccessAcceptDelete)

ImageKinds == [
    image |-> Image, imageAccess |-> ImageAccess, imageAccessAccept |-> ImageAccessAccept]
=============================================================================
