\* The longest names UploadRequestSchema accepts.
CONSTANTS
    NameLengths = {228, 247, 248, 255}
    NameMax = 255
    Contents = {"words"}
SPECIFICATION FairSpec
CHECK_DEADLOCK FALSE
PROPERTY AcceptedUploadsComplete
