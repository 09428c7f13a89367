\* Two activations: the user confirms a second one while the first is still
\* being polled; two clicks open the modal twice.
CONSTANTS
    bmcImg = bmcImg
    hostImg = hostImg
    Images = {bmcImg, hostImg}
    ImgType <- MCImgType
    InitImages = {bmcImg}
    MaxActs = 2
    MaxClicks = 2
    ActTicks = 2

SPECIFICATION Spec

PROPERTY ActivationPollingEnds

\* the page is idle once its bounded user has acted and every answer is in
CHECK_DEADLOCK FALSE
