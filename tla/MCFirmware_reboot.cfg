\* One activation whose polling may fail or time out; no other clicks.
CONSTANTS
    bmcImg = bmcImg
    hostImg = hostImg
    Images = {bmcImg, hostImg}
    ImgType <- MCImgType
    InitImages = {bmcImg}
    MaxActs = 1
    MaxClicks = 1
    ActTicks = 2

SPECIFICATION Spec

INVARIANT RebootOnlyAfterActive

\* the page is idle once its bounded user has acted and every answer is in
CHECK_DEADLOCK FALSE
